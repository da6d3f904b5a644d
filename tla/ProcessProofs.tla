--------------------------- MODULE ProcessProofs ---------------------------
(***************************************************************************)
(* Proofs about Process for every number of slots, statuses and address    *)
(* spaces.  The invariants of the process table lean on one another: the   *)
(* child a wait resumes has not started because its parent would otherwise *)
(* be BLOCKED, and it is RUNNING; the parent an exit resumes is the one     *)
(* BLOCKED process that waits for the caller, because pids are distinct;   *)
(* and what is popped there is its own frame.  None of them is inductive   *)
(* alone, so they are proved together as IInv.                             *)
(*                                                                         *)
(* That the table implements the stack of calls rests on one thing more:   *)
(* pids grow along the chain of waits (Ordered), so the order of the pids  *)
(* is the order of the calls.                                              *)
(***************************************************************************)
EXTENDS ProcessCallStack, TLAPS, WellFoundedInduction, FiniteSetTheorems, SequenceTheorems

\* Pids come from a counter and are never reused; address spaces likewise.
Ids ==
  /\ next_pid > 0
  /\ \A s \in Used :
       /\ 0 < processes[s].pid /\ processes[s].pid < next_pid
       /\ 0 < processes[s].pml4 /\ processes[s].pml4 <= spaces

IInv ==
  /\ TypeOK
  /\ Ids
  /\ Distinct
  /\ OneRunning
  /\ WaitChain
  /\ FramesResumable
  /\ ContextMatches
  /\ NoPanic

-----------------------------------------------------------------------------
(* The table look-ups *)

\* A nonempty set of slots has a first one.
LEMMA FirstOfMember ==
  ASSUME NEW S, S \subseteq Slots, S # {}
  PROVE  FirstOf(S) \in S
<1> DEFINE R == OpToRel(<, Nat)
<1>1. S \subseteq Nat
  BY DEF Slots
<1>2. \E x \in S : \A y \in S : ~(<<y, x>> \in R)
  <2> HIDE DEF R
  <2>1. IsWellFoundedOn(R, Nat)
    BY NatLessThanWellFounded, Zenon DEF R
  <2> QED BY <1>1, <2>1, WFMin, Zenon
<1>3. \A x, y \in Nat : <<y, x>> \in R <=> y < x
  BY DEF OpToRel
<1>4. \E x \in S : \A y \in S : x <= y
  <2> HIDE DEF R
  <2>1. PICK x \in S : \A y \in S : ~(<<y, x>> \in R)
    BY <1>2
  <2>2. \A y \in S : ~(y < x)
    BY <1>1, <1>3, <2>1
  <2> QED BY <1>1, <2>2
<1> QED BY <1>4, Zenon DEF FirstOf

\* process_create returns an unused slot or none.
LEMMA FreeSlotUnused ==
  ASSUME FreeSlot # NULL
  PROVE  FreeSlot \in Slots /\ processes[FreeSlot].state = "UNUSED"
<1>1. Unused # {} /\ FreeSlot = FirstOf(Unused)
  BY DEF FreeSlot
<1>2. Unused \subseteq Slots
  BY DEF Unused
<1>3. FirstOf(Unused) \in Unused
  BY <1>1, <1>2, FirstOfMember
<1> QED BY <1>1, <1>3 DEF Unused

\* process_find returns a used slot with the pid asked for, or none; when it
\* returns none there is no such slot.
LEMMA FindUsed ==
  ASSUME NEW pid
  PROVE  /\ Find(pid) # NULL =>
              /\ Find(pid) \in Slots
              /\ processes[Find(pid)].state # "UNUSED"
              /\ processes[Find(pid)].pid = pid
         /\ Find(pid) = NULL =>
              \A s \in Slots : processes[s].state # "UNUSED" => processes[s].pid # pid
<1> DEFINE S == {s \in Slots : processes[s].state # "UNUSED" /\ processes[s].pid = pid}
<1>1. S # {} => FirstOf(S) \in S
  <2>1. S \subseteq Slots
    OBVIOUS
  <2> QED BY <2>1, FirstOfMember
<1>2. NULL \notin Slots
  BY DEF NULL, Slots
<1>3. Find(pid) = IF S = {} THEN NULL ELSE FirstOf(S)
  BY DEF Find
<1> QED BY <1>1, <1>2, <1>3

-----------------------------------------------------------------------------
(* The steps *)

\* The table right after a trap: the current slot's frame is its own stack's.
LEMMA TrappedTable ==
  ASSUME IInv, InUser
  PROVE  /\ rsp0 = current_process
         /\ Trapped \in [Slots -> ProcessRecord]
         /\ Trapped[current_process] = [Current EXCEPT !.tf = current_process]
         /\ \A s \in Slots : s # current_process => Trapped[s] = processes[s]
<1> USE DEF IInv, TypeOK
<1>1. rsp0 = current_process
  BY DEF ContextMatches
<1>2. Current \in ProcessRecord
  BY DEF Current
<1>3. [Current EXCEPT !.tf = current_process] \in ProcessRecord
  BY <1>2 DEF ProcessRecord
<1>4. Trapped = [processes EXCEPT ![current_process] = [Current EXCEPT !.tf = current_process]]
  BY <1>1 DEF Trapped, Current
<1> QED BY <1>1, <1>3, <1>4

\* A call that returns to its caller, and at most frees slots nobody runs in.
LEMMA ReturnKeeps ==
  ASSUME IInv, InUser, NEW procs \in [Slots -> ProcessRecord], NEW v \in Int,
         Return(procs, v),
         next_pid' \in Nat, next_pid <= next_pid',
         spaces' \in Nat, spaces <= spaces',
         \A s \in Slots :
           \/ procs[s] = Trapped[s]
           \/ /\ procs[s].state = "UNUSED"
              /\ processes[s].state \in {"UNUSED", "ZOMBIE"}
  PROVE  IInv'
<1> USE DEF IInv, TypeOK
<1>t. /\ rsp0 = current_process
      /\ Trapped[current_process] = [Current EXCEPT !.tf = current_process]
      /\ \A s \in Slots : s # current_process => Trapped[s] = processes[s]
  BY TrappedTable
<1>u. /\ processes' = procs
      /\ kstack' = [kstack EXCEPT ![current_process] = [ctx EXCEPT !.rax = v]]
      /\ ctx' = [ctx EXCEPT !.rax = v]
      /\ current_process' = current_process /\ cr3' = cr3
      /\ rsp0' = rsp0 /\ mode' = mode
  BY <1>t DEF Return
<1>c. /\ current_process \in Slots
      /\ processes[current_process].state = "RUNNING"
      /\ \A s \in Slots : processes[s].state = "RUNNING" => s = current_process
  BY DEF OneRunning
<1>p. \A s \in Slots : processes'[s].state # "UNUSED" =>
        /\ processes'[s].state = processes[s].state
        /\ processes'[s].pid = processes[s].pid
        /\ processes'[s].ppid = processes[s].ppid
        /\ processes'[s].pml4 = processes[s].pml4
        /\ s # current_process => processes'[s] = processes[s]
  BY <1>t, <1>u DEF Current, ProcessRecord
<1>q. \A s \in Slots : processes[s].state \in {"RUNNING", "BLOCKED", "RUNNABLE"} =>
        /\ processes'[s].state = processes[s].state
        /\ processes'[s].pid = processes[s].pid
        /\ processes'[s].ppid = processes[s].ppid
        /\ processes'[s].pml4 = processes[s].pml4
  BY <1>t, <1>u DEF Current, ProcessRecord
<1>1. TypeOK'
  BY <1>u DEF UserContext
<1>2. Ids'
  BY <1>p DEF Ids, Used, ProcessRecord
<1>3. Distinct'
  BY <1>p DEF Distinct, Used
<1>4. OneRunning'
  BY <1>c, <1>p, <1>q, <1>u DEF OneRunning, InUser
<1>5. WaitChain'
  BY <1>p, <1>q, <1>u DEF WaitChain, Active, InUser
<1>6. FramesResumable'
  BY <1>c, <1>p, <1>u DEF FramesResumable
<1>7. ContextMatches'
  BY <1>c, <1>q, <1>u DEF ContextMatches, Current, InUser, UserContext
<1>8. NoPanic'
  BY <1>u DEF NoPanic
<1> QED BY <1>1, <1>2, <1>3, <1>4, <1>5, <1>6, <1>7, <1>8

\* A call that only returns a value.
LEMMA PlainReturnKeeps ==
  ASSUME IInv, InUser, NEW v \in Int, Return(Trapped, v),
         next_pid' = next_pid, spaces' \in Nat, spaces <= spaces'
  PROVE  IInv'
<1>1. Trapped \in [Slots -> ProcessRecord]
  BY TrappedTable
<1>2. next_pid' \in Nat /\ next_pid <= next_pid'
  BY DEF IInv, TypeOK
<1> QED BY <1>1, <1>2, ReturnKeeps

\* A spawn that fails after process_create, and discards the slot it took.
LEMMA FailedSpawnKeeps ==
  ASSUME IInv, InUser, FreeSlot # NULL, next_pid' = next_pid + 1,
         spaces' \in Nat, spaces <= spaces',
         Return([Trapped EXCEPT ![FreeSlot] = Discarded(Created)], -1)
  PROVE  IInv'
<1> DEFINE procs == [Trapped EXCEPT ![FreeSlot] = Discarded(Created)]
<1>1. FreeSlot \in Slots /\ processes[FreeSlot].state = "UNUSED"
  BY FreeSlotUnused
<1>2. Trapped \in [Slots -> ProcessRecord]
  BY TrappedTable
<1>3. next_pid' \in Nat /\ next_pid <= next_pid'
  BY DEF IInv, TypeOK
<1>4. /\ Discarded(Created) \in ProcessRecord
      /\ Discarded(Created).state = "UNUSED"
  BY DEF Discarded, Created, ProcessRecord, States, IInv, TypeOK
<1>5. procs \in [Slots -> ProcessRecord]
  BY <1>2, <1>4
<1>6. \A s \in Slots : \/ procs[s] = Trapped[s]
                       \/ /\ procs[s].state = "UNUSED"
                          /\ processes[s].state \in {"UNUSED", "ZOMBIE"}
  BY <1>1, <1>2, <1>4
<1>7. Return(procs, -1) /\ -1 \in Int
  OBVIOUS
<1> HIDE DEF procs
<1> QED BY <1>3, <1>5, <1>6, <1>7, ReturnKeeps

\* Collecting the status of an ended child frees its slot and keeps the invariant.
LEMMA WaitZombieKeeps ==
  ASSUME IInv, NEW pid, WaitZombie(pid)
  PROVE  IInv'
<1> DEFINE child == Find(pid)
           procs == [Trapped EXCEPT ![child] = Discarded(@)]
           status == processes[child].exit_status
<1>1. /\ InUser /\ child # NULL /\ processes[child].state = "ZOMBIE"
      /\ Return(procs, status) /\ next_pid' = next_pid /\ spaces' = spaces
  BY DEF WaitZombie, IsChild
<1>2. child \in Slots
  BY <1>1, FindUsed
<1>3. Trapped \in [Slots -> ProcessRecord]
  BY <1>1, TrappedTable
<1>4. /\ status \in Int
      /\ next_pid' \in Nat /\ next_pid <= next_pid'
      /\ spaces' \in Nat /\ spaces <= spaces'
  BY <1>1, <1>2 DEF IInv, TypeOK, ProcessRecord
<1> HIDE DEF child
<1>5. procs \in [Slots -> ProcessRecord] /\ procs[child].state = "UNUSED"
  BY <1>2, <1>3 DEF Discarded, ProcessRecord, States
<1>6. \A s \in Slots : \/ procs[s] = Trapped[s]
                       \/ /\ procs[s].state = "UNUSED"
                          /\ processes[s].state \in {"UNUSED", "ZOMBIE"}
  BY <1>1, <1>2, <1>3, <1>5
<1> QED BY <1>1, <1>4, <1>5, <1>6, ReturnKeeps

\* The child gets a slot nobody uses and a pid and address space nobody has.
LEMMA SpawnOkKeeps ==
  ASSUME IInv, SpawnOk
  PROVE  IInv'
<1> DEFINE f == FreeSlot
<1> USE DEF IInv, TypeOK
<1>s. /\ InUser /\ f # NULL
      /\ next_pid' = next_pid + 1 /\ spaces' = spaces + 1
      /\ processes' = [Trapped EXCEPT ![f] = Spawned(f)]
      /\ ctx' = [ctx EXCEPT !.rax = next_pid]
      /\ kstack' = [kstack EXCEPT ![rsp0] = ctx',
                                  ![f] = UserFrame(next_pid, spaces + 1)]
      /\ UNCHANGED <<current_process, cr3, rsp0, mode>>
  BY DEF SpawnOk
<1>f. f \in Slots /\ processes[f].state = "UNUSED"
  BY <1>s, FreeSlotUnused
<1>t. /\ rsp0 = current_process
      /\ Trapped \in [Slots -> ProcessRecord]
      /\ Trapped[current_process] = [Current EXCEPT !.tf = current_process]
      /\ \A s \in Slots : s # current_process => Trapped[s] = processes[s]
  BY <1>s, TrappedTable
<1> HIDE DEF f
<1>c. /\ current_process \in Slots
      /\ processes[current_process].state = "RUNNING"
      /\ current_process # f
      /\ \A s \in Slots : processes[s].state = "RUNNING" => s = current_process
  BY <1>s, <1>f DEF OneRunning
<1>n. /\ Current \in ProcessRecord /\ Current.pid < next_pid /\ 0 < Current.pid
      /\ 0 < next_pid
  BY <1>c DEF Ids, Used, Current
<1>r. /\ Spawned(f).pid = next_pid /\ Spawned(f).ppid = Current.pid
      /\ Spawned(f).state = "RUNNABLE" /\ Spawned(f).pml4 = spaces + 1
      /\ Spawned(f).tf = f /\ Spawned(f) \in ProcessRecord
  <2>1. Created \in ProcessRecord
    BY DEF Created, ProcessRecord, States
  <2>2. Current.pid \in Nat /\ spaces + 1 \in Nat /\ f \in Slots \cup {NULL}
    BY <1>f, <1>n DEF ProcessRecord
  <2> QED BY <2>1, <2>2 DEF Spawned, Created, ProcessRecord
<1>e. /\ processes'[f].pid = next_pid /\ processes'[f].ppid = Current.pid
      /\ processes'[f].state = "RUNNABLE" /\ processes'[f].pml4 = spaces + 1
      /\ processes'[f].tf = f /\ processes'[f] \in ProcessRecord
  BY <1>f, <1>r, <1>s, <1>t
<1>p. \A s \in Slots : s # f =>
        /\ processes'[s] \in ProcessRecord
        /\ processes'[s].state = processes[s].state
        /\ processes'[s].pid = processes[s].pid
        /\ processes'[s].ppid = processes[s].ppid
        /\ processes'[s].pml4 = processes[s].pml4
        /\ s # current_process => processes'[s] = processes[s]
  BY <1>n, <1>s, <1>t DEF Current, ProcessRecord
<1>k. /\ kstack'[f] = UserFrame(next_pid, spaces + 1)
      /\ \A s \in Slots \ {f, current_process} : kstack'[s] = kstack[s]
      /\ kstack' \in [Slots -> UserContext]
  BY <1>c, <1>f, <1>s, <1>t DEF UserFrame, UserContext
<1>1. TypeOK'
  <2>1. processes' \in [Slots -> ProcessRecord]
    BY <1>e, <1>p, <1>s, <1>t
  <2>2. ctx' \in UserContext
    BY <1>s DEF UserContext
  <2> QED BY <1>k, <1>s, <2>1, <2>2
<1>2. Ids'
  BY <1>e, <1>n, <1>p, <1>s DEF Ids, Used, ProcessRecord
<1>3. Distinct'
  BY <1>e, <1>n, <1>p DEF Distinct, Used, Ids, ProcessRecord
<1>4. OneRunning'
  BY <1>c, <1>e, <1>p, <1>s DEF OneRunning, InUser
<1>5. WaitChain'
  BY <1>e, <1>f, <1>p, <1>s DEF WaitChain, Active, InUser
<1>6. FramesResumable'
  BY <1>c, <1>e, <1>k, <1>p DEF FramesResumable, UserFrame
<1>7. ContextMatches'
  BY <1>c, <1>p, <1>s DEF ContextMatches, Current, InUser, UserContext
<1>8. NoPanic'
  BY <1>s DEF NoPanic
<1> QED BY <1>1, <1>2, <1>3, <1>4, <1>5, <1>6, <1>7, <1>8

\* What setting the state of one slot does to a table.
LEMMA StateSet ==
  ASSUME NEW procs \in [Slots -> ProcessRecord], NEW s \in Slots, NEW st \in States,
         NEW set, set = [procs EXCEPT ![s].state = st]
  PROVE  /\ set \in [Slots -> ProcessRecord]
         /\ set[s].state = st
         /\ set[s].pid = procs[s].pid /\ set[s].ppid = procs[s].ppid
         /\ set[s].pml4 = procs[s].pml4 /\ set[s].tf = procs[s].tf
         /\ set[s].exit_status = procs[s].exit_status
         /\ \A t \in Slots : t # s => set[t] = procs[t]
<1>1. [procs[s] EXCEPT !.state = st] \in ProcessRecord
  BY DEF ProcessRecord
<1>2. set = [procs EXCEPT ![s] = [procs[s] EXCEPT !.state = st]]
  OBVIOUS
<1> QED BY <1>1, <1>2 DEF ProcessRecord

\* The child a wait resumes has not started: its parent would be BLOCKED.
LEMMA WaitedChildRunnable ==
  ASSUME IInv, InUser, NEW pid, IsChild(Find(pid)),
         processes[Find(pid)].state # "ZOMBIE"
  PROVE  /\ Find(pid) \in Slots \ {current_process}
         /\ processes[Find(pid)].state = "RUNNABLE"
         /\ \A s \in Active : processes[s].ppid # Current.pid
<1> DEFINE child == Find(pid)
<1> USE DEF IInv, TypeOK
<1>1. child \in Slots /\ processes[child].state # "UNUSED"
  BY FindUsed DEF IsChild
<1>2. processes[child].ppid = Current.pid
  BY DEF IsChild
<1> HIDE DEF child
<1>3. /\ current_process \in Used /\ processes[current_process].state = "RUNNING"
      /\ 0 < Current.pid
  BY DEF OneRunning, Ids, Used, Current
<1>4. \A s \in Active : processes[s].ppid # Current.pid
  <2> SUFFICES ASSUME NEW s \in Active, processes[s].ppid = Current.pid
               PROVE  FALSE
    OBVIOUS
  <2>1. PICK t \in Active : /\ processes[t].pid = Current.pid
                            /\ processes[t].state = "BLOCKED"
    BY <1>3 DEF WaitChain
  <2>2. t \in Used /\ t # current_process
    BY <1>3, <2>1 DEF Active, Used
  <2> QED BY <1>3, <2>1, <2>2 DEF Distinct, Current
<1>5. child \notin Active
  BY <1>2, <1>4
<1>6. processes[child].state = "RUNNABLE"
  BY <1>1, <1>5 DEF Active, ProcessRecord, States, child
<1> QED BY <1>1, <1>3, <1>4, <1>6 DEF child

\* The caller blocks and its child, which had not started, becomes current.
LEMMA WaitSwitchKeeps ==
  ASSUME IInv, NEW pid, WaitSwitch(pid)
  PROVE  IInv'
<1> DEFINE child == Find(pid)
           me == current_process
<1> USE DEF IInv, TypeOK
<1>s. /\ InUser /\ IsChild(child) /\ processes[child].state # "ZOMBIE"
      /\ Switch([Trapped EXCEPT ![me].state = "BLOCKED",
                                ![child].state = "RUNNING"],
                Pushed(SYS_WAIT), child)
      /\ next_pid' = next_pid /\ spaces' = spaces /\ mode' = mode
  BY DEF WaitSwitch
<1>c. /\ child \in Slots /\ child # me /\ processes[child].state = "RUNNABLE"
      /\ \A s \in Active : processes[s].ppid # Current.pid
  BY <1>s, WaitedChildRunnable
<1>d. processes[child].ppid = Current.pid
  BY <1>s DEF IsChild
<1>t. /\ rsp0 = me
      /\ Trapped \in [Slots -> ProcessRecord]
      /\ Trapped[me] = [Current EXCEPT !.tf = me]
      /\ \A s \in Slots : s # me => Trapped[s] = processes[s]
  BY <1>s, TrappedTable
<1> HIDE DEF child
<1>m. /\ me \in Used /\ Current \in ProcessRecord /\ Current.state = "RUNNING"
      /\ 0 < Current.pid
      /\ \A s \in Slots : processes[s].state = "RUNNING" => s = me
      /\ cr3 = Current.pml4 /\ ctx.owner = Current.pid /\ ctx.image = Current.pml4
  BY <1>s DEF OneRunning, Ids, Used, Current, ContextMatches
<1> DEFINE asleep == [Trapped EXCEPT ![me].state = "BLOCKED"]
           procs  == [asleep EXCEPT ![child].state = "RUNNING"]
<1>a. /\ asleep \in [Slots -> ProcessRecord]
      /\ asleep[me].state = "BLOCKED" /\ asleep[me].tf = me
      /\ asleep[me].pid = Current.pid /\ asleep[me].ppid = Current.ppid
      /\ asleep[me].pml4 = Current.pml4
      /\ \A s \in Slots : s # me => asleep[s] = processes[s]
  <2>1. /\ Trapped[me].tf = me /\ Trapped[me].pid = Current.pid
        /\ Trapped[me].ppid = Current.ppid /\ Trapped[me].pml4 = Current.pml4
    BY <1>m, <1>t DEF ProcessRecord
  <2>2. /\ me \in Slots /\ "BLOCKED" \in States /\ Trapped \in [Slots -> ProcessRecord]
        /\ asleep = [Trapped EXCEPT ![me].state = "BLOCKED"]
    BY <1>t DEF States
  <2> HIDE DEF asleep, me, IInv, TypeOK
  <2>3. /\ asleep \in [Slots -> ProcessRecord]
        /\ asleep[me].state = "BLOCKED" /\ asleep[me].tf = Trapped[me].tf
        /\ asleep[me].pid = Trapped[me].pid /\ asleep[me].ppid = Trapped[me].ppid
        /\ asleep[me].pml4 = Trapped[me].pml4
        /\ \A s \in Slots : s # me => asleep[s] = Trapped[s]
    BY <2>2, StateSet
  <2> QED BY <1>t, <2>1, <2>3
<1>b. /\ procs \in [Slots -> ProcessRecord]
      /\ procs[child].state = "RUNNING" /\ procs[child].tf = processes[child].tf
      /\ procs[child].pid = processes[child].pid
      /\ procs[child].ppid = processes[child].ppid
      /\ procs[child].pml4 = processes[child].pml4
      /\ procs[me] = asleep[me]
      /\ \A s \in Slots \ {me, child} : procs[s] = processes[s]
  <2>1. "RUNNING" \in States /\ procs = [asleep EXCEPT ![child].state = "RUNNING"]
    BY DEF States
  <2> HIDE DEF asleep, procs
  <2>2. /\ procs \in [Slots -> ProcessRecord]
        /\ procs[child].state = "RUNNING" /\ procs[child].tf = asleep[child].tf
        /\ procs[child].pid = asleep[child].pid
        /\ procs[child].ppid = asleep[child].ppid
        /\ procs[child].pml4 = asleep[child].pml4
        /\ \A s \in Slots : s # child => procs[s] = asleep[s]
    BY <1>a, <1>c, <2>1, StateSet
  <2> QED BY <1>a, <1>c, <2>2
<1>z. Switch(procs, Pushed(SYS_WAIT), child)
  BY <1>s
<1> HIDE DEF procs
<1>y. [procs EXCEPT ![child].state = "RUNNING"] = procs
  <2>1. [procs[child] EXCEPT !.state = "RUNNING"] = procs[child]
    BY <1>b, <1>c DEF ProcessRecord
  <2> QED BY <1>b, <1>c, <2>1
<1>p. /\ processes' = procs
      /\ current_process' = child /\ rsp0' = child
      /\ cr3' = processes[child].pml4
      /\ kstack' = [kstack EXCEPT ![me] = [ctx EXCEPT !.rax = SYS_WAIT]]
      /\ ctx' = kstack'[processes[child].tf]
  BY <1>b, <1>t, <1>y, <1>z DEF Switch, Pushed
<1>q. /\ processes' \in [Slots -> ProcessRecord]
      /\ processes'[me].state = "BLOCKED" /\ processes'[me].tf = me
      /\ processes'[child].state = "RUNNING"
      /\ \A s \in Slots \ {me, child} : processes'[s] = processes[s]
  BY <1>a, <1>b, <1>p
<1>r. \A s \in Slots : /\ processes'[s].pid = processes[s].pid
                       /\ processes'[s].ppid = processes[s].ppid
                       /\ processes'[s].pml4 = processes[s].pml4
                       /\ processes'[s].state = "UNUSED" <=> processes[s].state = "UNUSED"
  <2>1. /\ processes'[me].pid = processes[me].pid
        /\ processes'[me].ppid = processes[me].ppid
        /\ processes'[me].pml4 = processes[me].pml4
        /\ processes'[me].state = "BLOCKED" /\ processes[me].state = "RUNNING"
    BY <1>a, <1>b, <1>m, <1>p DEF Current
  <2>2. /\ processes'[child].pid = processes[child].pid
        /\ processes'[child].ppid = processes[child].ppid
        /\ processes'[child].pml4 = processes[child].pml4
        /\ processes'[child].state = "RUNNING" /\ processes[child].state = "RUNNABLE"
    BY <1>b, <1>c, <1>p
  <2>3. \A s \in Slots \ {me, child} : processes'[s] = processes[s]
    BY <1>q
  <2> HIDE DEF me, IInv, TypeOK
  <2> QED BY <2>1, <2>2, <2>3
<1>f. /\ processes[child].tf = child
      /\ kstack[child].owner = processes[child].pid
      /\ kstack[child].image = processes[child].pml4
  BY <1>c DEF FramesResumable
<1>k. /\ kstack' \in [Slots -> UserContext]
      /\ kstack'[me].owner = Current.pid /\ kstack'[me].image = Current.pml4
      /\ \A s \in Slots \ {me} : kstack'[s] = kstack[s]
  BY <1>m, <1>p DEF UserContext, SYS_WAIT, Used
<1>1. TypeOK'
  BY <1>c, <1>f, <1>k, <1>p, <1>q, <1>s DEF ProcessRecord
<1>2. Ids'
  BY <1>r, <1>s DEF Ids, Used
<1>3. Distinct'
  BY <1>r DEF Distinct, Used
<1>4. OneRunning'
  BY <1>c, <1>m, <1>p, <1>q DEF OneRunning, Current, ProcessRecord, Used
<1>5. WaitChain'
  <2>1. Active' = Active \cup {child}
    BY <1>c, <1>m, <1>q DEF Active, Current, ProcessRecord, Used
  <2>2. me \in Active /\ \A t \in Active : processes[t].state = "BLOCKED" =>
           t # me /\ processes'[t] = processes[t]
    BY <1>c, <1>m, <1>q DEF Active, Current, Used
  <2>3. ASSUME NEW s \in Active'
        PROVE  \A t \in Active' : processes'[t].ppid = processes'[s].ppid => t = s
    BY <1>c, <1>d, <1>r, <1>s, <2>1 DEF WaitChain, Active
  <2>4. ASSUME NEW s \in Active', processes'[s].ppid # 0
        PROVE  \E t \in Active' : /\ processes'[t].pid = processes'[s].ppid
                                  /\ processes'[t].state = "BLOCKED"
    <3>1. CASE s = child
      <4>1. /\ processes'[me].pid = processes'[child].ppid
            /\ processes'[me].state = "BLOCKED"
        BY <1>c, <1>d, <1>m, <1>q, <1>r DEF Current, ProcessRecord, Used
      <4> QED BY <2>1, <2>2, <3>1, <4>1
    <3>2. CASE s \in Active
      <4>1. PICK t \in Active : /\ processes[t].pid = processes[s].ppid
                                /\ processes[t].state = "BLOCKED"
        BY <1>r, <1>s, <2>4, <3>2 DEF WaitChain, Active
      <4> QED BY <1>r, <2>1, <2>2, <3>2, <4>1 DEF Active
    <3> QED BY <2>1, <3>1, <3>2
  <2> QED BY <2>3, <2>4 DEF WaitChain
<1>6. FramesResumable'
  <2> SUFFICES ASSUME NEW s \in Slots, processes'[s].state \in {"RUNNABLE", "BLOCKED"}
               PROVE  /\ processes'[s].tf = s
                      /\ kstack'[s].owner = processes'[s].pid
                      /\ kstack'[s].image = processes'[s].pml4
    BY DEF FramesResumable
  <2>1. CASE s = me
    BY <1>k, <1>q, <1>r, <2>1 DEF Current
  <2>2. CASE s \in Slots \ {me, child}
    BY <1>k, <1>q, <2>2 DEF FramesResumable
  <2> QED BY <1>q, <2>1, <2>2
<1>7. ContextMatches'
  BY <1>c, <1>f, <1>k, <1>p, <1>r DEF ContextMatches, Current
<1>8. NoPanic'
  BY <1>s DEF NoPanic
<1> QED BY <1>1, <1>2, <1>3, <1>4, <1>5, <1>6, <1>7, <1>8

\* The parent an exit finds is the BLOCKED process that waits for the caller.
LEMMA ParentWaits ==
  ASSUME IInv, InUser, Find(Current.ppid) # NULL
  PROVE  /\ Find(Current.ppid) \in Active \ {current_process}
         /\ processes[Find(Current.ppid)].pid = Current.ppid
         /\ processes[Find(Current.ppid)].state = "BLOCKED"
         /\ processes[Find(Current.ppid)].tf = Find(Current.ppid)
<1> DEFINE parent == Find(Current.ppid)
<1> USE DEF IInv, TypeOK
<1>1. /\ parent \in Slots /\ processes[parent].state # "UNUSED"
      /\ processes[parent].pid = Current.ppid
  BY FindUsed
<1> HIDE DEF parent
<1>2. current_process \in Active /\ processes[current_process].state = "RUNNING"
  BY DEF OneRunning, Active
<1>3. Current.ppid # 0
  BY <1>1 DEF Ids, Used
<1>4. PICK t \in Active : /\ processes[t].pid = Current.ppid
                          /\ processes[t].state = "BLOCKED"
  BY <1>2, <1>3 DEF WaitChain, Current
<1>5. t = parent
  BY <1>1, <1>4 DEF Distinct, Used, Active
<1>6. processes[parent].tf = parent /\ parent # current_process
  BY <1>1, <1>2, <1>4, <1>5 DEF FramesResumable
<1> QED BY <1>1, <1>4, <1>5, <1>6 DEF parent

\* The table an exit leaves before it looks at the parent.
LEMMA EndedTable ==
  ASSUME IInv, InUser, NEW status \in Int
  PROVE  /\ Ended(status) \in [Slots -> ProcessRecord]
         /\ Ended(status)[current_process].state = "ZOMBIE"
         /\ Ended(status)[current_process].exit_status = status
         /\ Ended(status)[current_process].pid = Current.pid
         /\ Ended(status)[current_process].ppid = Current.ppid
         /\ Ended(status)[current_process].pml4 = Current.pml4
         /\ \A s \in Slots : s # current_process => Ended(status)[s] = processes[s]
<1> DEFINE me == current_process
           dead == [Trapped EXCEPT ![me].exit_status = status]
<1>1. /\ me \in Slots /\ Trapped \in [Slots -> ProcessRecord]
      /\ Trapped[me] = [Current EXCEPT !.tf = me]
      /\ \A s \in Slots : s # me => Trapped[s] = processes[s]
      /\ Current \in ProcessRecord
  BY TrappedTable DEF IInv, TypeOK, Current
<1>2. /\ Trapped[me].pid = Current.pid /\ Trapped[me].ppid = Current.ppid
      /\ Trapped[me].pml4 = Current.pml4
  BY <1>1 DEF ProcessRecord
<1>3. /\ dead \in [Slots -> ProcessRecord]
      /\ dead[me].exit_status = status
      /\ dead[me].pid = Trapped[me].pid /\ dead[me].ppid = Trapped[me].ppid
      /\ dead[me].pml4 = Trapped[me].pml4
      /\ \A s \in Slots : s # me => dead[s] = Trapped[s]
  <2>1. [Trapped[me] EXCEPT !.exit_status = status] \in ProcessRecord
    BY <1>1 DEF ProcessRecord
  <2>2. dead = [Trapped EXCEPT ![me] = [Trapped[me] EXCEPT !.exit_status = status]]
    OBVIOUS
  <2> HIDE DEF dead, me
  <2> QED BY <1>1, <2>1, <2>2 DEF ProcessRecord
<1>4. Ended(status) = [dead EXCEPT ![me].state = "ZOMBIE"] /\ "ZOMBIE" \in States
  BY DEF Ended, States
<1> HIDE DEF dead, me
<1>5. /\ Ended(status) \in [Slots -> ProcessRecord]
      /\ Ended(status)[me].state = "ZOMBIE"
      /\ Ended(status)[me].exit_status = dead[me].exit_status
      /\ Ended(status)[me].pid = dead[me].pid
      /\ Ended(status)[me].ppid = dead[me].ppid
      /\ Ended(status)[me].pml4 = dead[me].pml4
      /\ \A s \in Slots : s # me => Ended(status)[s] = dead[s]
  BY <1>1, <1>3, <1>4, StateSet
<1> QED BY <1>1, <1>2, <1>3, <1>5 DEF me

\* The caller ends with no parent to resume.
LEMMA ExitHaltKeeps ==
  ASSUME IInv, NEW status \in Int, ExitHalt(status)
  PROVE  IInv'
<1> DEFINE me == current_process
<1> USE DEF IInv, TypeOK
<1>1. /\ InUser /\ processes' = Ended(status) /\ kstack' = Pushed(SYS_EXIT)
      /\ mode' = "halted"
      /\ UNCHANGED <<current_process, next_pid, spaces, cr3, rsp0, ctx>>
  BY DEF ExitHalt
<1>2. /\ processes' \in [Slots -> ProcessRecord]
      /\ processes'[me].state = "ZOMBIE"
      /\ \A s \in Slots : s # me => processes'[s] = processes[s]
      /\ \A s \in Slots : /\ processes'[s].pid = processes[s].pid
                          /\ processes'[s].pml4 = processes[s].pml4
  BY <1>1, EndedTable DEF Current
<1>3. /\ me \in Used /\ rsp0 = me
      /\ \A s \in Slots : s # me => processes[s].state # "RUNNING"
  BY <1>1 DEF OneRunning, ContextMatches, Used
<1>4. /\ kstack' \in [Slots -> UserContext]
      /\ \A s \in Slots : s # me => kstack'[s] = kstack[s]
  BY <1>1, <1>3 DEF Pushed, UserContext, SYS_EXIT
<1>5. \A s \in Slots : processes'[s].state # "UNUSED" <=> processes[s].state # "UNUSED"
  BY <1>2, <1>3 DEF Used
<1>6. TypeOK' /\ NoPanic'
  BY <1>1, <1>2, <1>4 DEF NoPanic
<1>7. Ids' /\ Distinct'
  BY <1>1, <1>2, <1>5 DEF Ids, Distinct, Used
<1>8. OneRunning' /\ WaitChain' /\ ContextMatches'
  BY <1>1 DEF OneRunning, WaitChain, ContextMatches, InUser
<1>9. FramesResumable'
  BY <1>2, <1>4 DEF FramesResumable
<1> QED BY <1>6, <1>7, <1>8, <1>9

\* The caller ends and the parent that waits for it takes over.
LEMMA ExitToParentKeeps ==
  ASSUME IInv, NEW status \in Int, ExitToParent(status)
  PROVE  /\ IInv'
         /\ LET parent == Find(Current.ppid) IN
            /\ parent \in Active \ {current_process}
            /\ processes[parent].pid = Current.ppid
            /\ current_process' = parent
            /\ Current'.pid = processes[parent].pid
            /\ processes'[current_process].state = "ZOMBIE"
            /\ processes'[current_process].exit_status = status
            /\ \A s \in Slots \ {current_process, parent} :
                 processes'[s] = processes[s] /\ kstack'[s] = kstack[s]
            /\ kstack'[parent] = [kstack[parent] EXCEPT !.rax = status]
<1> DEFINE me == current_process
           parent == Find(Current.ppid)
           procs  == [Ended(status) EXCEPT ![parent].state = "RUNNING"]
           stacks == [Pushed(SYS_EXIT) EXCEPT ![procs[parent].tf].rax = status]
<1> USE DEF IInv, TypeOK
<1>s. /\ InUser /\ parent # NULL /\ next_pid' = next_pid /\ spaces' = spaces
      /\ procs[parent].tf # NULL =>
           Switch(procs, stacks, parent) /\ mode' = mode
  BY DEF ExitToParent
<1>m. /\ me \in Active /\ rsp0 = me
      /\ \A s \in Slots : processes[s].state = "RUNNING" => s = me
  BY <1>s DEF OneRunning, ContextMatches, Active
<1>w. /\ parent \in Active \ {me}
      /\ processes[parent].pid = Current.ppid
      /\ processes[parent].state = "BLOCKED"
      /\ processes[parent].tf = parent
  BY <1>s, ParentWaits
<1>e. /\ Ended(status) \in [Slots -> ProcessRecord]
      /\ Ended(status)[me].state = "ZOMBIE"
      /\ Ended(status)[me].exit_status = status
      /\ Ended(status)[me].pid = Current.pid
      /\ Ended(status)[me].ppid = Current.ppid
      /\ Ended(status)[me].pml4 = Current.pml4
      /\ \A s \in Slots : s # me => Ended(status)[s] = processes[s]
  BY <1>s, EndedTable
<1>b. /\ procs \in [Slots -> ProcessRecord]
      /\ procs[parent].state = "RUNNING" /\ procs[parent].tf = parent
      /\ procs[parent].pid = processes[parent].pid
      /\ procs[parent].ppid = processes[parent].ppid
      /\ procs[parent].pml4 = processes[parent].pml4
      /\ procs[me] = Ended(status)[me]
      /\ \A s \in Slots \ {me, parent} : procs[s] = processes[s]
  <2>1. /\ parent \in Slots /\ "RUNNING" \in States
        /\ procs = [Ended(status) EXCEPT ![parent].state = "RUNNING"]
    BY <1>w DEF States, Active
  <2> HIDE DEF parent, procs, me
  <2>2. /\ procs \in [Slots -> ProcessRecord]
        /\ procs[parent].state = "RUNNING"
        /\ procs[parent].tf = Ended(status)[parent].tf
        /\ procs[parent].pid = Ended(status)[parent].pid
        /\ procs[parent].ppid = Ended(status)[parent].ppid
        /\ procs[parent].pml4 = Ended(status)[parent].pml4
        /\ \A s \in Slots : s # parent => procs[s] = Ended(status)[s]
    BY <1>e, <2>1, StateSet
  <2> QED BY <1>e, <1>m, <1>w, <2>1, <2>2 DEF Active
<1>y. [procs EXCEPT ![parent].state = "RUNNING"] = procs
  <2> HIDE DEF parent, procs
  <2>1. [procs[parent] EXCEPT !.state = "RUNNING"] = procs[parent]
    BY <1>b, <1>w DEF ProcessRecord, Active
  <2> QED BY <1>b, <1>w, <2>1 DEF Active
<1>k. /\ stacks \in [Slots -> UserContext]
      /\ stacks[parent] = [kstack[parent] EXCEPT !.rax = status]
      /\ \A s \in Slots \ {me, parent} : stacks[s] = kstack[s]
  <2>1. stacks = [Pushed(SYS_EXIT) EXCEPT ![parent].rax = status]
    BY <1>b
  <2> HIDE DEF parent, stacks
  <2>2. /\ Pushed(SYS_EXIT) \in [Slots -> UserContext]
        /\ \A s \in Slots \ {me} : Pushed(SYS_EXIT)[s] = kstack[s]
    BY <1>m DEF Pushed, UserContext, SYS_EXIT
  <2>3. [kstack[parent] EXCEPT !.rax = status] \in UserContext
    BY <1>w DEF UserContext, Active
  <2>4. stacks = [Pushed(SYS_EXIT) EXCEPT ![parent] = [kstack[parent] EXCEPT !.rax = status]]
    BY <1>w, <2>1, <2>2 DEF Active
  <2> QED BY <1>w, <2>2, <2>3, <2>4 DEF Active
<1>z. Switch(procs, stacks, parent) /\ mode' = mode
  BY <1>b, <1>s, <1>w DEF NULL, Slots, Active
<1> HIDE DEF procs, stacks, parent
<1>p. /\ processes' = procs /\ kstack' = stacks
      /\ current_process' = parent /\ rsp0' = parent
      /\ cr3' = processes[parent].pml4
      /\ ctx' = stacks[parent]
  BY <1>b, <1>y, <1>z DEF Switch
<1>f. /\ parent \in Slots /\ me \in Slots
      /\ kstack[parent].owner = processes[parent].pid
      /\ kstack[parent].image = processes[parent].pml4
      /\ ctx'.owner = processes[parent].pid /\ ctx'.image = processes[parent].pml4
  <2>1. /\ parent \in Slots /\ kstack[parent].owner = processes[parent].pid
        /\ kstack[parent].image = processes[parent].pml4
    BY <1>w DEF FramesResumable, Active
  <2> QED BY <1>k, <1>p, <2>1 DEF UserContext
<1>r. \A s \in Slots : /\ processes'[s].pid = processes[s].pid
                       /\ processes'[s].ppid = processes[s].ppid
                       /\ processes'[s].pml4 = processes[s].pml4
                       /\ processes'[s].state = "UNUSED" <=> processes[s].state = "UNUSED"
  BY <1>b, <1>e, <1>m, <1>p, <1>w DEF Current, Active
<1>1. TypeOK'
  BY <1>b, <1>f, <1>k, <1>p, <1>s, <1>z DEF ProcessRecord
<1>2. Ids'
  BY <1>r, <1>s DEF Ids, Used
<1>3. Distinct'
  BY <1>r DEF Distinct, Used
<1>4. OneRunning'
  BY <1>b, <1>e, <1>f, <1>m, <1>p DEF OneRunning
<1>5. WaitChain'
  <2>1. Active' = Active \ {me}
    BY <1>b, <1>e, <1>f, <1>m, <1>p, <1>w DEF Active
  <2>2. ASSUME NEW s \in Active', processes'[s].ppid # 0
        PROVE  \E t \in Active' : /\ processes'[t].pid = processes'[s].ppid
                                  /\ processes'[t].state = "BLOCKED"
    <3>1. PICK t \in Active : /\ processes[t].pid = processes[s].ppid
                              /\ processes[t].state = "BLOCKED"
      BY <1>r, <1>s, <2>1, <2>2 DEF WaitChain, Active
    <3>2. t # parent
      \* Otherwise s and the caller would both be active children of it.
      BY <1>m, <1>s, <1>w, <2>1, <3>1 DEF WaitChain, Current
    <3>3. t \in Active' /\ processes'[t].state = "BLOCKED"
      BY <1>b, <1>m, <1>p, <1>s, <2>1, <3>1, <3>2 DEF Active, OneRunning
    <3> QED BY <1>r, <2>1, <2>2, <3>1, <3>3 DEF Active
  <2>3. \A s, t \in Active' : processes'[t].ppid = processes'[s].ppid => t = s
    BY <1>r, <1>s, <2>1 DEF WaitChain, Active
  <2> QED BY <2>2, <2>3 DEF WaitChain
<1>6. FramesResumable'
  <2> SUFFICES ASSUME NEW s \in Slots, processes'[s].state \in {"RUNNABLE", "BLOCKED"}
               PROVE  /\ processes'[s].tf = s
                      /\ kstack'[s].owner = processes'[s].pid
                      /\ kstack'[s].image = processes'[s].pml4
    BY DEF FramesResumable
  <2>1. s \in Slots \ {me, parent}
    BY <1>b, <1>e, <1>p
  <2> QED BY <1>b, <1>k, <1>p, <2>1 DEF FramesResumable
<1>7. ContextMatches'
  BY <1>f, <1>p, <1>r DEF ContextMatches, Current
<1>8. NoPanic'
  BY <1>z DEF NoPanic
<1>9. IInv'
  BY <1>1, <1>2, <1>3, <1>4, <1>5, <1>6, <1>7, <1>8
<1>10. Current'.pid = processes[parent].pid
  BY <1>f, <1>p, <1>r DEF Current
<1> QED BY <1>9, <1>10, <1>b, <1>e, <1>k, <1>p, <1>w DEF parent

\* The caller goes on in a new address space.
LEMMA ExecOkKeeps ==
  ASSUME IInv, ExecOk
  PROVE  IInv'
<1> DEFINE me == current_process
           procs == [Trapped EXCEPT ![me].pml4 = spaces + 1]
<1> USE DEF IInv, TypeOK
<1>s. /\ InUser /\ spaces' = spaces + 1 /\ processes' = procs
      /\ ctx' = [ctx EXCEPT !.image = spaces + 1, !.rax = 0]
      /\ kstack' = [kstack EXCEPT ![rsp0] = ctx']
      /\ cr3' = spaces + 1 /\ rsp0' = me
      /\ UNCHANGED <<current_process, next_pid, mode>>
  BY DEF ExecOk
<1>t. /\ me \in Slots /\ rsp0 = me
      /\ Trapped \in [Slots -> ProcessRecord]
      /\ Trapped[me] = [Current EXCEPT !.tf = me]
      /\ \A s \in Slots : s # me => Trapped[s] = processes[s]
  BY <1>s, TrappedTable
<1>m. /\ Current \in ProcessRecord /\ Current.state = "RUNNING" /\ ctx.owner = Current.pid
      /\ \A s \in Slots : processes[s].state = "RUNNING" => s = me
  BY <1>s DEF OneRunning, ContextMatches, Current
<1>p. /\ processes' \in [Slots -> ProcessRecord]
      /\ processes'[me].pml4 = spaces + 1
      /\ processes'[me].pid = processes[me].pid
      /\ processes'[me].ppid = processes[me].ppid
      /\ processes'[me].state = processes[me].state
      /\ \A s \in Slots : s # me => processes'[s] = processes[s]
  <2>1. /\ Trapped[me].pid = processes[me].pid /\ Trapped[me].ppid = processes[me].ppid
        /\ Trapped[me].state = processes[me].state
    BY <1>m, <1>t DEF ProcessRecord, Current
  <2>2. [Trapped[me] EXCEPT !.pml4 = spaces + 1] \in ProcessRecord
    <3>1. Trapped[me] \in ProcessRecord /\ spaces + 1 \in Nat
      BY <1>t
    <3> QED BY <3>1 DEF ProcessRecord
  <2>3. procs = [Trapped EXCEPT ![me] = [Trapped[me] EXCEPT !.pml4 = spaces + 1]]
    OBVIOUS
  <2> HIDE DEF procs
  <2> QED BY <1>s, <1>t, <2>1, <2>2, <2>3 DEF ProcessRecord
<1> HIDE DEF procs
<1>q. \A s \in Slots : /\ processes'[s].pid = processes[s].pid
                       /\ processes'[s].ppid = processes[s].ppid
                       /\ processes'[s].state = processes[s].state
  BY <1>p
<1>k. /\ ctx' \in UserContext /\ ctx'.owner = ctx.owner /\ ctx'.image = spaces + 1
      /\ kstack' \in [Slots -> UserContext]
      /\ \A s \in Slots : s # me => kstack'[s] = kstack[s]
  <2>1. ctx \in UserContext /\ spaces + 1 \in Nat
    OBVIOUS
  <2>2. PICK c \in UserContext : c = [ctx EXCEPT !.image = spaces + 1]
    BY <2>1 DEF UserContext
  <2>3. ctx' = [c EXCEPT !.rax = 0] /\ c.owner = ctx.owner /\ c.image = spaces + 1
    BY <1>s, <2>1, <2>2 DEF UserContext
  <2>5. ctx' \in UserContext /\ ctx'.owner = ctx.owner /\ ctx'.image = spaces + 1
    BY <2>3 DEF UserContext
  <2>4. kstack' = [kstack EXCEPT ![me] = ctx']
    BY <1>s, <1>t
  <2> QED BY <1>t, <2>4, <2>5
<1>1. TypeOK'
  BY <1>k, <1>p, <1>s, <1>t
<1>2. Ids'
  BY <1>p, <1>q, <1>s, <1>t DEF Ids, Used, ProcessRecord
<1>3. Distinct'
  BY <1>p, <1>q, <1>t DEF Distinct, Used, Ids, ProcessRecord
<1>4. OneRunning'
  BY <1>q, <1>s DEF OneRunning, InUser
<1>5. WaitChain'
  BY <1>q, <1>s DEF WaitChain, Active, InUser
<1>6. FramesResumable'
  BY <1>k, <1>m, <1>p, <1>q DEF FramesResumable, Current
<1>7. ContextMatches'
  BY <1>k, <1>m, <1>p, <1>s, <1>t DEF ContextMatches, Current
<1>8. NoPanic'
  BY <1>s DEF NoPanic
<1> QED BY <1>1, <1>2, <1>3, <1>4, <1>5, <1>6, <1>7, <1>8

-----------------------------------------------------------------------------
(* The theorems *)

\* The state the boot leaves to the first program satisfies the invariant.
LEMMA InitIInv == Init => IInv
<1> SUFFICES ASSUME Init PROVE IInv
  OBVIOUS
<1>0. 0 \in Slots
  BY ProcessAssumption DEF Slots
<1>1. TypeOK
  BY <1>0 DEF Init, TypeOK, ProcessRecord, UserContext, UserFrame, States, NULL
<1>2. \A s \in Slots : /\ processes[s].state = (IF s = 0 THEN "RUNNING" ELSE "UNUSED")
                       /\ s = 0 => /\ processes[s].pid = 1 /\ processes[s].ppid = 0
                                   /\ processes[s].pml4 = 1
  BY DEF Init
<1>3. Ids /\ Distinct
  BY <1>2 DEF Init, Ids, Distinct, Used
<1>4. OneRunning /\ WaitChain /\ FramesResumable
  BY <1>2 DEF Init, OneRunning, WaitChain, FramesResumable, Active
<1>5. ContextMatches /\ NoPanic
  BY <1>0, <1>2 DEF Init, ContextMatches, Current, NoPanic, UserFrame
<1> QED BY <1>1, <1>3, <1>4, <1>5 DEF IInv

\* Every system call preserves the invariant.
LEMMA NextIInv == IInv /\ [Next]_vars => IInv'
<1> SUFFICES ASSUME IInv, [Next]_vars PROVE IInv'
  OBVIOUS
<1>i. spaces \in Nat /\ spaces <= spaces /\ spaces <= spaces + 1 /\ spaces + 1 \in Nat
  BY DEF IInv, TypeOK
<1>1. CASE SpawnNoFile \/ SpawnNoSlot \/ ExecRefused
  BY <1>1, <1>i, PlainReturnKeeps DEF SpawnNoFile, SpawnNoSlot, ExecRefused
<1>2. CASE SpawnNoSpace \/ SpawnBadElf
  BY <1>2, <1>i, FailedSpawnKeeps DEF SpawnNoSpace, SpawnBadElf
<1>3. CASE SpawnOk
  BY <1>3, SpawnOkKeeps
<1>4. ASSUME NEW pid, WaitNoChild(pid)
      PROVE  IInv'
  BY <1>4, <1>i, PlainReturnKeeps DEF WaitNoChild
<1>5. ASSUME NEW pid, WaitZombie(pid)
      PROVE  IInv'
  BY <1>5, WaitZombieKeeps
<1>6. ASSUME NEW pid, WaitSwitch(pid)
      PROVE  IInv'
  BY <1>6, WaitSwitchKeeps
<1>7. ASSUME NEW status \in Statuses, ExitHalt(status) \/ ExitToParent(status)
      PROVE  IInv'
  <2>1. status \in Int
    BY ProcessAssumption
  <2> QED BY <1>7, <2>1, ExitHaltKeeps, ExitToParentKeeps
<1>8. CASE ExecBadElf
  BY <1>8, <1>i, PlainReturnKeeps DEF ExecBadElf
<1>9. CASE ExecOk
  BY <1>9, ExecOkKeeps
<1>10. CASE GetPid
  <2>1. Current.pid \in Int
    BY DEF IInv, TypeOK, Current, ProcessRecord
  <2> QED BY <1>10, <1>i, <2>1, PlainReturnKeeps DEF GetPid
<1>11. CASE OtherCall
  BY <1>11, <1>i, PlainReturnKeeps DEF OtherCall
<1>12. CASE Fault
  <2>1. /\ rsp0 = current_process /\ processes[current_process].state = "RUNNING"
        /\ processes' = processes /\ mode' = "halted"
        /\ UNCHANGED <<current_process, next_pid, spaces, cr3, rsp0, ctx>>
    BY <1>12 DEF Fault, IInv, OneRunning, ContextMatches, TypeOK
  <2>2. /\ kstack' \in [Slots -> UserContext]
        /\ \A s \in Slots : s # current_process => kstack'[s] = kstack[s]
    BY <1>12, <2>1 DEF Fault, IInv, TypeOK
  <2>3. TypeOK'
    BY <2>1, <2>2 DEF IInv, TypeOK
  <2>4. FramesResumable'
    BY <2>1, <2>2 DEF IInv, FramesResumable
  <2>5. Ids' /\ Distinct'
    BY <2>1 DEF IInv, Ids, Distinct, Used
  <2>6. OneRunning' /\ WaitChain' /\ ContextMatches' /\ NoPanic'
    BY <2>1 DEF OneRunning, WaitChain, ContextMatches, NoPanic, InUser
  <2> QED BY <2>3, <2>4, <2>5, <2>6 DEF IInv
<1>13. CASE Hang \/ UNCHANGED vars
  BY <1>13 DEF Hang, vars, IInv, TypeOK, Ids, Distinct, OneRunning, WaitChain,
               FramesResumable, ContextMatches, NoPanic, Used, Active, Current, InUser
<1> QED
  BY <1>1, <1>2, <1>3, <1>4, <1>5, <1>6, <1>7, <1>8, <1>9, <1>10, <1>11, <1>12, <1>13 DEF Next

\* The inductive invariant holds in every state the kernel reaches.
THEOREM Invariance == Spec => []IInv
BY InitIInv, NextIInv, PTL DEF Spec

\* Every variable keeps its type (process.h's struct process, pid counter and
\* registers).
THEOREM TypeCorrect == Spec => []TypeOK
<1>1. IInv => TypeOK
  BY DEF IInv
<1> QED BY <1>1, Invariance, PTL

\* While user code runs, exactly the current process is RUNNING, whatever
\* spawns, waits, exits and execs came before.
THEOREM SingleRunning == Spec => []OneRunning
<1>1. IInv => OneRunning
  BY DEF IInv
<1> QED BY <1>1, Invariance, PTL

\* The started processes form one chain of waits (sys_wait and sys_exit).
THEOREM WaitsFormChain == Spec => []WaitChain
<1>1. IInv => WaitChain
  BY DEF IInv
<1> QED BY <1>1, Invariance, PTL

\* sys_exit's "parent has no trapframe" branch is dead code.
THEOREM ExitFindsFrame == Spec => []NoPanic
<1>1. IInv => NoPanic
  BY DEF IInv
<1> QED BY <1>1, Invariance, PTL

\* CR3, TSS.RSP0 and the user registers always belong to the current process.
THEOREM ContextIsCurrent == Spec => []ContextMatches
<1>1. IInv => ContextMatches
  BY DEF IInv
<1> QED BY <1>1, Invariance, PTL

\* Every process that is not running can be resumed from its own stack.
THEOREM Resumable == Spec => []FramesResumable
<1>1. IInv => FramesResumable
  BY DEF IInv
<1> QED BY <1>1, Invariance, PTL

\* Live processes never share a pid or an address space.
THEOREM NothingShared == Spec => []Distinct
<1>1. IInv => Distinct
  BY DEF IInv
<1> QED BY <1>1, Invariance, PTL

-----------------------------------------------------------------------------
(* What one step does to the processes that are not current *)

\* A step leaves a BLOCKED or ZOMBIE process, and the stack its frame is on,
\* alone, unless the call is the wait that collects it or the exit of the
\* child it waits for.
LEMMA StepSpares ==
  ASSUME IInv, Next, NEW s \in Slots, processes[s].state \in {"BLOCKED", "ZOMBIE"}
  PROVE  \/ processes'[s] = processes[s] /\ kstack'[s] = kstack[s]
         \/ \E pid : WaitZombie(pid) /\ s = Find(pid)
         \/ \E status \in Statuses : ExitToParent(status) /\ s = Find(Current.ppid)
<1> DEFINE same == processes'[s] = processes[s] /\ kstack'[s] = kstack[s]
<1>0. CASE ~InUser
  BY <1>0 DEF Next, Hang, SpawnNoFile, SpawnNoSlot, SpawnNoSpace, SpawnBadElf, SpawnOk,
      WaitNoChild, WaitZombie, WaitSwitch, ExitHalt, ExitToParent, ExecRefused,
      ExecBadElf, ExecOk, GetPid, OtherCall, Fault, vars
<1>u. CASE InUser
  <2>t. /\ s # current_process /\ rsp0 = current_process
        /\ Trapped[s] = processes[s] /\ Trapped \in [Slots -> ProcessRecord]
        /\ current_process \in Slots /\ kstack \in [Slots -> UserContext]
    BY <1>u, TrappedTable DEF IInv, OneRunning, TypeOK
  <2>k. \A n : Pushed(n)[s] = kstack[s]
    BY <2>t DEF Pushed
  <2>r. ASSUME NEW procs, NEW v, Return(procs, v), procs[s] = processes[s]
        PROVE  same
    BY <2>r, <2>t DEF Return
  <2>1. CASE SpawnNoFile \/ SpawnNoSlot \/ ExecRefused \/ ExecBadElf \/ GetPid \/ OtherCall
    BY <2>1, <2>r, <2>t DEF SpawnNoFile, SpawnNoSlot, ExecRefused, ExecBadElf, GetPid, OtherCall
  <2>2. CASE SpawnNoSpace \/ SpawnBadElf
    <3> DEFINE procs == [Trapped EXCEPT ![FreeSlot] = Discarded(Created)]
    <3>1. FreeSlot # s /\ Return(procs, -1)
      BY <2>2, FreeSlotUnused DEF SpawnNoSpace, SpawnBadElf
    <3>2. procs[s] = processes[s]
      BY <2>t, <3>1
    <3> QED BY <2>r, <3>1, <3>2
  <2>3. CASE SpawnOk
    <3>1. FreeSlot # s
      BY <2>3, FreeSlotUnused DEF SpawnOk
    <3> QED BY <2>3, <2>t, <3>1 DEF SpawnOk
  <2>4. ASSUME NEW pid, WaitNoChild(pid)
        PROVE  same
    BY <2>4, <2>r, <2>t DEF WaitNoChild
  <2>5. ASSUME NEW pid, WaitZombie(pid), s # Find(pid)
        PROVE  same
    <3> DEFINE procs == [Trapped EXCEPT ![Find(pid)] = Discarded(@)]
    <3>1. procs[s] = processes[s]
      BY <2>5, <2>t
    <3>2. Return(procs, processes[Find(pid)].exit_status)
      BY <2>5 DEF WaitZombie
    <3> QED BY <2>r, <3>1, <3>2
  <2>6. ASSUME NEW pid, WaitSwitch(pid)
        PROVE  same
    <3> DEFINE child == Find(pid)
               procs == [Trapped EXCEPT ![current_process].state = "BLOCKED",
                                        ![child].state = "RUNNING"]
    <3>1. /\ IsChild(child) /\ processes[child].state # "ZOMBIE"
          /\ Switch(procs, Pushed(SYS_WAIT), child)
      BY <2>6 DEF WaitSwitch
    <3>2. child # s
      BY <1>u, <3>1, WaitedChildRunnable
    <3> HIDE DEF child
    <3>3. procs[s] = processes[s]
      BY <2>t, <3>2
    <3> HIDE DEF procs
    <3> QED BY <2>k, <3>1, <3>2, <3>3 DEF Switch
  <2>7. ASSUME NEW status \in Statuses, ExitHalt(status)
        PROVE  same
    <3>1. status \in Int
      BY ProcessAssumption
    <3> QED BY <1>u, <2>7, <2>k, <2>t, <3>1, EndedTable DEF ExitHalt
  <2>8. ASSUME NEW status \in Statuses, ExitToParent(status), s # Find(Current.ppid)
        PROVE  same
    <3>1. status \in Int
      BY ProcessAssumption
    <3> QED BY <2>8, <2>t, <3>1, ExitToParentKeeps
  <2>9. CASE ExecOk
    BY <2>9, <2>t DEF ExecOk
  <2>10. CASE Fault
    BY <2>10, <2>t DEF Fault
  <2> QED
    BY <1>u, <2>1, <2>2, <2>3, <2>4, <2>5, <2>6, <2>7, <2>8, <2>9, <2>10 DEF Next, Hang
<1> QED BY <1>0, <1>u

\* A waiting process is resumed by the end of the child it waits for, and by
\* nothing else, and what its wait returns is that child's status.
THEOREM WaitReturnsStatus == Spec => WaitGetsStatus
<1>1. ASSUME IInv, [Next]_vars, NEW s \in Slots, processes[s].state = "BLOCKED"
      PROVE  \/ processes'[s] = processes[s] /\ kstack'[s] = kstack[s]
             \/ /\ Current.ppid = processes[s].pid
                /\ Current'.pid = processes[s].pid
                /\ processes'[current_process].state = "ZOMBIE"
                /\ kstack'[s] = [kstack[s] EXCEPT
                                   !.rax = processes'[current_process].exit_status]
  <2>1. CASE UNCHANGED vars
    BY <2>1 DEF vars
  <2>2. ASSUME NEW pid, WaitZombie(pid)
        PROVE  s # Find(pid)
    BY <1>1, <2>2 DEF WaitZombie
  <2>3. ASSUME NEW status \in Statuses, ExitToParent(status), s = Find(Current.ppid)
        PROVE  /\ Current.ppid = processes[s].pid
               /\ Current'.pid = processes[s].pid
               /\ processes'[current_process].state = "ZOMBIE"
               /\ kstack'[s] = [kstack[s] EXCEPT
                                  !.rax = processes'[current_process].exit_status]
    <3>1. status \in Int
      BY ProcessAssumption
    <3>2. /\ processes[s].pid = Current.ppid /\ current_process' = s
          /\ processes'[current_process].state = "ZOMBIE"
          /\ processes'[current_process].exit_status = status
          /\ kstack'[s] = [kstack[s] EXCEPT !.rax = status]
          /\ Current'.pid = processes[s].pid
      BY <1>1, <2>3, <3>1, ExitToParentKeeps
    <3> QED BY <3>2
  <2> QED BY <1>1, <2>1, <2>2, <2>3, StepSpares
<1>2. IInv /\ [Next]_vars =>
        [\A s \in Slots : processes[s].state = "BLOCKED" =>
           \/ processes'[s] = processes[s] /\ kstack'[s] = kstack[s]
           \/ /\ Current.ppid = processes[s].pid
              /\ Current'.pid = processes[s].pid
              /\ processes'[current_process].state = "ZOMBIE"
              /\ kstack'[s] = [kstack[s] EXCEPT
                                 !.rax = processes'[current_process].exit_status]]_vars
  BY <1>1
<1> QED BY <1>2, Invariance, PTL DEF Spec, WaitGetsStatus

\* The status an ended process left is kept until its parent waits for it, and
\* is what that wait returns.
THEOREM StatusSurvives == Spec => StatusKept
<1>1. ASSUME IInv, [Next]_vars, NEW s \in Slots, processes[s].state = "ZOMBIE"
      PROVE  \/ processes'[s] = processes[s]
             \/ /\ processes'[s].state = "UNUSED"
                /\ processes[s].ppid = Current.pid
                /\ ctx'.rax = processes[s].exit_status
  <2>1. CASE UNCHANGED vars
    BY <2>1 DEF vars
  <2>2. ASSUME NEW pid, WaitZombie(pid), s = Find(pid)
        PROVE  /\ processes'[s].state = "UNUSED"
               /\ processes[s].ppid = Current.pid
               /\ ctx'.rax = processes[s].exit_status
    <3>1. /\ InUser /\ processes[s].ppid = Current.pid
          /\ processes' = [Trapped EXCEPT ![s] = Discarded(@)]
          /\ ctx' = [ctx EXCEPT !.rax = processes[s].exit_status]
      BY <2>2 DEF WaitZombie, IsChild, Return
    <3>2. Trapped \in [Slots -> ProcessRecord] /\ ctx \in UserContext
      BY <1>1, <3>1, TrappedTable DEF IInv, TypeOK
    <3>3. processes'[s].state = "UNUSED"
      BY <3>1, <3>2 DEF Discarded, ProcessRecord
    <3> QED BY <3>1, <3>2, <3>3 DEF UserContext
  <2>3. ASSUME NEW status \in Statuses, ExitToParent(status)
        PROVE  s # Find(Current.ppid)
    BY <1>1, <2>3, ParentWaits DEF ExitToParent
  <2> QED BY <1>1, <2>1, <2>2, <2>3, StepSpares
<1>2. IInv /\ [Next]_vars =>
        [\A s \in Slots : processes[s].state = "ZOMBIE" =>
           \/ processes'[s] = processes[s]
           \/ /\ processes'[s].state = "UNUSED"
              /\ processes[s].ppid = Current.pid
              /\ ctx'.rax = processes[s].exit_status]_vars
  BY <1>1
<1> QED BY <1>2, Invariance, PTL DEF Spec, StatusKept

-----------------------------------------------------------------------------
(* Sets of numbers in their order *)

\* A set of numbers with 0, and with each number the next one, has them all.
LEMMA Climb ==
  ASSUME NEW S, 0 \in S, \A n \in Nat : n \in S => n + 1 \in S
  PROVE  Nat \subseteq S
<1> SUFFICES ASSUME NEW k \in Nat, k \notin S PROVE FALSE
  OBVIOUS
<1> DEFINE R == OpToRel(<, Nat)
           U == Nat \ S
<1>1. IsWellFoundedOn(R, Nat)
  BY NatLessThanWellFounded, Zenon DEF R
<1>2. \A x, y \in Nat : <<y, x>> \in R <=> y < x
  BY DEF OpToRel
<1>3. U \subseteq Nat /\ k \in U
  OBVIOUS
<1> HIDE DEF R
<1>4. PICK x \in U : \A y \in U : ~(<<y, x>> \in R)
  BY <1>1, <1>3, WFMin, Zenon
<1>5. x \in Nat /\ x # 0
  OBVIOUS
<1>6. x - 1 \in Nat /\ x - 1 < x /\ (x - 1) + 1 = x
  BY <1>5
<1>7. x - 1 \in U
  BY <1>4, <1>6
<1> QED BY <1>2, <1>4, <1>5, <1>6, <1>7

\* A finite set of numbers is empty or has a greatest one.
LEMMA Greatest ==
  ASSUME NEW P \in SUBSET Nat, IsFiniteSet(P), P # {}
  PROVE  \E m \in P : \A p \in P : p <= m
<1> DEFINE Great(Q) == \E m \in Q : \A p \in Q : p <= m
           S == {n \in Nat : \A Q \in SUBSET Nat :
                   IsFiniteSet(Q) /\ Cardinality(Q) = n /\ Q # {} => Great(Q)}
<1>1. 0 \in S
  BY FS_EmptySet
<1>2. ASSUME NEW n \in Nat, n \in S PROVE n + 1 \in S
  <2> SUFFICES ASSUME NEW Q \in SUBSET Nat, IsFiniteSet(Q), Cardinality(Q) = n + 1, Q # {}
               PROVE  Great(Q)
    OBVIOUS
  <2>1. PICK x \in Q : TRUE
    OBVIOUS
  <2> DEFINE T == Q \ {x}
  <2>2. IsFiniteSet(T) /\ Cardinality(T) = n /\ T \in SUBSET Nat
    <3>1. IsFiniteSet(T) /\ Cardinality(T) = Cardinality(Q) - 1
      BY FS_RemoveElement
    <3> QED BY <3>1
  <2>3. \A q \in Q : q = x \/ q \in T
    OBVIOUS
  <2> HIDE DEF T
  <2>4. CASE T = {}
    BY <2>3, <2>4
  <2>5. CASE T # {}
    <3>1. Great(T)
      BY <1>2, <2>2, <2>5
    <3>2. PICK m \in T : \A p \in T : p <= m
      BY <3>1
    <3>3. m \in Q
      BY DEF T
    <3>4. CASE x <= m
      BY <2>3, <3>2, <3>3, <3>4
    <3>5. CASE ~(x <= m)
      <4>1. \A p \in T : p <= x
        BY <2>2, <3>2, <3>3, <3>5
      <4> QED BY <2>3, <4>1
    <3> QED BY <3>4, <3>5
  <2> QED BY <2>4, <2>5
<1> HIDE DEF S
<1>3. Nat \subseteq S
  BY <1>1, <1>2, Climb
<1>4. Cardinality(P) \in Nat
  BY FS_CardinalityType
<1>5. Great(P)
  BY <1>3, <1>4 DEF S
<1> QED BY <1>5

\* The greatest number comes last, behind the others in their order.
LEMMA RankedTop ==
  ASSUME NEW P \in SUBSET Nat, IsFiniteSet(P), NEW m \in P, \A p \in P : p <= m
  PROVE  /\ IsFiniteSet(P \ {m}) /\ Cardinality(P) = Cardinality(P \ {m}) + 1
         /\ Cardinality(P \ {m}) \in Nat
         /\ Ranked(P)[Cardinality(P)] = m
         /\ \A i \in 1 .. Cardinality(P \ {m}) : Ranked(P)[i] = Ranked(P \ {m})[i]
<1> DEFINE Q == P \ {m}
           n == Cardinality(P)
           Below(S, p) == {q \in S : q <= p}
<1>1. IsFiniteSet(Q) /\ Cardinality(Q) = n - 1 /\ n \in Nat /\ n - 1 \in Nat
  BY FS_RemoveElement, FS_CardinalityType
<1>2. Below(P, m) = P
  OBVIOUS
<1>3. ASSUME NEW p \in P, p # m
      PROVE  Below(P, p) = Below(Q, p) /\ Cardinality(Below(P, p)) # n
  <2>1. Below(P, p) = Below(Q, p) /\ Below(P, p) \subseteq Q
    BY <1>3
  <2>2. Cardinality(Below(P, p)) <= n - 1 /\ Cardinality(Below(P, p)) \in Nat
    BY <1>1, <2>1, FS_Subset, FS_CardinalityType
  <2> QED BY <1>1, <2>1, <2>2
<1>4. \A i : Ranked(P)[i] = Ranked(P)[i]
  OBVIOUS
<1>5. Ranked(P)[n] = m
  <2>1. n \in 1 .. n
    BY <1>1
  <2>2. Ranked(P)[n] = CHOOSE p : p \in P /\ Cardinality(Below(P, p)) = n
    BY <2>1 DEF Ranked
  <2>3. \A p : p \in P /\ Cardinality(Below(P, p)) = n => p = m
    BY <1>3
  <2>4. m \in P /\ Cardinality(Below(P, m)) = n
    BY <1>2
  <2> HIDE DEF n, Below
  <2> QED BY <2>2, <2>3, <2>4, Zenon
<1>6. ASSUME NEW i \in 1 .. Cardinality(Q) PROVE Ranked(P)[i] = Ranked(Q)[i]
  <2>1. i \in 1 .. n /\ i # n
    BY <1>1
  <2>2. Ranked(P)[i] = CHOOSE p : p \in P /\ Cardinality(Below(P, p)) = i
    BY <2>1 DEF Ranked
  <2>3. Ranked(Q)[i] = CHOOSE p : p \in Q /\ Cardinality(Below(Q, p)) = i
    BY DEF Ranked
  <2>4. \A p : (p \in P /\ Cardinality(Below(P, p)) = i)
                 <=> (p \in Q /\ Cardinality(Below(Q, p)) = i)
    <3> TAKE p
    <3>1. CASE p = m
      BY <1>2, <2>1, <3>1
    <3>2. CASE p # m
      <4>1. p \in P => Below(P, p) = Below(Q, p)
        BY <1>3, <3>2
      <4>2. p \in P <=> p \in Q
        BY <3>2
      <4> HIDE DEF Q, Below
      <4> QED BY <4>1, <4>2
    <3> QED BY <3>1, <3>2
  <2> HIDE DEF Q, Below
  <2> QED BY <2>2, <2>3, <2>4, Zenon
<1> QED BY <1>1, <1>5, <1>6

\* All that is in the order is in the set.
LEMMA RankedIn ==
  ASSUME NEW P \in SUBSET Nat, IsFiniteSet(P)
  PROVE  \A i \in 1 .. Cardinality(P) : Ranked(P)[i] \in P
<1> DEFINE In(Q) == \A i \in 1 .. Cardinality(Q) : Ranked(Q)[i] \in Q
           S == {n \in Nat : \A Q \in SUBSET Nat :
                   IsFiniteSet(Q) /\ Cardinality(Q) = n => In(Q)}
<1>1. 0 \in S
  OBVIOUS
<1>2. ASSUME NEW n \in Nat, n \in S PROVE n + 1 \in S
  <2> SUFFICES ASSUME NEW Q \in SUBSET Nat, IsFiniteSet(Q), Cardinality(Q) = n + 1,
                      NEW i \in 1 .. n + 1
               PROVE  Ranked(Q)[i] \in Q
    OBVIOUS
  <2>1. Q # {}
    BY FS_EmptySet
  <2>2. PICK m \in Q : \A p \in Q : p <= m
    BY <2>1, Greatest
  <2> DEFINE T == Q \ {m}
  <2>3. /\ IsFiniteSet(T) /\ Cardinality(Q) = Cardinality(T) + 1
        /\ Cardinality(T) \in Nat
        /\ Ranked(Q)[Cardinality(Q)] = m
        /\ \A j \in 1 .. Cardinality(T) : Ranked(Q)[j] = Ranked(T)[j]
    BY <2>2, RankedTop
  <2>4. T \in SUBSET Nat /\ \A x \in T : x \in Q
    OBVIOUS
  <2> HIDE DEF T
  <2>5. Cardinality(T) = n
    BY <2>3
  <2>6. In(T)
    BY <1>2, <2>3, <2>4, <2>5
  <2>7. CASE i = n + 1
    BY <2>3, <2>7
  <2>8. CASE i # n + 1
    <3>1. i \in 1 .. Cardinality(T)
      BY <2>5, <2>8
    <3>2. Ranked(Q)[i] = Ranked(T)[i] /\ Ranked(T)[i] \in T
      BY <2>3, <2>6, <3>1
    <3> QED BY <2>4, <3>2
  <2> QED BY <2>7, <2>8
<1> HIDE DEF S
<1>3. Nat \subseteq S
  BY <1>1, <1>2, Climb
<1>4. Cardinality(P) \in Nat
  BY FS_CardinalityType
<1>5. In(P)
  BY <1>3, <1>4 DEF S
<1> QED BY <1>5

\* A sequence that is another one with one more element at the end.
LEMMA TopOfSeq ==
  ASSUME NEW S, NEW t \in Seq(S), NEW r \in Seq(S), NEW m \in S, Len(r) = Len(t) + 1,
         r[Len(r)] = m, \A i \in 1 .. Len(t) : r[i] = t[i]
  PROVE  r = Append(t, m) /\ SubSeq(r, 1, Len(r) - 1) = t
<1>1. r = Append(t, m)
  <2>1. /\ Append(t, m) \in Seq(S) /\ Len(Append(t, m)) = Len(t) + 1
        /\ \A i \in 1 .. Len(t) + 1 : Append(t, m)[i] = IF i = Len(t) + 1 THEN m ELSE t[i]
    OBVIOUS
  <2>2. \A i \in 1 .. Len(t) + 1 : r[i] = Append(t, m)[i]
    BY <2>1
  <2> DEFINE a == Append(t, m)
  <2> HIDE DEF a
  <2> QED BY <2>1, <2>2, SeqEqual DEF a
<1>2. SubSeq(r, 1, Len(r) - 1) = t
  <2>1. Len(t) \in Nat /\ Len(r) - 1 = Len(t)
    OBVIOUS
  <2> DEFINE a == SubSeq(r, 1, Len(t))
  <2>2. a \in Seq(S) /\ Len(a) = Len(t) /\ \A i \in 1 .. Len(t) : a[i] = r[i]
    BY <2>1
  <2> HIDE DEF a
  <2>3. a = t
    BY <2>2, SeqEqual
  <2> QED BY <2>1, <2>3 DEF a
<1> QED BY <1>1, <1>2

\* The order is a sequence; without the greatest number it is that of the others.
LEMMA RankedSeq ==
  ASSUME NEW P \in SUBSET Nat, IsFiniteSet(P)
  PROVE  /\ Ranked(P) \in Seq(P) /\ Len(Ranked(P)) = Cardinality(P)
         /\ \A m \in P : (\A p \in P : p <= m) =>
              /\ Ranked(P) = Append(Ranked(P \ {m}), m)
              /\ SubSeq(Ranked(P), 1, Len(Ranked(P)) - 1) = Ranked(P \ {m})
              /\ Ranked(P)[Len(Ranked(P))] = m
              /\ Len(Ranked(P)) = Len(Ranked(P \ {m})) + 1
<1>1. \A Q \in SUBSET Nat : IsFiniteSet(Q) =>
        /\ Ranked(Q) \in Seq(Q) /\ Ranked(Q) \in Seq(Nat)
        /\ Len(Ranked(Q)) = Cardinality(Q)
  <2> SUFFICES ASSUME NEW Q \in SUBSET Nat, IsFiniteSet(Q)
               PROVE  /\ Ranked(Q) \in Seq(Q) /\ Ranked(Q) \in Seq(Nat)
                      /\ Len(Ranked(Q)) = Cardinality(Q)
    OBVIOUS
  <2>1. Cardinality(Q) \in Nat /\ \A i \in 1 .. Cardinality(Q) : Ranked(Q)[i] \in Q
    BY RankedIn, FS_CardinalityType
  <2> DEFINE r == Ranked(Q)
             c == Cardinality(Q)
             At(i) == CHOOSE p \in Q : Cardinality({q \in Q : q <= p}) = i
  <2>2. r = [i \in 1 .. c |-> At(i)]
    BY Zenon DEF Ranked
  <2> HIDE DEF r, c, At
  <2>3. c \in Nat /\ \A i \in 1 .. c : r[i] \in Q
    BY <2>1 DEF r, c
  <2>4. r \in [1 .. c -> Q] /\ r \in [1 .. c -> Nat]
    BY <2>2, <2>3
  <2>5. r \in Seq(Q) /\ Len(r) = c
    BY <2>3, <2>4
  <2>6. r \in Seq(Nat)
    BY <2>3, <2>4
  <2> QED BY <2>5, <2>6 DEF r, c
<1>2. ASSUME NEW m \in P, \A p \in P : p <= m
      PROVE  /\ Ranked(P) = Append(Ranked(P \ {m}), m)
             /\ SubSeq(Ranked(P), 1, Len(Ranked(P)) - 1) = Ranked(P \ {m})
             /\ Ranked(P)[Len(Ranked(P))] = m
             /\ Len(Ranked(P)) = Len(Ranked(P \ {m})) + 1
  <2> DEFINE r == Ranked(P)
             t == Ranked(P \ {m})
             n == Cardinality(P)
  <2>1. IsFiniteSet(P \ {m}) /\ P \ {m} \in SUBSET Nat
    BY <1>2, RankedTop
  <2>2. r \in Seq(Nat) /\ t \in Seq(Nat) /\ Len(r) = n /\ Len(t) = Cardinality(P \ {m})
    BY <1>1, <2>1
  <2>3. /\ n = Cardinality(P \ {m}) + 1 /\ Cardinality(P \ {m}) \in Nat
        /\ r[n] = m
        /\ \A i \in 1 .. Cardinality(P \ {m}) : r[i] = t[i]
    BY <1>2, RankedTop
  <2>4. n = Len(t) + 1 /\ Len(t) \in Nat /\ \A i \in 1 .. Len(t) : r[i] = t[i]
    BY <2>2, <2>3
  <2> HIDE DEF r, t, n
  <2>5. m \in Nat
    OBVIOUS
  <2>6. Len(r) = Len(t) + 1 /\ r[Len(r)] = m
    BY <2>2, <2>3, <2>4
  <2>7. r = Append(t, m) /\ SubSeq(r, 1, Len(r) - 1) = t
    BY <2>2, <2>4, <2>5, <2>6, TopOfSeq
  <2> QED BY <2>6, <2>7 DEF r, t
<1> QED BY <1>1, <1>2
-----------------------------------------------------------------------------
(* What a step changes for the callers *)

\* What is seen of slot s stays as it is.
Kept(s) ==
  /\ processes'[s].state = processes[s].state
  /\ processes[s].state # "UNUSED" =>
       /\ processes'[s].pid = processes[s].pid
       /\ processes'[s].ppid = processes[s].ppid
       /\ processes'[s].exit_status = processes[s].exit_status

\* A program that has not started keeps the registers it will start with.
Waiting ==
  \A s \in Slots : processes[s].state = "RUNNABLE" => kstack'[s].rax = kstack[s].rax

Counted == next_pid' = next_pid \/ (next_pid <= MaxPid /\ next_pid' = next_pid + 1)

Quiet ==
  /\ \A s \in Slots : Kept(s)
  /\ current_process' = current_process
  /\ ctx' = ctx \/ ctx'.rax \in {-1, 0, 1, Current.pid}

Starts(f) ==
  /\ f \in Slots /\ processes[f].state = "UNUSED"
  /\ processes'[f].state = "RUNNABLE"
  /\ processes'[f].pid = next_pid /\ processes'[f].ppid = Current.pid
  /\ kstack'[f].rax = 0
  /\ \A s \in Slots \ {f} : Kept(s)
  /\ current_process' = current_process
  /\ ctx'.rax = next_pid
  /\ next_pid <= MaxPid /\ next_pid' = next_pid + 1

Collects(c) ==
  /\ c \in Slots /\ processes[c].state = "ZOMBIE" /\ processes[c].ppid = Current.pid
  /\ processes'[c].state = "UNUSED"
  /\ \A s \in Slots \ {c} : Kept(s)
  /\ current_process' = current_process
  /\ ctx'.rax = processes[c].exit_status

SameIds(s) ==
  processes'[s].pid = processes[s].pid /\ processes'[s].ppid = processes[s].ppid

Enters(c) ==
  /\ c \in Slots \ {current_process}
  /\ processes[c].state = "RUNNABLE" /\ processes[c].ppid = Current.pid
  /\ processes'[c].state = "RUNNING" /\ SameIds(c)
  /\ processes'[current_process].state = "BLOCKED" /\ SameIds(current_process)
  /\ \A s \in Slots \ {c, current_process} : Kept(s)
  /\ current_process' = c
  /\ ctx'.rax = kstack[c].rax

Leaves(status) ==
  /\ processes'[current_process].state = "ZOMBIE" /\ SameIds(current_process)
  /\ processes'[current_process].exit_status = status
  /\ \/ /\ \A s \in Active : processes[s].pid # Current.ppid
        /\ \A s \in Slots \ {current_process} : Kept(s)
        /\ ctx' = ctx /\ ~InUser'
     \/ \E p \in Active \ {current_process} :
          /\ processes[p].pid = Current.ppid
          /\ processes'[p].state = "RUNNING" /\ SameIds(p)
          /\ \A s \in Slots \ {p, current_process} : Kept(s)
          /\ current_process' = p
          /\ ctx'.rax = status

Effect ==
  /\ Waiting /\ Counted
  /\ \/ Quiet
     \/ \E f : Starts(f)
     \/ \E c : Collects(c) \/ Enters(c)
     \/ \E status \in Statuses : Leaves(status)

\* A call that returns to its caller.
LEMMA ReturnEffect ==
  ASSUME IInv, InUser, NEW procs, NEW v \in Int, Return(procs, v), Counted,
         \A s \in Slots : \/ procs[s] = Trapped[s]
                          \/ procs[s].state = "UNUSED" /\ processes[s].state = "UNUSED"
  PROVE  /\ Waiting /\ ctx'.rax = v
         /\ (\A s \in Slots : Kept(s)) /\ current_process' = current_process
<1> USE DEF IInv, TypeOK
<1>1. /\ rsp0 = current_process
      /\ Trapped[current_process] = [Current EXCEPT !.tf = current_process]
      /\ \A s \in Slots : s # current_process => Trapped[s] = processes[s]
  BY TrappedTable
<1>2. /\ processes' = procs /\ current_process' = current_process
      /\ kstack' = [kstack EXCEPT ![current_process] = [ctx EXCEPT !.rax = v]]
      /\ ctx' = [ctx EXCEPT !.rax = v]
  BY <1>1 DEF Return
<1>3. processes[current_process].state = "RUNNING"
  BY DEF OneRunning
<1>4. Waiting
  BY <1>2, <1>3 DEF Waiting
<1>5. ctx'.rax = v
  BY <1>2 DEF UserContext
<1>6. \A s \in Slots : Kept(s)
  BY <1>1, <1>2 DEF Kept, Current, ProcessRecord
<1> QED BY <1>2, <1>4, <1>5, <1>6

\* A call that starts and ends nothing.
LEMMA PlainEffect ==
  ASSUME IInv, InUser, NEW v \in {-1, 0, 1, Current.pid}, Return(Trapped, v), next_pid' = next_pid
  PROVE  Effect
<1>1. v \in Int
  BY DEF IInv, TypeOK, Current, ProcessRecord
<1>2. Counted
  BY DEF Counted
<1> QED BY <1>1, <1>2, ReturnEffect DEF Effect, Quiet

\* A spawn that gives its slot back.
LEMMA FailedSpawnEffect ==
  ASSUME IInv, InUser, FreeSlot # NULL, next_pid <= MaxPid, next_pid' = next_pid + 1,
         Return([Trapped EXCEPT ![FreeSlot] = Discarded(Created)], -1)
  PROVE  Effect
<1> DEFINE procs == [Trapped EXCEPT ![FreeSlot] = Discarded(Created)]
<1>1. FreeSlot \in Slots /\ processes[FreeSlot].state = "UNUSED"
  BY FreeSlotUnused
<1>2. Trapped \in [Slots -> ProcessRecord]
  BY TrappedTable
<1>3. Discarded(Created).state = "UNUSED"
  BY DEF Discarded, Created
<1>4. \A s \in Slots : \/ procs[s] = Trapped[s]
                       \/ procs[s].state = "UNUSED" /\ processes[s].state = "UNUSED"
  BY <1>1, <1>2, <1>3
<1>5. Return(procs, -1) /\ Counted
  BY DEF Counted
<1> HIDE DEF procs
<1> QED BY <1>4, <1>5, ReturnEffect DEF Effect, Quiet

\* A spawn that works.
LEMMA SpawnEffect ==
  ASSUME IInv, SpawnOk
  PROVE  Effect
<1> DEFINE f == FreeSlot
<1> USE DEF IInv, TypeOK
<1>1. /\ InUser /\ f # NULL /\ next_pid <= MaxPid
      /\ next_pid' = next_pid + 1 /\ spaces' = spaces + 1
      /\ processes' = [Trapped EXCEPT ![f] = Spawned(f)]
      /\ ctx' = [ctx EXCEPT !.rax = next_pid]
      /\ kstack' = [kstack EXCEPT ![rsp0] = ctx',
                                  ![f] = UserFrame(next_pid, spaces + 1)]
      /\ UNCHANGED <<current_process, cr3, rsp0, mode>>
  BY DEF SpawnOk
<1>2. f \in Slots /\ processes[f].state = "UNUSED"
  BY <1>1, FreeSlotUnused
<1>3. /\ rsp0 = current_process
      /\ Trapped \in [Slots -> ProcessRecord]
      /\ Trapped[current_process] = [Current EXCEPT !.tf = current_process]
      /\ \A s \in Slots : s # current_process => Trapped[s] = processes[s]
  BY <1>1, TrappedTable
<1> HIDE DEF f
<1>4. processes[current_process].state = "RUNNING" /\ current_process # f
  BY <1>1, <1>2 DEF OneRunning
<1>5. Spawned(f).state = "RUNNABLE" /\ Spawned(f).pid = next_pid /\ Spawned(f).ppid = Current.pid
  BY DEF Spawned, Created
<1>6. /\ processes'[f] = Spawned(f)
      /\ \A s \in Slots : s # f => processes'[s] = Trapped[s]
  BY <1>1, <1>2, <1>3
<1>7. /\ kstack'[f] = UserFrame(next_pid, spaces + 1)
      /\ \A s \in Slots \ {f, current_process} : kstack'[s] = kstack[s]
  BY <1>1, <1>2, <1>3, <1>4
<1>8. Waiting /\ kstack'[f].rax = 0
  BY <1>2, <1>4, <1>7 DEF Waiting, UserFrame
<1>9. \A s \in Slots \ {f} : Kept(s)
  BY <1>3, <1>6 DEF Kept, Current, ProcessRecord
<1>10. ctx'.rax = next_pid
  BY <1>1 DEF UserContext
<1> QED BY <1>1, <1>2, <1>5, <1>6, <1>8, <1>9, <1>10 DEF Effect, Starts, Counted

\* A wait for a child that has ended.
LEMMA WaitZombieEffect ==
  ASSUME IInv, NEW pid, WaitZombie(pid)
  PROVE  Effect
<1> DEFINE c == Find(pid)
           procs == [Trapped EXCEPT ![c] = Discarded(@)]
           status == processes[c].exit_status
<1> USE DEF IInv, TypeOK
<1>1. /\ InUser /\ c # NULL /\ processes[c].state = "ZOMBIE"
      /\ processes[c].ppid = Current.pid
      /\ Return(procs, status) /\ next_pid' = next_pid
  BY DEF WaitZombie, IsChild
<1>2. c \in Slots
  BY <1>1, FindUsed
<1>3. /\ Trapped \in [Slots -> ProcessRecord] /\ rsp0 = current_process
      /\ Trapped[current_process] = [Current EXCEPT !.tf = current_process]
      /\ \A s \in Slots : s # current_process => Trapped[s] = processes[s]
  BY <1>1, TrappedTable
<1> HIDE DEF c
<1>4. processes[current_process].state = "RUNNING"
  BY <1>1 DEF OneRunning
<1>5. procs[c].state = "UNUSED" /\ \A s \in Slots : s # c => procs[s] = Trapped[s]
  BY <1>2, <1>3 DEF Discarded, ProcessRecord
<1>6. /\ processes' = procs /\ current_process' = current_process
      /\ kstack' = [kstack EXCEPT ![current_process] = [ctx EXCEPT !.rax = status]]
      /\ ctx' = [ctx EXCEPT !.rax = status]
  BY <1>1, <1>3 DEF Return
<1>7. Waiting
  BY <1>4, <1>6 DEF Waiting
<1>8. \A s \in Slots \ {c} : Kept(s)
  BY <1>3, <1>5, <1>6 DEF Kept, Current, ProcessRecord
<1>9. ctx'.rax = status
  BY <1>6 DEF UserContext
<1>10. Collects(c)
  BY <1>1, <1>2, <1>5, <1>6, <1>8, <1>9 DEF Collects
<1> QED BY <1>1, <1>7, <1>10 DEF Effect, Counted

\* A wait for a child that has not.
LEMMA WaitSwitchEffect ==
  ASSUME IInv, NEW pid, WaitSwitch(pid)
  PROVE  Effect
<1> DEFINE c == Find(pid)
           me == current_process
           left == [Trapped EXCEPT ![me].state = "BLOCKED"]
           procs == [left EXCEPT ![c].state = "RUNNING"]
<1> USE DEF IInv, TypeOK
<1>1. /\ InUser /\ IsChild(c) /\ processes[c].state # "ZOMBIE"
      /\ Switch(procs, Pushed(SYS_WAIT), c) /\ next_pid' = next_pid
  BY DEF WaitSwitch
<1>2. /\ c \in Slots \ {me} /\ processes[c].state = "RUNNABLE"
      /\ processes[c].ppid = Current.pid
  BY <1>1, WaitedChildRunnable DEF IsChild
<1>3. /\ Trapped \in [Slots -> ProcessRecord] /\ rsp0 = me /\ me \in Slots
      /\ Trapped[me] = [Current EXCEPT !.tf = me]
      /\ \A s \in Slots : s # me => Trapped[s] = processes[s]
  BY <1>1, TrappedTable
<1>4. "BLOCKED" \in States /\ "RUNNING" \in States
  BY DEF States
<1> HIDE DEF c, me
<1>a. /\ left = [Trapped EXCEPT ![me].state = "BLOCKED"]
      /\ procs = [left EXCEPT ![c].state = "RUNNING"]
  OBVIOUS
<1> HIDE DEF left, procs
<1>5. /\ left \in [Slots -> ProcessRecord] /\ left[me].state = "BLOCKED"
      /\ left[me].pid = Trapped[me].pid /\ left[me].ppid = Trapped[me].ppid
      /\ \A s \in Slots : s # me => left[s] = Trapped[s]
  <2>1. /\ me \in Slots /\ "BLOCKED" \in States /\ Trapped \in [Slots -> ProcessRecord]
        /\ left = [Trapped EXCEPT ![me].state = "BLOCKED"]
    BY <1>3, <1>4, <1>a
  <2> HIDE DEF IInv, TypeOK
  <2>2. /\ left \in [Slots -> ProcessRecord] /\ left[me].state = "BLOCKED"
        /\ left[me].pid = Trapped[me].pid /\ left[me].ppid = Trapped[me].ppid
        /\ left[me].tf = Trapped[me].tf
        /\ \A s \in Slots : s # me => left[s] = Trapped[s]
    BY <2>1, StateSet
  <2> QED BY <2>2
<1>6. /\ procs \in [Slots -> ProcessRecord] /\ procs[c].state = "RUNNING"
      /\ procs[c].pid = left[c].pid /\ procs[c].ppid = left[c].ppid
      /\ procs[c].tf = left[c].tf
      /\ \A s \in Slots : s # c => procs[s] = left[s]
  <2>1. /\ c \in Slots /\ "RUNNING" \in States /\ left \in [Slots -> ProcessRecord]
        /\ procs = [left EXCEPT ![c].state = "RUNNING"]
    BY <1>2, <1>4, <1>5, <1>a
  <2> HIDE DEF IInv, TypeOK
  <2>2. /\ procs \in [Slots -> ProcessRecord] /\ procs[c].state = "RUNNING"
        /\ procs[c].pid = left[c].pid /\ procs[c].ppid = left[c].ppid
        /\ procs[c].tf = left[c].tf
        /\ \A s \in Slots : s # c => procs[s] = left[s]
    BY <2>1, StateSet
  <2> QED BY <2>2
<1> DEFINE set == [procs EXCEPT ![c].state = "RUNNING"]
<1>7. /\ set[c].state = "RUNNING"
      /\ set[c].pid = procs[c].pid /\ set[c].ppid = procs[c].ppid
      /\ \A s \in Slots : s # c => set[s] = procs[s]
  BY <1>2, <1>4, <1>6, StateSet
<1>8. /\ processes' = set /\ kstack' = Pushed(SYS_WAIT) /\ current_process' = c
      /\ ctx' = Pushed(SYS_WAIT)[procs[c].tf]
  BY <1>1 DEF Switch
<1> HIDE DEF set
<1>9. procs[c].tf = c
  BY <1>2, <1>3, <1>5, <1>6 DEF FramesResumable
<1>10. \A s \in Slots : s # me => Pushed(SYS_WAIT)[s] = kstack[s]
  BY <1>3 DEF Pushed
<1>11. processes[me].state = "RUNNING"
  BY <1>1 DEF OneRunning, me
<1>12. Waiting
  BY <1>8, <1>10, <1>11 DEF Waiting
<1>13. ctx'.rax = kstack[c].rax
  BY <1>2, <1>8, <1>9, <1>10
<1>14. /\ processes'[c].state = "RUNNING" /\ SameIds(c)
       /\ processes'[me].state = "BLOCKED" /\ SameIds(me)
       /\ \A s \in Slots \ {c, me} : processes'[s] = processes[s]
  <2>1. Trapped[me].pid = processes[me].pid /\ Trapped[me].ppid = processes[me].ppid
    BY <1>3 DEF Current, ProcessRecord, me
  <2> QED BY <1>2, <1>3, <1>5, <1>6, <1>7, <1>8, <2>1 DEF SameIds
<1>15. Enters(c)
  BY <1>2, <1>8, <1>13, <1>14 DEF Enters, Kept, me
<1> QED BY <1>1, <1>12, <1>15 DEF Effect, Counted

\* An exit.
LEMMA ExitEffect ==
  ASSUME IInv, NEW status \in Statuses, ExitHalt(status) \/ ExitToParent(status)
  PROVE  Effect
<1> DEFINE me == current_process
<1> USE DEF IInv, TypeOK
<1>1. InUser /\ status \in Int /\ Counted
  BY ProcessAssumption DEF ExitHalt, ExitToParent, Counted
<1>2. processes[me].state = "RUNNING" /\ rsp0 = me
  BY <1>1 DEF OneRunning, ContextMatches
<1>3. CASE ExitHalt(status)
  <2>1. /\ processes' = Ended(status) /\ kstack' = Pushed(SYS_EXIT) /\ ctx' = ctx /\ ~InUser'
        /\ Find(Current.ppid) = NULL
    BY <1>3 DEF ExitHalt, InUser
  <2>2. /\ processes'[me].state = "ZOMBIE" /\ processes'[me].exit_status = status
        /\ SameIds(me) /\ \A s \in Slots : s # me => processes'[s] = processes[s]
    BY <1>1, <2>1, EndedTable DEF SameIds, Current
  <2>3. Waiting
    BY <1>2, <2>1 DEF Waiting, Pushed
  <2>4. \A s \in Active : processes[s].pid # Current.ppid
    BY <2>1, FindUsed DEF Active
  <2>5. Leaves(status)
    BY <2>1, <2>2, <2>4 DEF Leaves, Kept
  <2> QED BY <1>1, <2>3, <2>5 DEF Effect
<1>4. CASE ExitToParent(status)
  <2> DEFINE p == Find(Current.ppid)
             procs == [Ended(status) EXCEPT ![p].state = "RUNNING"]
             stacks == [Pushed(SYS_EXIT) EXCEPT ![procs[p].tf].rax = status]
  <2>1. /\ p # NULL
        /\ procs[p].tf # NULL => Switch(procs, stacks, p)
    BY <1>4 DEF ExitToParent
  <2>2. /\ p \in Active \ {me} /\ processes[p].pid = Current.ppid
        /\ processes[p].state = "BLOCKED" /\ processes[p].tf = p
    BY <1>1, <2>1, ParentWaits
  <2>3. p \in Slots /\ p # me /\ p # NULL /\ "RUNNING" \in States
    BY <2>1, <2>2 DEF Active, States
  <2>4. /\ Ended(status) \in [Slots -> ProcessRecord]
        /\ Ended(status)[me].state = "ZOMBIE" /\ Ended(status)[me].exit_status = status
        /\ Ended(status)[me].pid = Current.pid /\ Ended(status)[me].ppid = Current.ppid
        /\ \A s \in Slots : s # me => Ended(status)[s] = processes[s]
    BY <1>1, EndedTable
  <2>5. /\ \A s \in Slots \ {me, p} : kstack'[s] = kstack[s]
        /\ kstack'[p] = [kstack[p] EXCEPT !.rax = status]
        /\ current_process' = p
    BY <1>1, <1>4, ExitToParentKeeps
  <2> HIDE DEF p
  <2>a. procs = [Ended(status) EXCEPT ![p].state = "RUNNING"]
    OBVIOUS
  <2> HIDE DEF procs
  <2>6. /\ procs \in [Slots -> ProcessRecord] /\ procs[p].state = "RUNNING"
        /\ procs[p].pid = Ended(status)[p].pid /\ procs[p].ppid = Ended(status)[p].ppid
        /\ procs[p].tf = Ended(status)[p].tf
        /\ \A s \in Slots : s # p => procs[s] = Ended(status)[s]
    BY <2>3, <2>4, <2>a, StateSet
  <2>7. procs[p].tf = p
    BY <2>2, <2>3, <2>4, <2>6
  <2>8. Switch(procs, stacks, p)
    BY <2>1, <2>3, <2>7
  <2> DEFINE set == [procs EXCEPT ![p].state = "RUNNING"]
  <2>9. /\ set[p].state = "RUNNING" /\ set[p].pid = procs[p].pid /\ set[p].ppid = procs[p].ppid
        /\ \A s \in Slots : s # p => set[s] = procs[s]
    BY <2>3, <2>6, StateSet
  <2>10. processes' = set /\ ctx' = stacks[procs[p].tf] /\ kstack' = stacks
    BY <2>8 DEF Switch
  <2>11. ctx' = kstack'[p]
    BY <2>7, <2>10
  <2> HIDE DEF set, stacks
  <2>12. ctx'.rax = status
    BY <2>3, <2>5, <2>11 DEF UserContext
  <2>13. Waiting
    BY <1>2, <2>2, <2>5 DEF Waiting
  <2>14. /\ processes'[me].state = "ZOMBIE" /\ SameIds(me) /\ processes'[me].exit_status = status
         /\ processes'[p].state = "RUNNING" /\ SameIds(p)
         /\ \A s \in Slots \ {p, me} : processes'[s] = processes[s]
    BY <2>3, <2>4, <2>6, <2>9, <2>10 DEF SameIds, Current
  <2>15. Leaves(status)
    BY <2>2, <2>5, <2>12, <2>14 DEF Leaves, Kept
  <2> QED BY <1>1, <2>13, <2>15 DEF Effect
<1> QED BY <1>3, <1>4

\* An exec, which keeps its slot.
LEMMA ExecEffect ==
  ASSUME IInv, ExecOk
  PROVE  Effect
<1> DEFINE me == current_process
           procs == [Trapped EXCEPT ![me].pml4 = spaces + 1]
<1> USE DEF IInv, TypeOK
<1>1. /\ InUser /\ processes' = procs /\ ctx' = [ctx EXCEPT !.image = spaces + 1, !.rax = 0]
      /\ kstack' = [kstack EXCEPT ![rsp0] = ctx']
      /\ UNCHANGED <<current_process, next_pid, mode>>
  BY DEF ExecOk
<1>2. /\ me \in Slots /\ rsp0 = me /\ Trapped \in [Slots -> ProcessRecord]
      /\ Trapped[me] = [Current EXCEPT !.tf = me]
      /\ \A s \in Slots : s # me => Trapped[s] = processes[s]
  BY <1>1, TrappedTable
<1>3. processes[me].state = "RUNNING"
  BY <1>1 DEF OneRunning
<1>4. Waiting
  BY <1>1, <1>2, <1>3 DEF Waiting
<1>5. ctx'.rax = 0
  <2>1. ctx \in UserContext /\ spaces + 1 \in Nat
    OBVIOUS
  <2>2. PICK c \in UserContext : c = [ctx EXCEPT !.image = spaces + 1]
    BY <2>1 DEF UserContext
  <2> QED BY <1>1, <2>2 DEF UserContext
<1>6. /\ procs[me].state = Trapped[me].state /\ procs[me].pid = Trapped[me].pid
      /\ procs[me].ppid = Trapped[me].ppid /\ procs[me].exit_status = Trapped[me].exit_status
      /\ \A s \in Slots : s # me => procs[s] = Trapped[s]
  BY <1>2 DEF ProcessRecord
<1> HIDE DEF procs
<1>7. \A s \in Slots : Kept(s)
  BY <1>1, <1>2, <1>6 DEF Kept, Current, ProcessRecord
<1> QED BY <1>1, <1>4, <1>5, <1>7 DEF Effect, Quiet, Counted

\* Every step of a running machine is one of these.
LEMMA StepEffect ==
  ASSUME IInv, InUser, Next
  PROVE  Effect
<1>1. CASE SpawnNoFile \/ SpawnNoSlot \/ ExecRefused \/ ExecBadElf
  BY <1>1, PlainEffect DEF SpawnNoFile, SpawnNoSlot, ExecRefused, ExecBadElf
<1>2. CASE SpawnNoSpace \/ SpawnBadElf
  BY <1>2, FailedSpawnEffect DEF SpawnNoSpace, SpawnBadElf
<1>3. ASSUME NEW pid, WaitNoChild(pid) PROVE Effect
  BY <1>3, PlainEffect DEF WaitNoChild
<1>4. CASE GetPid \/ OtherCall
  BY <1>4, PlainEffect DEF GetPid, OtherCall
<1>5. CASE Fault
  <2>1. rsp0 = current_process /\ processes[current_process].state = "RUNNING"
        /\ kstack \in [Slots -> UserContext]
    BY DEF IInv, OneRunning, ContextMatches, TypeOK
  <2> QED BY <1>5, <2>1 DEF Fault, Effect, Quiet, Waiting, Counted, Kept
<1> QED BY <1>1, <1>2, <1>3, <1>4, <1>5, SpawnEffect, WaitZombieEffect, WaitSwitchEffect,
           ExitEffect, ExecEffect DEF Next, Hang

-----------------------------------------------------------------------------
(* The order of the calls in progress *)

\* Pids grow along the chain of calls: a child's is later than its parent's,
\* the calls in progress lie one behind the other and the current process is
\* the last of them.  A program that has not started will see 0 in rax.
Ordered ==
  /\ next_pid <= MaxPid + 1
  /\ \A s \in Used : processes[s].ppid < processes[s].pid
  /\ \A s, t \in Active :
       processes[t].pid < processes[s].pid => processes[t].pid <= processes[s].ppid
  /\ InUser => \A s \in Active : processes[s].pid <= Current.pid
  /\ \A s \in Slots : processes[s].state = "RUNNABLE" => kstack[s].rax = 0

OInv == IInv /\ Ordered

LEMMA InitOrdered == Init => Ordered
<1> SUFFICES ASSUME Init PROVE Ordered
  OBVIOUS
<1>1. /\ 0 \in Slots /\ current_process = 0 /\ next_pid = 2 /\ MaxPid \in Nat \ {0}
      /\ processes[0].pid = 1 /\ processes[0].ppid = 0 /\ processes[0].state = "RUNNING"
      /\ \A s \in Slots : s # 0 => processes[s].state = "UNUSED"
      /\ \A s \in Slots : kstack[s].rax = 0
  BY ProcessAssumption DEF Init, Slots, UserFrame
<1>2. Used = {0} /\ Active = {0}
  BY <1>1 DEF Used, Active
<1> QED BY <1>1, <1>2 DEF Ordered, Current

\* What the invariant says of the numbers of two processes.
LEMMA Numbers ==
  ASSUME IInv
  PROVE  /\ current_process \in Slots /\ next_pid \in Nat
         /\ \A s \in Slots : /\ processes[s] \in ProcessRecord
                             /\ processes[s].pid \in Nat /\ processes[s].ppid \in Nat
                             /\ processes[s].state \in States
                             /\ processes[s].exit_status \in Int
         /\ \A s \in Used : 0 < processes[s].pid /\ processes[s].pid < next_pid
         /\ \A s, t \in Used : processes[s].pid = processes[t].pid => s = t
         /\ Active \subseteq Used
         /\ InUser => /\ current_process \in Active
                      /\ processes[current_process].state = "RUNNING"
                      /\ \A s \in Slots : processes[s].state = "RUNNING" => s = current_process
BY DEF IInv, TypeOK, Ids, Distinct, Used, Active, OneRunning, ProcessRecord

LEMMA OrderedKeeps ==
  ASSUME OInv, Effect, IInv', InUser
  PROVE  Ordered'
<1> USE DEF OInv
<1>n. /\ current_process \in Active /\ Active \subseteq Used /\ next_pid \in Nat
      /\ \A s \in Slots : /\ processes[s].pid \in Nat /\ processes[s].ppid \in Nat
      /\ \A s \in Used : 0 < processes[s].pid /\ processes[s].pid < next_pid
      /\ \A s, t \in Used : processes[s].pid = processes[t].pid => s = t
  BY Numbers
<1>o. /\ next_pid <= MaxPid + 1
      /\ \A s \in Used : processes[s].ppid < processes[s].pid
      /\ \A s, t \in Active :
           processes[t].pid < processes[s].pid => processes[t].pid <= processes[s].ppid
      /\ \A s \in Active : processes[s].pid <= Current.pid
      /\ \A s \in Slots : processes[s].state = "RUNNABLE" => kstack[s].rax = 0
  BY DEF Ordered
<1>k. \A s \in Slots : Kept(s) =>
        /\ s \in Used' <=> s \in Used
        /\ s \in Active' <=> s \in Active
        /\ s \in Used => /\ processes'[s].pid = processes[s].pid
                         /\ processes'[s].ppid = processes[s].ppid
  BY DEF Kept, Used, Active
<1>m. MaxPid \in Nat
  BY ProcessAssumption
<1>1. next_pid' <= MaxPid + 1
  BY <1>n, <1>o, <1>m DEF Effect, Counted
<1>w. Waiting /\ Used \subseteq Slots /\ Used' \subseteq Slots
      /\ Active \subseteq Slots /\ Active' \subseteq Slots
  BY DEF Effect, Used, Active
<1> DEFINE Rest == /\ \A s \in Used' : processes'[s].ppid < processes'[s].pid
                   /\ \A s, t \in Active' :
                        processes'[t].pid < processes'[s].pid
                          => processes'[t].pid <= processes'[s].ppid
                   /\ InUser' => \A s \in Active' : processes'[s].pid <= Current'.pid
                   /\ \A s \in Slots : processes'[s].state = "RUNNABLE" => kstack'[s].rax = 0
<1>2. ASSUME Quiet PROVE Rest
  <2>1. Active' = Active /\ Used' = Used
    BY <1>2, <1>k, <1>w DEF Quiet
  <2>2. \A s \in Used : /\ processes'[s].pid = processes[s].pid
                        /\ processes'[s].ppid = processes[s].ppid
    BY <1>2, <1>k, <1>w DEF Quiet
  <2>3. Current'.pid = Current.pid
    BY <1>2, <1>n, <2>2 DEF Quiet, Current
  <2>4. \A s \in Slots : processes'[s].state = "RUNNABLE" => kstack'[s].rax = 0
    BY <1>2, <1>o, <1>w DEF Quiet, Kept, Waiting
  <2> QED BY <1>n, <1>o, <2>1, <2>2, <2>3, <2>4
<1>3. ASSUME NEW f, Starts(f) PROVE Rest
  <2>1. /\ f \in Slots \ Used /\ Used' = Used \cup {f} /\ Active' = Active
        /\ processes'[f].pid = next_pid /\ processes'[f].ppid = Current.pid
    BY <1>3, <1>k, <1>w DEF Starts, Used, Active
  <2>2. \A s \in Used : /\ processes'[s].pid = processes[s].pid
                        /\ processes'[s].ppid = processes[s].ppid
    BY <1>3, <1>k, <1>w, <2>1 DEF Starts
  <2>3. Current'.pid = Current.pid /\ Current.pid < next_pid
    BY <1>3, <1>n, <2>2 DEF Starts, Current
  <2>4. \A s \in Slots : processes'[s].state = "RUNNABLE" => kstack'[s].rax = 0
    BY <1>3, <1>o, <1>w DEF Starts, Kept, Waiting
  <2> QED BY <1>n, <1>o, <2>1, <2>2, <2>3, <2>4
<1>4. ASSUME NEW c, Collects(c) PROVE Rest
  <2>1. /\ Used' = Used \ {c} /\ Active' = Active /\ c \notin Active
    BY <1>4, <1>k, <1>w DEF Collects, Used, Active
  <2>2. \A s \in Used \ {c} : /\ processes'[s].pid = processes[s].pid
                              /\ processes'[s].ppid = processes[s].ppid
    BY <1>4, <1>k, <1>w DEF Collects
  <2>3. Current'.pid = Current.pid
    BY <1>4, <1>n, <2>1, <2>2 DEF Collects, Current
  <2>4. \A s \in Slots : processes'[s].state = "RUNNABLE" => kstack'[s].rax = 0
    BY <1>4, <1>o, <1>w DEF Collects, Kept, Waiting
  <2> QED BY <1>n, <1>o, <2>1, <2>2, <2>3, <2>4
<1>5. ASSUME NEW c, Enters(c) PROVE Rest
  <2>1. /\ c \in Used \ Active /\ Used' = Used /\ Active' = Active \cup {c}
        /\ current_process' = c /\ processes[c].ppid = Current.pid
    BY <1>5, <1>k, <1>n, <1>w DEF Enters, Used, Active
  <2>2. \A s \in Used : /\ processes'[s].pid = processes[s].pid
                        /\ processes'[s].ppid = processes[s].ppid
    BY <1>5, <1>k, <1>w DEF Enters, SameIds
  <2>3. Current'.pid = processes[c].pid
    BY <2>1, <2>2 DEF Current
  <2>4. \A s \in Slots : processes'[s].state = "RUNNABLE" => kstack'[s].rax = 0
    BY <1>5, <1>o, <1>w DEF Enters, Kept, Waiting
  <2>5. Current.pid \in Nat /\ Current.pid < processes[c].pid
    BY <1>n, <1>o, <1>w, <2>1 DEF Current
  <2> QED BY <1>n, <1>o, <1>w, <2>1, <2>2, <2>3, <2>4, <2>5
<1>6. ASSUME NEW status, Leaves(status) PROVE Rest
  <2>1. /\ Used' = Used /\ Active' = Active \ {current_process}
    BY <1>6, <1>k, <1>n, <1>w DEF Leaves, Used, Active
  <2>2. \A s \in Used : /\ processes'[s].pid = processes[s].pid
                        /\ processes'[s].ppid = processes[s].ppid
    BY <1>6, <1>k, <1>w DEF Leaves, SameIds
  <2>3. InUser' => /\ current_process' \in Active
                   /\ processes[current_process'].pid = Current.ppid
    BY <1>6 DEF Leaves
  <2>4. \A s \in Slots : processes'[s].state = "RUNNABLE" => kstack'[s].rax = 0
    BY <1>6, <1>o, <1>w DEF Leaves, Kept, Waiting
  <2>5. \A s \in Active \ {current_process} : processes[s].pid <= Current.ppid
    BY <1>n, <1>o, <1>w DEF Current
  <2>6. InUser' => Current'.pid = Current.ppid
    BY <1>n, <2>2, <2>3 DEF Current
  <2> QED BY <1>n, <1>o, <2>1, <2>2, <2>4, <2>5, <2>6
<1> QED BY <1>1, <1>2, <1>3, <1>4, <1>5, <1>6 DEF Effect, Ordered

-----------------------------------------------------------------------------
(* The process table implements a stack of calls *)

\* A machine that has stopped does nothing any more.
LEMMA StopsForGood ==
  ASSUME Next, ~InUser
  PROVE  UNCHANGED vars
BY DEF Next, Hang, SpawnNoFile, SpawnNoSlot, SpawnNoSpace, SpawnBadElf, SpawnOk,
       WaitNoChild, WaitZombie, WaitSwitch, ExitHalt, ExitToParent, ExecRefused,
       ExecBadElf, ExecOk, GetPid, OtherCall, Fault

\* Every reachable table has its calls in order.
LEMMA OInvariance == Spec => []OInv
<1>1. Init => OInv
  BY InitIInv, InitOrdered DEF OInv
<1>2. OInv /\ [Next]_vars => OInv'
  <2> SUFFICES ASSUME OInv, [Next]_vars PROVE OInv'
    OBVIOUS
  <2>1. IInv'
    BY NextIInv DEF OInv
  <2>2. CASE UNCHANGED vars
    BY <2>1, <2>2 DEF vars, OInv, Ordered, Used, Active, Current, InUser
  <2>3. CASE Next /\ InUser
    BY <2>1, <2>3, StepEffect, OrderedKeeps DEF OInv
  <2>4. CASE Next /\ ~InUser
    <3>1. UNCHANGED vars
      BY <2>4, StopsForGood
    <3> QED BY <2>2, <3>1
  <2> QED BY <2>2, <2>3, <2>4
<1> QED BY <1>1, <1>2, PTL DEF Spec

\* The stack the table shows: the current process on top, its parent below.
LEMMA StackShape ==
  ASSUME OInv, InUser
  PROVE  /\ InProgress \in SUBSET Nat /\ IsFiniteSet(InProgress)
         /\ Current.pid \in InProgress /\ \A p \in InProgress : p <= Current.pid
         /\ Stack # <<>>
         /\ SubSeq(Stack, 1, Len(Stack) - 1) = Ranked(InProgress \ {Current.pid})
         /\ Calls!Top = Current.pid
         /\ Calls!Caller = Current.ppid
         /\ Len(Stack) > 1 <=> Current.ppid # 0
         /\ \A i \in 1 .. Len(Stack) : Stack[i] \in InProgress
<1> DEFINE m == Current.pid
           P == InProgress
           Q == P \ {m}
<1>n. /\ current_process \in Active /\ Active \subseteq Used /\ next_pid \in Nat
      /\ \A s \in Slots : /\ processes[s].pid \in Nat /\ processes[s].ppid \in Nat
      /\ \A s \in Used : 0 < processes[s].pid /\ processes[s].pid < next_pid
      /\ \A s, t \in Used : processes[s].pid = processes[t].pid => s = t
      /\ Active \subseteq Slots
  BY Numbers DEF OInv, Active
<1>o. /\ \A s, t \in Active :
           processes[t].pid < processes[s].pid => processes[t].pid <= processes[s].ppid
      /\ \A s \in Active : processes[s].pid <= Current.pid
      /\ \A s \in Used : processes[s].ppid < processes[s].pid
  BY DEF Ordered, OInv
<1>1. P \in SUBSET Nat /\ \A p \in P : 0 < p /\ p <= next_pid
  BY <1>n DEF InProgress
<1>2. m \in P /\ \A p \in P : p <= m
  BY <1>n, <1>o DEF InProgress, Current
<1>3. IsFiniteSet(P)
  <2> HIDE DEF P
  <2> QED BY <1>1, <1>n, FS_BoundedSetOfNaturals
<1> DEFINE t == Ranked(Q)
<1>4. /\ Stack \in Seq(P) /\ Stack = Append(t, m)
      /\ SubSeq(Stack, 1, Len(Stack) - 1) = t
      /\ Stack[Len(Stack)] = m
      /\ Len(Stack) = Len(t) + 1
  BY <1>1, <1>2, <1>3, RankedSeq DEF Stack
<1>5. Q \in SUBSET Nat /\ IsFiniteSet(Q) /\ Cardinality(Q) \in Nat
  BY <1>1, <1>3, FS_RemoveElement, FS_CardinalityType, FS_Subset
<1>6. t \in Seq(Q) /\ Len(t) = Cardinality(Q)
  BY <1>5, RankedSeq
<1>9. Stack # <<>> /\ \A i \in 1 .. Len(Stack) : Stack[i] \in P
  <2>1. Stack \in Seq(P) /\ Len(t) \in Nat /\ Len(Stack) = Len(t) + 1
    BY <1>4, <1>5, <1>6
  <2> HIDE DEF P, t
  <2>2. \A i \in 1 .. Len(Stack) : Stack[i] \in P
    BY <2>1, ElementOfSeq
  <2>3. Stack # <<>>
    BY <2>1
  <2> QED BY <2>2, <2>3
<1>7. CASE Current.ppid = 0
  <2>1. Q = {}
    BY <1>n, <1>o, <1>7 DEF InProgress, Current
  <2>2. Len(t) = 0
    BY <1>6, <2>1, FS_EmptySet
  <2>3. Len(Stack) = 1
    BY <1>4, <2>2
  <2>4. Calls!Top = m /\ Calls!Caller = Current.ppid /\ (Len(Stack) > 1 <=> Current.ppid # 0)
    <3>1. Calls!Top = m
      BY <1>4 DEF Calls!Top
    <3>2. ~(Len(Stack) > 1)
      BY <2>3
    <3>3. Calls!Caller = 0
      BY <3>2 DEF Calls!Caller
    <3> QED BY <1>7, <3>1, <3>2, <3>3
  <2> QED BY <1>1, <1>2, <1>3, <1>4, <1>9, <2>4
<1>8. CASE Current.ppid # 0
  <2>1. PICK p \in Active : processes[p].pid = Current.ppid
    BY <1>n, <1>8 DEF OInv, IInv, WaitChain, Current
  <2>2. Current.ppid \in Q /\ \A q \in Q : q <= Current.ppid
    <3>1. Current.ppid < m
      BY <1>n, <1>o DEF Current
    <3>2. Current.ppid \in P
      BY <2>1 DEF InProgress
    <3>3. ASSUME NEW q \in Q PROVE q <= Current.ppid
      <4>1. PICK s \in Active : processes[s].pid = q
        BY DEF InProgress
      <4>2. q < m
        <5>1. q \in Nat /\ m \in Nat /\ q <= m /\ q # m
          BY <1>n, <1>o, <4>1 DEF Current
        <5> QED BY <5>1
      <4> QED BY <1>n, <1>o, <4>1, <4>2 DEF Current
    <3>4. Current.ppid \in Nat /\ m \in Nat
      BY <1>n DEF Current
    <3>5. Current.ppid \in Q
      BY <3>1, <3>2, <3>4
    <3> HIDE DEF Q
    <3> QED BY <3>3, <3>5
  <2>3. t[Len(t)] = Current.ppid
    <3> HIDE DEF Q
    <3> QED BY <1>5, <2>2, RankedSeq
  <2>4. Len(t) \in Nat /\ Len(t) >= 1
    <3>1. Cardinality(Q) # 0
      BY <1>5, <2>2, FS_EmptySet
    <3> QED BY <1>5, <1>6, <3>1
  <2>5. Len(Stack) - 1 = Len(t) /\ Len(Stack) > 1
    BY <1>4, <2>4
  <2>6. Stack[Len(Stack) - 1] = Current.ppid
    BY <1>4, <1>6, <2>3, <2>4, <2>5
  <2>7. Calls!Top = m /\ Calls!Caller = Current.ppid /\ (Len(Stack) > 1 <=> Current.ppid # 0)
    BY <1>4, <1>8, <2>5, <2>6 DEF Calls!Top, Calls!Caller
  <2> QED BY <1>1, <1>2, <1>3, <1>4, <1>9, <2>7
<1> QED BY <1>7, <1>8

\* Every pid the callers know of was given out.
LEMMA KnownGivenOut ==
  ASSUME OInv, InUser
  PROVE  next_pid \notin Calls!Known
<1>1. /\ next_pid \in Nat
      /\ \A s \in Used : processes[s].pid \in Nat /\ processes[s].pid < next_pid
      /\ Active \subseteq Used /\ Used \subseteq Slots
  BY Numbers DEF OInv, Used
<1>2. \A i \in 1 .. Len(Stack) : Stack[i] # next_pid
  BY <1>1, StackShape DEF InProgress
<1>3. \A r \in Ready : r.pid # next_pid
  BY <1>1 DEF Ready, InState, Used
<1>4. \A d \in Done : d.pid # next_pid
  BY <1>1 DEF Done, InState, Used
<1> QED BY <1>2, <1>3, <1>4 DEF Calls!Known

\* What a step that starts, calls or ends nothing leaves the callers to see.
LEMMA KeptSeen ==
  ASSUME OInv, NEW x, \A s \in Slots \ {x} : Kept(s)
  PROVE  \A s \in Slots \ {x} :
           /\ s \in Used' <=> s \in Used
           /\ s \in Active' <=> s \in Active
           /\ s \in InState("RUNNABLE")' <=> s \in InState("RUNNABLE")
           /\ s \in InState("ZOMBIE")' <=> s \in InState("ZOMBIE")
           /\ s \in Used => /\ processes'[s].pid = processes[s].pid
                            /\ processes'[s].ppid = processes[s].ppid
                            /\ processes'[s].exit_status = processes[s].exit_status
BY DEF Kept, Used, Active, InState

\* A quiet step is a reply or shows the callers nothing.
LEMMA QuietSimulates ==
  ASSUME OInv, InUser, Quiet
  PROVE  [Calls!Next]_(Calls!vars)
<1>1. \A s \in Slots :
        /\ s \in Active' <=> s \in Active
        /\ s \in InState("RUNNABLE")' <=> s \in InState("RUNNABLE")
        /\ s \in InState("ZOMBIE")' <=> s \in InState("ZOMBIE")
        /\ processes[s].state # "UNUSED" =>
             /\ processes'[s].pid = processes[s].pid
             /\ processes'[s].ppid = processes[s].ppid
             /\ processes'[s].exit_status = processes[s].exit_status
  BY DEF Quiet, Kept, Active, InState
<1>2. /\ InState("RUNNABLE")' = InState("RUNNABLE") /\ InState("ZOMBIE")' = InState("ZOMBIE")
      /\ Active' = Active
  <2>1. /\ InState("RUNNABLE")' \subseteq Slots /\ InState("RUNNABLE") \subseteq Slots
        /\ InState("ZOMBIE")' \subseteq Slots /\ InState("ZOMBIE") \subseteq Slots
        /\ Active' \subseteq Slots /\ Active \subseteq Slots
    BY DEF InState, Active
  <2> QED BY <1>1, <2>1
<1>3. Ready' = Ready
  <2>1. \A s \in InState("RUNNABLE") : s \in Slots /\ processes[s].state # "UNUSED"
    BY DEF InState
  <2> QED BY <1>1, <1>2, <2>1 DEF Ready
<1>4. Done' = Done
  <2>1. \A s \in InState("ZOMBIE") : s \in Slots /\ processes[s].state # "UNUSED"
    BY DEF InState
  <2> QED BY <1>1, <1>2, <2>1 DEF Done
<1>5. Stack' = Stack
  <2>1. \A s \in Active : s \in Slots /\ processes[s].state # "UNUSED"
    BY DEF Active
  <2>2. InProgress' = InProgress
    BY <1>1, <1>2, <2>1 DEF InProgress
  <2> QED BY <2>2 DEF Stack
<1>6. CASE ctx' = ctx
  BY <1>3, <1>4, <1>5, <1>6 DEF Calls!vars
<1>7. CASE ctx'.rax \in {-1, 0, 1, Current.pid}
  <2>1. Current.pid \in 1 .. MaxPid /\ 1 \in 1 .. MaxPid
    <3>1. /\ current_process \in Used /\ next_pid \in Nat /\ next_pid <= MaxPid + 1
          /\ Current.pid \in Nat /\ 0 < Current.pid /\ Current.pid < next_pid
      BY Numbers DEF OInv, Ordered, Current
    <3> QED BY <3>1, ProcessAssumption
  <2>2. ctx'.rax \in (1 .. MaxPid) \cup {-1, 0}
    BY <1>7, <2>1
  <2> QED BY <1>3, <1>4, <1>5, <2>2, StackShape DEF Calls!Next, Calls!Reply
<1> QED BY <1>6, <1>7 DEF Quiet

\* A spawn names a program nobody knew.
LEMMA SpawnSimulates ==
  ASSUME OInv, InUser, NEW f, Starts(f)
  PROVE  Calls!Next
<1> DEFINE new == [pid |-> next_pid, parent |-> Current.pid]
<1>1. /\ f \in Slots /\ f \notin Used /\ f \notin Active
      /\ f \notin InState("RUNNABLE") /\ f \notin InState("ZOMBIE")
      /\ f \in InState("RUNNABLE")' /\ f \notin InState("ZOMBIE")' /\ f \notin Active'
      /\ processes'[f].pid = next_pid /\ processes'[f].ppid = Current.pid
      /\ ctx'.rax = next_pid /\ next_pid <= MaxPid
  BY DEF Starts, Used, Active, InState
<1>2. \A s \in Slots \ {f} :
        /\ s \in Active' <=> s \in Active
        /\ s \in InState("RUNNABLE")' <=> s \in InState("RUNNABLE")
        /\ s \in InState("ZOMBIE")' <=> s \in InState("ZOMBIE")
        /\ s \in Used => /\ processes'[s].pid = processes[s].pid
                         /\ processes'[s].ppid = processes[s].ppid
                         /\ processes'[s].exit_status = processes[s].exit_status
  BY KeptSeen DEF Starts
<1>3. /\ InState("RUNNABLE")' = InState("RUNNABLE") \cup {f}
      /\ InState("ZOMBIE")' = InState("ZOMBIE") /\ Active' = Active
  <2> DEFINE r == InState("RUNNABLE")
             z == InState("ZOMBIE")
             r2 == InState("RUNNABLE")'
             z2 == InState("ZOMBIE")'
             a2 == Active'
  <2>1. /\ r \subseteq Slots /\ r2 \subseteq Slots /\ z \subseteq Slots /\ z2 \subseteq Slots
        /\ Active \subseteq Slots /\ a2 \subseteq Slots
    BY DEF InState, Active
  <2>2. \A s \in Slots \ {f} : /\ s \in r2 <=> s \in r
                               /\ s \in z2 <=> s \in z
                               /\ s \in a2 <=> s \in Active
    BY <1>2
  <2>3. /\ f \in Slots /\ f \notin Active /\ f \notin a2
        /\ f \notin r /\ f \in r2 /\ f \notin z2 /\ f \notin z
    BY <1>1
  <2> HIDE DEF r, z, r2, z2, a2
  <2>4. r2 = r \cup {f} /\ z2 = z /\ a2 = Active
    BY <2>1, <2>2, <2>3
  <2> QED BY <2>4 DEF r, z, r2, z2, a2
<1>4. /\ \A s \in InState("RUNNABLE") : s \in Slots \ {f} /\ s \in Used
      /\ \A s \in InState("ZOMBIE") : s \in Slots \ {f} /\ s \in Used
      /\ \A s \in Active : s \in Slots \ {f} /\ s \in Used
  BY <1>1 DEF InState, Active, Used
<1>5. Ready' = Ready \cup {new}
  BY <1>1, <1>2, <1>3, <1>4 DEF Ready
<1>6. Done' = Done
  BY <1>2, <1>3, <1>4 DEF Done
<1>7. Stack' = Stack
  <2>1. InProgress' = InProgress
    BY <1>2, <1>3, <1>4 DEF InProgress
  <2> QED BY <2>1 DEF Stack
<1>8. next_pid \in 1 .. MaxPid
  BY <1>1, ProcessAssumption DEF OInv, IInv, Ids, TypeOK
<1>9. next_pid \notin Calls!Known /\ Stack # <<>> /\ Calls!Top = Current.pid
  BY KnownGivenOut, StackShape
<1> QED BY <1>1, <1>5, <1>6, <1>7, <1>8, <1>9 DEF Calls!Next, Calls!Spawn

\* A wait for an ended child collects its status.
LEMMA CollectSimulates ==
  ASSUME OInv, InUser, NEW c, Collects(c)
  PROVE  Calls!Next
<1> DEFINE d == [pid |-> processes[c].pid, parent |-> processes[c].ppid,
                 status |-> processes[c].exit_status]
<1>1. /\ c \in Slots /\ c \notin Active /\ c \notin Active' /\ c \in Used
      /\ c \notin InState("RUNNABLE") /\ c \in InState("ZOMBIE")
      /\ c \notin InState("RUNNABLE")' /\ c \notin InState("ZOMBIE")'
      /\ processes[c].ppid = Current.pid
      /\ ctx'.rax = processes[c].exit_status
  BY DEF Collects, Used, Active, InState
<1>2. \A s \in Slots \ {c} :
        /\ s \in Active' <=> s \in Active
        /\ s \in InState("RUNNABLE")' <=> s \in InState("RUNNABLE")
        /\ s \in InState("ZOMBIE")' <=> s \in InState("ZOMBIE")
        /\ s \in Used => /\ processes'[s].pid = processes[s].pid
                         /\ processes'[s].ppid = processes[s].ppid
                         /\ processes'[s].exit_status = processes[s].exit_status
  BY KeptSeen DEF Collects
<1>3. /\ InState("ZOMBIE")' = InState("ZOMBIE") \ {c}
      /\ InState("RUNNABLE")' = InState("RUNNABLE") /\ Active' = Active
  <2> DEFINE r == InState("RUNNABLE")
             z == InState("ZOMBIE")
             r2 == InState("RUNNABLE")'
             z2 == InState("ZOMBIE")'
             a2 == Active'
  <2>1. /\ r \subseteq Slots /\ r2 \subseteq Slots /\ z \subseteq Slots /\ z2 \subseteq Slots
        /\ Active \subseteq Slots /\ a2 \subseteq Slots
    BY DEF InState, Active
  <2>2. \A s \in Slots \ {c} : /\ s \in r2 <=> s \in r
                               /\ s \in z2 <=> s \in z
                               /\ s \in a2 <=> s \in Active
    BY <1>2
  <2>3. /\ c \in Slots /\ c \notin Active /\ c \notin a2
        /\ c \notin r /\ c \notin r2 /\ c \notin z2 /\ c \in z
    BY <1>1
  <2> HIDE DEF r, z, r2, z2, a2
  <2>4. r2 = r /\ z2 = z \ {c} /\ a2 = Active
    BY <2>1, <2>2, <2>3
  <2> QED BY <2>4 DEF r, z, r2, z2, a2
<1>4. /\ \A s \in InState("RUNNABLE") : s \in Slots \ {c} /\ s \in Used
      /\ \A s \in InState("ZOMBIE") \ {c} : s \in Slots \ {c} /\ s \in Used
      /\ \A s \in Active : s \in Slots \ {c} /\ s \in Used
  BY <1>1 DEF InState, Active, Used
<1>5. Ready' = Ready
  BY <1>2, <1>3, <1>4 DEF Ready
<1>6. d \in Done
  BY <1>1 DEF Done
<1>7. Done' = Done \ {d}
  <2>1. \A s \in InState("ZOMBIE") \ {c} : processes[s].pid # processes[c].pid
    BY <1>1, <1>4, Numbers DEF OInv
  <2> QED BY <1>1, <1>2, <1>3, <1>4, <2>1 DEF Done
<1>8. Stack' = Stack
  <2>1. InProgress' = InProgress
    BY <1>2, <1>3, <1>4 DEF InProgress
  <2> QED BY <2>1 DEF Stack
<1>9. Stack # <<>> /\ Calls!Top = Current.pid
  BY StackShape
<1>10. d.parent = Calls!Top /\ ctx'.rax = d.status
  BY <1>1, <1>9
<1> HIDE DEF d
<1> QED BY <1>5, <1>6, <1>7, <1>8, <1>9, <1>10 DEF Calls!Next, Calls!Collect

\* A wait for a program that has not started calls it.
LEMMA CallSimulates ==
  ASSUME OInv, InUser, NEW c, Enters(c)
  PROVE  Calls!Next
<1> DEFINE m == current_process
           it == [pid |-> processes[c].pid, parent |-> Current.pid]
<1>1. /\ c \in Slots /\ c \in Used /\ c \notin Active /\ c \in Active'
      /\ c \in InState("RUNNABLE") /\ c \notin InState("ZOMBIE")
      /\ c \notin InState("RUNNABLE")' /\ c \notin InState("ZOMBIE")'
      /\ processes'[c].pid = processes[c].pid /\ processes[c].ppid = Current.pid
      /\ current_process' = c
      /\ ctx'.rax = 0
  BY DEF Enters, SameIds, Used, Active, InState, OInv, Ordered
<1>2. /\ m \in Slots /\ m \in Used /\ m \in Active /\ m \in Active' /\ m # c
      /\ m \notin InState("RUNNABLE") /\ m \notin InState("ZOMBIE")
      /\ m \notin InState("RUNNABLE")' /\ m \notin InState("ZOMBIE")'
      /\ processes'[m].pid = processes[m].pid
  BY Numbers DEF Enters, SameIds, Used, Active, InState, OInv
<1> HIDE DEF m
<1>3. \A s \in Slots \ {c, m} :
        /\ s \in Active' <=> s \in Active
        /\ s \in InState("RUNNABLE")' <=> s \in InState("RUNNABLE")
        /\ s \in InState("ZOMBIE")' <=> s \in InState("ZOMBIE")
        /\ s \in Used => /\ processes'[s].pid = processes[s].pid
                         /\ processes'[s].ppid = processes[s].ppid
                         /\ processes'[s].exit_status = processes[s].exit_status
  BY DEF Enters, Kept, Used, Active, InState, m
<1>4. /\ InState("RUNNABLE")' = InState("RUNNABLE") \ {c}
      /\ InState("ZOMBIE")' = InState("ZOMBIE") /\ Active' = Active \cup {c}
  <2> DEFINE r == InState("RUNNABLE")
             z == InState("ZOMBIE")
             r2 == InState("RUNNABLE")'
             z2 == InState("ZOMBIE")'
             a2 == Active'
  <2>1. /\ r \subseteq Slots /\ r2 \subseteq Slots /\ z \subseteq Slots /\ z2 \subseteq Slots
        /\ Active \subseteq Slots /\ a2 \subseteq Slots
    BY DEF InState, Active
  <2>2. \A s \in Slots \ {c, m} : /\ s \in r2 <=> s \in r
                                  /\ s \in z2 <=> s \in z
                                  /\ s \in a2 <=> s \in Active
    BY <1>3
  <2>3. /\ c \in Slots /\ c \notin Active /\ c \in a2
        /\ c \in r /\ c \notin r2 /\ c \notin z2 /\ c \notin z
        /\ m \in Slots /\ m \in Active /\ m \in a2
        /\ m \notin r /\ m \notin r2 /\ m \notin z2 /\ m \notin z
    BY <1>1, <1>2
  <2> HIDE DEF r, z, r2, z2, a2
  <2>4. r2 = r \ {c} /\ z2 = z /\ a2 = Active \cup {c}
    BY <2>1, <2>2, <2>3
  <2> QED BY <2>4 DEF r, z, r2, z2, a2
<1>5. /\ \A s \in InState("RUNNABLE") \ {c} : s \in Slots \ {c, m} /\ s \in Used
      /\ \A s \in InState("ZOMBIE") : s \in Slots \ {c, m} /\ s \in Used
      /\ \A s \in Active : s \in Slots \ {c} /\ s \in Used
  <2>1. \A s \in Slots : /\ s \in InState("RUNNABLE") => s \in Used
                         /\ s \in InState("ZOMBIE") => s \in Used
                         /\ s \in Active => s \in Used
    BY DEF InState, Active, Used
  <2>2. /\ InState("RUNNABLE") \subseteq Slots /\ InState("ZOMBIE") \subseteq Slots
        /\ Active \subseteq Slots
    BY DEF InState, Active
  <2> QED BY <1>1, <1>2, <2>1, <2>2
<1>6. Ready' = Ready \ {it}
  <2>1. \A s \in InState("RUNNABLE") \ {c} : processes[s].pid # processes[c].pid
    BY <1>1, <1>5, Numbers DEF OInv
  <2> QED BY <1>1, <1>3, <1>4, <1>5, <2>1 DEF Ready
<1>7. it \in Ready
  BY <1>1 DEF Ready
<1>8. Done' = Done
  BY <1>3, <1>4, <1>5 DEF Done
<1>9. InProgress' = InProgress \cup {processes[c].pid}
  <2>1. \A s \in Active : processes'[s].pid = processes[s].pid
    BY <1>2, <1>3, <1>5
  <2> QED BY <1>1, <1>4, <2>1 DEF InProgress
<1>10. processes[c].pid \notin InProgress
  BY <1>1, <1>5, Numbers DEF OInv, InProgress
<1>11. Stack' = Append(Stack, processes[c].pid)
  <2> DEFINE p == processes[c].pid
             P == InProgress
             T == InProgress'
  <2>1. P \in SUBSET Nat /\ IsFiniteSet(P) /\ \A q \in P : q <= Current.pid
    BY StackShape
  <2>2. p \in Nat /\ Current.pid \in Nat /\ Current.pid < p
    BY <1>1, Numbers DEF OInv, Ordered, Current
  <2>3. T \in SUBSET Nat /\ IsFiniteSet(T) /\ p \in T /\ \A q \in T : q <= p
    <3>1. T = P \cup {p}
      BY <1>9
    <3> HIDE DEF p, P, T
    <3>2. IsFiniteSet(P \cup {p})
      BY <2>1, FS_AddElement
    <3>3. \A q \in P : q \in Nat /\ q <= p
      BY <2>1, <2>2
    <3>4. p <= p
      BY <2>2
    <3> QED BY <2>2, <3>1, <3>2, <3>3, <3>4
  <2>4. T \ {p} = P
    BY <1>9, <1>10
  <2> HIDE DEF p, P, T
  <2>5. Ranked(T) = Append(Ranked(T \ {p}), p)
    BY <2>3, RankedSeq
  <2> QED BY <2>4, <2>5 DEF Stack, p, P, T
<1>12. Stack # <<>> /\ Calls!Top = Current.pid
  BY StackShape
<1>13. processes[c].pid \in 1 .. MaxPid
  <2>1. /\ processes[c].pid \in Nat /\ 0 < processes[c].pid /\ processes[c].pid < next_pid
        /\ next_pid \in Nat /\ next_pid <= MaxPid + 1
    BY <1>1, Numbers DEF OInv, Ordered
  <2> QED BY <2>1, ProcessAssumption
<1> QED BY <1>1, <1>6, <1>7, <1>8, <1>11, <1>12, <1>13 DEF Calls!Next, Calls!Call

\* An exit returns the status to the caller, if there is one.
LEMMA ExitSimulates ==
  ASSUME OInv, InUser, NEW status \in Statuses, Leaves(status)
  PROVE  Calls!Next
<1> DEFINE m == current_process
           d == [pid |-> Current.pid, parent |-> Current.ppid, status |-> status]
<1>1. /\ m \in Slots /\ m \in Used /\ m \in Active /\ m \notin Active'
      /\ m \notin InState("RUNNABLE") /\ m \notin InState("ZOMBIE")
      /\ m \notin InState("RUNNABLE")' /\ m \in InState("ZOMBIE")'
      /\ processes[m].pid = Current.pid /\ processes[m].ppid = Current.ppid
      /\ processes'[m].pid = Current.pid /\ processes'[m].ppid = Current.ppid
      /\ processes'[m].exit_status = status
  BY Numbers DEF Leaves, SameIds, Used, Active, InState, OInv, Current
<1>2. /\ \A s \in Slots \ {m} :
           /\ s \in Active' <=> s \in Active
           /\ s \in InState("RUNNABLE")' <=> s \in InState("RUNNABLE")
           /\ s \in InState("ZOMBIE")' <=> s \in InState("ZOMBIE")
           /\ s \in Used => /\ processes'[s].pid = processes[s].pid
                            /\ processes'[s].ppid = processes[s].ppid
           /\ s \in InState("ZOMBIE") => processes'[s].exit_status = processes[s].exit_status
  <2>1. CASE \A s \in Slots \ {m} : Kept(s)
    BY <2>1 DEF Kept, Used, Active, InState
  <2>2. CASE \E p \in Active \ {m} :
               /\ processes'[p].state = "RUNNING" /\ SameIds(p)
               /\ \A s \in Slots \ {p, m} : Kept(s)
    <3>1. PICK p \in Active \ {m} :
            /\ processes'[p].state = "RUNNING" /\ SameIds(p)
            /\ \A s \in Slots \ {p, m} : Kept(s)
      BY <2>2
    <3> QED BY <3>1 DEF SameIds, Kept, Used, Active, InState
  <2> QED BY <2>1, <2>2 DEF Leaves
<1>3. /\ InState("RUNNABLE")' = InState("RUNNABLE")
      /\ InState("ZOMBIE")' = InState("ZOMBIE") \cup {m} /\ Active' = Active \ {m}
  <2> DEFINE r == InState("RUNNABLE")
             z == InState("ZOMBIE")
             r2 == InState("RUNNABLE")'
             z2 == InState("ZOMBIE")'
             a2 == Active'
  <2>1. /\ r \subseteq Slots /\ r2 \subseteq Slots /\ z \subseteq Slots /\ z2 \subseteq Slots
        /\ Active \subseteq Slots /\ a2 \subseteq Slots
    BY DEF InState, Active
  <2>2. \A s \in Slots \ {m} : /\ s \in r2 <=> s \in r
                               /\ s \in z2 <=> s \in z
                               /\ s \in a2 <=> s \in Active
    BY <1>2
  <2>3. /\ m \in Slots /\ m \in Active /\ m \notin a2
        /\ m \notin r /\ m \notin r2 /\ m \in z2 /\ m \notin z
    BY <1>1
  <2> HIDE DEF r, z, r2, z2, a2, m
  <2>4. r2 = r /\ z2 = z \cup {m} /\ a2 = Active \ {m}
    BY <2>1, <2>2, <2>3
  <2> QED BY <2>4 DEF r, z, r2, z2, a2
<1>4. /\ \A s \in InState("RUNNABLE") : s \in Slots \ {m} /\ s \in Used
      /\ \A s \in InState("ZOMBIE") : s \in Slots \ {m} /\ s \in Used
      /\ \A s \in Active \ {m} : s \in Slots \ {m} /\ s \in Used
  <2>1. \A s \in Slots : /\ s \in InState("RUNNABLE") => s \in Used
                         /\ s \in InState("ZOMBIE") => s \in Used
                         /\ s \in Active => s \in Used
    BY DEF InState, Active, Used
  <2>2. /\ InState("RUNNABLE") \subseteq Slots /\ InState("ZOMBIE") \subseteq Slots
        /\ Active \subseteq Slots
    BY DEF InState, Active
  <2> QED BY <1>1, <2>1, <2>2
<1> HIDE DEF m
<1>5. Ready' = Ready
  BY <1>2, <1>3, <1>4 DEF Ready
<1>6. Done' = Done \cup {d}
  BY <1>1, <1>2, <1>3, <1>4 DEF Done
<1>7. InProgress' = InProgress \ {Current.pid}
  <2>1. \A s \in Active \ {m} : processes'[s].pid = processes[s].pid
    BY <1>2, <1>4
  <2>2. \A s \in Active \ {m} : processes[s].pid # Current.pid
    BY <1>1, <1>4, Numbers DEF OInv
  <2> QED BY <1>1, <1>3, <2>1, <2>2 DEF InProgress
<1>8. /\ Stack # <<>> /\ Calls!Top = Current.pid /\ Calls!Caller = Current.ppid
      /\ SubSeq(Stack, 1, Len(Stack) - 1) = Ranked(InProgress \ {Current.pid})
      /\ Len(Stack) > 1 <=> Current.ppid # 0
  BY StackShape
<1>9. Stack' = SubSeq(Stack, 1, Len(Stack) - 1)
  BY <1>7, <1>8 DEF Stack
<1>10. ctx'.rax = IF Len(Stack) > 1 THEN status ELSE ctx.rax
  <2>1. CASE ctx' = ctx /\ \A s \in Active : processes[s].pid # Current.ppid
    <3>1. Current.ppid = 0
      BY <1>1, <2>1 DEF OInv, IInv, WaitChain
    <3> QED BY <1>8, <2>1, <3>1
  <2>2. CASE ctx'.rax = status /\ \E p \in Active : processes[p].pid = Current.ppid
    <3>1. Current.ppid # 0
      BY <2>2, Numbers DEF OInv
    <3> QED BY <1>8, <2>2, <3>1
  <2> QED BY <2>1, <2>2 DEF Leaves
<1> QED BY <1>5, <1>6, <1>8, <1>9, <1>10 DEF Calls!Next, Calls!Exit

LEMMA StepSimulates == OInv /\ [Next]_vars => [Calls!Next]_(Calls!vars)
<1> SUFFICES ASSUME OInv, [Next]_vars PROVE [Calls!Next]_(Calls!vars)
  OBVIOUS
<1>1. CASE UNCHANGED vars
  BY <1>1 DEF vars, Calls!vars, Stack, InProgress, Ready, Done, InState, Active
<1>2. CASE Next /\ InUser
  <2>1. Effect
    BY <1>2, StepEffect DEF OInv
  <2> QED BY <1>2, <2>1, QuietSimulates, SpawnSimulates, CollectSimulates,
             CallSimulates, ExitSimulates DEF Effect
<1>3. CASE Next /\ ~InUser
  BY <1>1, <1>3, StopsForGood
<1> QED BY <1>1, <1>2, <1>3

\* Every behaviour of the process table is one of the stack of calls: running a
\* program is a procedure call that returns its exit status to the caller.
THEOREM CallsAreProcedureCalls == Spec => ImplementsCallStack
<1>1. Init => Calls!Init
  <2> SUFFICES ASSUME Init PROVE Calls!Init
    OBVIOUS
  <2>1. /\ 0 \in Slots /\ processes[0].pid = 1 /\ processes[0].state = "RUNNING"
        /\ \A s \in Slots : s # 0 => processes[s].state = "UNUSED"
        /\ ctx.rax = 0
    BY ProcessAssumption DEF Init, Slots, UserFrame
  <2>2. Ready = {} /\ Done = {} /\ InProgress = {1}
    BY <2>1 DEF Ready, Done, InState, InProgress, Active
  <2>3. Ranked({1}) = <<1>>
    <3>1. IsFiniteSet({1}) /\ {1} \in SUBSET Nat /\ Cardinality({1}) = 1
      BY FS_Singleton
    <3> DEFINE r == Ranked({1})
    <3>2. r \in Seq({1}) /\ Len(r) = 1
      BY <3>1, RankedSeq
    <3> HIDE DEF r
    <3>3. r = <<1>>
      BY <3>2
    <3> QED BY <3>3 DEF r
  <2> QED BY <2>1, <2>2, <2>3 DEF Calls!Init, Stack
<1> QED BY <1>1, StepSimulates, OInvariance, PTL DEF Spec, ImplementsCallStack, Calls!Spec

=============================================================================
