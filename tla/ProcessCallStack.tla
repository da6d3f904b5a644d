-------------------------- MODULE ProcessCallStack --------------------------
(***************************************************************************)
(* The process table implements a stack of calls: the refinement mapping   *)
(* from Process to CallStack.  The stack is read off the table: the pids   *)
(* of the processes that have started and not ended, in increasing order,  *)
(* since a child's pid is handed out after its parent's.                   *)
(***************************************************************************)
EXTENDS Process, Sequences, FiniteSets

InState(st) == {s \in Slots : processes[s].state = st}

\* The numbers of P in increasing order: at i is the one i of them do not exceed.
Ranked(P) ==
  [i \in 1 .. Cardinality(P) |-> CHOOSE p \in P : Cardinality({q \in P : q <= p}) = i]

InProgress == {processes[s].pid : s \in Active}

Stack == Ranked(InProgress)

Ready == {[pid |-> processes[s].pid, parent |-> processes[s].ppid] :
            s \in InState("RUNNABLE")}

Done == {[pid |-> processes[s].pid, parent |-> processes[s].ppid,
          status |-> processes[s].exit_status] : s \in InState("ZOMBIE")}

Calls == INSTANCE CallStack
           WITH Pids <- 1 .. MaxPid, stack <- Stack, ready <- Ready,
                done <- Done, result <- ctx.rax

\* Every step of the process table is a step of the call stack or changes
\* nothing the callers see (spawn, wait and exit in syscall.c).
ImplementsCallStack == Calls!Spec
=============================================================================
