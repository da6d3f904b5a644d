----------------------------- MODULE CallStack -----------------------------
(***************************************************************************)
(* What the process system calls promise their callers: running another    *)
(* program is a procedure call.  spawn names a program that is ready to be *)
(* called, wait calls it, exit returns from it, and the value a call       *)
(* returns is the status of the program called.  No slots, trap frames,    *)
(* kernel stacks or page tables: one stack of pids.                        *)
(***************************************************************************)
EXTENDS Integers, Sequences

CONSTANTS Pids, Statuses

VARIABLES
  stack,   \* the programs in progress, the one that runs last
  ready,   \* programs spawned and not called: [pid, parent]
  done,    \* programs that ended: [pid, parent, status]
  result   \* what the last system call returned to the program that runs

vars == <<stack, ready, done, result>>

Top    == stack[Len(stack)]
Caller == IF Len(stack) > 1 THEN stack[Len(stack) - 1] ELSE 0
Known  == {stack[i] : i \in 1 .. Len(stack)}
            \cup {r.pid : r \in ready} \cup {d.pid : d \in done}

Init ==
  /\ stack = <<1>>
  /\ ready = {}
  /\ done = {}
  /\ result = 0

\* A call that starts and ends no program.
Reply ==
  /\ stack # <<>>
  /\ result' \in Pids \cup {-1, 0}
  /\ UNCHANGED <<stack, ready, done>>

Spawn(pid) ==
  /\ stack # <<>>
  /\ pid \notin Known
  /\ ready' = ready \cup {[pid |-> pid, parent |-> Top]}
  /\ result' = pid
  /\ UNCHANGED <<stack, done>>

Call(pid) ==
  /\ stack # <<>>
  /\ [pid |-> pid, parent |-> Top] \in ready
  /\ ready' = ready \ {[pid |-> pid, parent |-> Top]}
  /\ stack' = Append(stack, pid)
  /\ result' = 0
  /\ UNCHANGED done

\* The program that runs ends; its caller gets the status.
Exit(status) ==
  /\ stack # <<>>
  /\ done' = done \cup {[pid |-> Top, parent |-> Caller, status |-> status]}
  /\ stack' = SubSeq(stack, 1, Len(stack) - 1)
  /\ result' = IF Len(stack) > 1 THEN status ELSE result
  /\ UNCHANGED ready

\* The status of an ended program can be asked for once more.
Collect(d) ==
  /\ stack # <<>>
  /\ d \in done
  /\ d.parent = Top
  /\ done' = done \ {d}
  /\ result' = d.status
  /\ UNCHANGED <<stack, ready>>

Next ==
  \/ Reply
  \/ \E pid \in Pids : Spawn(pid) \/ Call(pid)
  \/ \E status \in Statuses : Exit(status)
  \/ \E d \in done : Collect(d)

Spec == Init /\ [][Next]_vars

=============================================================================
