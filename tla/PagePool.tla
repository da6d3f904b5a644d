------------------------------ MODULE PagePool ------------------------------
(***************************************************************************)
(* What the physical memory manager promises: a pool of page frames.  A    *)
(* page is in the pool or out with one owner; asking fails only when the   *)
(* pool is empty; which page is given out is not promised.                 *)
(***************************************************************************)
VARIABLES
  pool,   \* pages nobody owns
  out     \* pages given out

vars == <<pool, out>>

Get(p) ==
  /\ p \in pool
  /\ pool' = pool \ {p}
  /\ out' = out \cup {p}

Refuse ==
  /\ pool = {}
  /\ UNCHANGED vars

Put(p) ==
  /\ p \in out
  /\ pool' = pool \cup {p}
  /\ out' = out \ {p}

Init == out = {}

Next ==
  \/ \E p \in pool : Get(p)
  \/ Refuse
  \/ \E p \in out : Put(p)

Spec == Init /\ [][Next]_vars
=============================================================================
