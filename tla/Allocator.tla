----------------------------- MODULE Allocator -----------------------------
(***************************************************************************)
(* What an allocator of memory promises its callers: a request is answered *)
(* with a block that nobody else owns and that is large enough, or with    *)
(* nothing, and a block stays its owner's until it is given back.          *)
(***************************************************************************)
EXTENDS Integers

CONSTANTS Sizes     \* sizes callers ask for

VARIABLES
  live,             \* blocks owned by callers: [addr, size] of their payload
  asked             \* the size a caller waits for, 0 if none does

vars == <<live, asked>>

Payload(b) == b.addr .. b.addr + b.size - 1

Init == live = {} /\ asked = 0

Ask(n) ==
  /\ asked = 0
  /\ asked' = n
  /\ UNCHANGED live

Grant(b) ==
  /\ asked # 0
  /\ b.size >= asked
  /\ \A c \in live : Payload(b) \cap Payload(c) = {}
  /\ live' = live \cup {b}
  /\ asked' = 0

Deny ==
  /\ asked # 0
  /\ asked' = 0
  /\ UNCHANGED live

GiveBack(b) ==
  /\ asked = 0
  /\ b \in live
  /\ live' = live \ {b}
  /\ UNCHANGED asked

Next ==
  \/ \E n \in Sizes : Ask(n)
  \/ \E b \in live' : Grant(b)
  \/ Deny
  \/ \E b \in live : GiveBack(b)

Spec == Init /\ [][Next]_vars
=============================================================================
