------------------------------- MODULE MCPmm -------------------------------
EXTENDS Pmm

Pieces == [base : 0 .. 5, length : 1 .. 3, usable : BOOLEAN]

\* Maps of one to three entries in address order that do not overlap.
MCMemMaps ==
  {m \in UNION {[1 .. n -> Pieces] : n \in 0 .. 3} :
     \A i, j \in 1 .. Len(m) : i < j => End(m[i]) <= m[j].base}
=============================================================================
