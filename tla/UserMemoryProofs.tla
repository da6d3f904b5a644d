-------------------------- MODULE UserMemoryProofs --------------------------
(***************************************************************************)
(* Proofs about UserMemory and UserString: the tables of all address       *)
(* spaces, the one under way included, are a forest in which every frame   *)
(* is referred to at most once.  So a new entry changes the way to one     *)
(* page only, and what the spaces have mapped stays theirs.                *)
(***************************************************************************)
EXTENDS UserString, TLAPS, WellFoundedInduction, FiniteSetTheorems

-----------------------------------------------------------------------------
(* Walking down the levels *)

\* What holds at level m, and at a level if it holds at the one above it, holds
\* at every level.
LEMMA Descent ==
  ASSUME NEW m \in Nat, NEW S, m \in S, \A n \in 0 .. m - 1 : n + 1 \in S => n \in S
  PROVE  0 .. m \subseteq S
<1> SUFFICES ASSUME NEW k \in 0 .. m, k \notin S PROVE FALSE
  OBVIOUS
<1> DEFINE R == OpToRel(<, Nat)
           U == {i \in Nat : i <= m /\ m - i \notin S}
<1>1. IsWellFoundedOn(R, Nat)
  BY NatLessThanWellFounded, Zenon DEF R
<1>2. \A x, y \in Nat : <<y, x>> \in R <=> y < x
  BY DEF OpToRel
<1>3. U \subseteq Nat /\ m - k \in U
  OBVIOUS
<1> HIDE DEF R
<1>4. PICK x \in U : \A y \in U : ~(<<y, x>> \in R)
  BY <1>1, <1>3, WFMin, Zenon
<1>5. x \in Nat /\ x <= m /\ m - x \notin S /\ x # 0
  BY <1>4
<1>6. x - 1 \in U
  <2>1. m - x \in 0 .. m - 1 /\ (m - x) + 1 = m - (x - 1)
    BY <1>5
  <2> QED BY <2>1, <1>5
<1>7. x - 1 < x /\ x - 1 \in Nat
  BY <1>5
<1> QED BY <1>2, <1>4, <1>5, <1>6, <1>7

\* f is a function from the levels lo to hi that is v at hi, and at each level
\* below what h makes of its value one above.
Follows(f, lo, hi, S, v, h) ==
  /\ f \in [lo .. hi -> S]
  /\ f[hi] = v
  /\ \A n \in lo .. hi - 1 : f[n] = h[n][f[n + 1]]

\* h maps S to S at every level.
Maps(h, hi, S) == h \in [0 .. hi -> [S -> S]]

\* There is such a function.
LEMMA Recursion ==
  ASSUME NEW hi \in Nat, NEW lo \in 0 .. hi, NEW S, NEW v \in S, NEW h, Maps(h, hi, S)
  PROVE  \E f : Follows(f, lo, hi, S, v, h)
<1> DEFINE D == {m \in 0 .. hi : \E f : Follows(f, m, hi, S, v, h)}
<1>1. hi \in D
  <2> DEFINE g == [n \in hi .. hi |-> v]
  <2>1. g \in [hi .. hi -> S] /\ g[hi] = v
    OBVIOUS
  <2> HIDE DEF g
  <2>2. hi \in 0 .. hi /\ hi .. hi - 1 = {}
    OBVIOUS
  <2>3. Follows(g, hi, hi, S, v, h)
    BY <2>1, <2>2 DEF Follows
  <2> QED BY <2>2, <2>3
<1>2. ASSUME NEW m \in 0 .. hi - 1, m + 1 \in D PROVE m \in D
  <2>1. PICK f : Follows(f, m + 1, hi, S, v, h)
    BY <1>2
  <2>2. f \in [m + 1 .. hi -> S] /\ f[hi] = v
        /\ \A n \in m + 1 .. hi - 1 : f[n] = h[n][f[n + 1]]
    BY <2>1 DEF Follows
  <2> DEFINE g == [n \in m .. hi |-> IF n = m THEN h[m][f[m + 1]] ELSE f[n]]
  <2>3. h[m] \in [S -> S] /\ f[m + 1] \in S
    BY <2>2 DEF Maps
  <2>4. g \in [m .. hi -> S]
    BY <2>2, <2>3
  <2>5. g[hi] = v
    BY <2>2
  <2>6. ASSUME NEW n \in m .. hi - 1 PROVE g[n] = h[n][g[n + 1]]
    <3>1. g[n + 1] = f[n + 1]
      OBVIOUS
    <3>2. CASE n = m
      BY <3>1, <3>2
    <3>3. CASE n # m
      <4>1. n \in m + 1 .. hi - 1 /\ g[n] = f[n]
        BY <3>3
      <4> QED BY <4>1, <3>1, <2>2
    <3> QED BY <3>2, <3>3
  <2> HIDE DEF g
  <2>7. Follows(g, m, hi, S, v, h)
    BY <2>4, <2>5, <2>6 DEF Follows
  <2> QED BY <2>7
<1> HIDE DEF D
<1>3. lo \in D
  BY <1>1, <1>2, Descent
<1> QED BY <1>3 DEF D

-----------------------------------------------------------------------------
(* Spans and indices *)

\* An entry of a table spans one page at the lowest level, and Fanout times what
\* the entries of the tables it points to span.
LEMMA SpanDef ==
  /\ Span \in [0 .. Levels -> Nat \ {0}]
  /\ Span[0] = 1
  /\ \A n \in 1 .. Levels : Span[n] = Fanout * Span[n - 1]
<1> DEFINE Body(f) == [n \in 0 .. Levels |-> IF n = 0 THEN 1 ELSE Fanout * f[n - 1]]
<1>1. \E f : f = Body(f)
  <2> DEFINE h == [n \in 0 .. Levels |-> [x \in Nat |-> Fanout * x]]
  <2>1. Levels \in Nat /\ Fanout \in Nat
    BY PageTablesAssumption
  <2>2. Maps(h, Levels, Nat)
    BY <2>1 DEF Maps
  <2>3. PICK f : Follows(f, 0, Levels, Nat, 1, h)
    <3>1. 0 \in 0 .. Levels /\ 1 \in Nat
      BY <2>1
    <3> QED BY <2>1, <2>2, <3>1, Recursion
  <2>4. \A n \in 0 .. Levels - 1 : \A x \in Nat : h[n][x] = Fanout * x
    BY <2>1
  <2> HIDE DEF h
  <2>5. /\ f \in [0 .. Levels -> Nat] /\ f[Levels] = 1
        /\ \A n \in 0 .. Levels - 1 : f[n] = h[n][f[n + 1]]
    BY <2>1, <2>3 DEF Follows
  <2> DEFINE g == [n \in 0 .. Levels |-> f[Levels - n]]
  <2>6. ASSUME NEW n \in 0 .. Levels
        PROVE  g[n] = IF n = 0 THEN 1 ELSE Fanout * g[n - 1]
    <3>1. CASE n = 0
      BY <3>1, <2>1, <2>5
    <3>2. CASE n # 0
      <4>1. Levels - n \in 0 .. Levels - 1 /\ (Levels - n) + 1 = Levels - (n - 1)
            /\ n - 1 \in 0 .. Levels
        BY <3>2, <2>1
      <4>2. f[Levels - n] = h[Levels - n][f[(Levels - n) + 1]]
        BY <4>1, <2>1, <2>5
      <4>3. f[Levels - (n - 1)] \in Nat
        BY <4>1, <2>1, <2>5
      <4>4. f[Levels - n] = Fanout * f[Levels - (n - 1)]
        BY <4>1, <4>2, <4>3, <2>4
      <4> QED BY <4>1, <4>4, <3>2
    <3> QED BY <3>1, <3>2
  <2>7. g = Body(g)
    BY <2>6
  <2> QED BY <2>7
<1>2. Span = CHOOSE f : f = Body(f)
  BY DEF Span
<1>3. Span = Body(Span)
  BY <1>1, <1>2, Zenon
<1> HIDE DEF Body
<1>4. \A n \in 0 .. Levels : Span[n] = IF n = 0 THEN 1 ELSE Fanout * Span[n - 1]
  BY <1>3 DEF Body
<1>5. Levels \in Nat /\ Fanout \in Nat \ {0, 1}
  BY PageTablesAssumption
<1>6. \A n \in 0 .. Levels : Span[n] \in Nat \ {0}
  <2> DEFINE S == {i \in 0 .. Levels : Span[Levels - i] \in Nat \ {0}}
  <2>1. Levels \in S
    BY <1>4, <1>5
  <2>2. ASSUME NEW n \in 0 .. Levels - 1, n + 1 \in S PROVE n \in S
    <3>1. Levels - n \in 1 .. Levels /\ (Levels - n) - 1 = Levels - (n + 1)
      BY <1>5
    <3>2. Span[Levels - n] = Fanout * Span[Levels - (n + 1)]
      BY <3>1, <1>4, <1>5
    <3>3. Span[Levels - (n + 1)] \in Nat \ {0}
      BY <2>2
    <3>4. \A x \in Nat \ {0} : Fanout * x \in Nat \ {0}
      BY <1>5
    <3>5. Span[Levels - n] \in Nat \ {0}
      BY <3>2, <3>3, <3>4
    <3> QED BY <3>5, <1>5
  <2> HIDE DEF S
  <2>3. 0 .. Levels \subseteq S
    BY <2>1, <2>2, <1>5, Descent
  <2>4. \A n \in 0 .. Levels : Levels - n \in S /\ Levels - (Levels - n) = n
    BY <2>3, <1>5
  <2> QED BY <2>4 DEF S
<1>7. Span \in [0 .. Levels -> Nat \ {0}]
  <2>1. Span = [n \in 0 .. Levels |-> Span[n]]
    BY <1>3 DEF Body
  <2> QED BY <2>1, <1>6
<1> QED BY <1>4, <1>5, <1>7

\* An index is one of a table; a user page has its first one in the lower half.
LEMMA IndexRange ==
  ASSUME NEW va \in Nat, NEW n \in 1 .. Levels
  PROVE  /\ Index(va, n) \in Indices
         /\ va \in UserPages /\ n = Levels =>
              Index(va, n) = va \div Span[n - 1] /\ Index(va, n) < Fanout \div 2
<1>1. Levels \in Nat /\ Fanout \in Nat /\ Fanout > 1
  BY PageTablesAssumption
<1>2. Span[n - 1] \in Nat /\ Span[n - 1] > 0
  <2>1. n - 1 \in 0 .. Levels
    BY <1>1
  <2> QED BY <2>1, SpanDef
<1> DEFINE s == Span[n - 1]
           q == va \div s
           half == Fanout \div 2
<1>3. q \in Nat /\ q * s <= va
  <2> HIDE DEF s
  <2>1. \A x \in Nat, y \in Nat : y > 0 => x \div y \in Nat /\ (x \div y) * y <= x
    OBVIOUS
  <2>2. s \in Nat /\ s > 0
    BY <1>2 DEF s
  <2> QED BY <2>1, <2>2
<1>4. \A x, y \in Nat : y > 1 => x % y \in 0 .. y - 1
  OBVIOUS
<1>5. Index(va, n) = q % Fanout
  BY DEF Index
<1>6. Index(va, n) \in Indices
  BY <1>1, <1>3, <1>4, <1>5 DEF Indices
<1>7. ASSUME va \in UserPages, n = Levels
      PROVE  Index(va, n) = q /\ Index(va, n) < half
  <2>1. va < half * s
    BY <1>7, <1>1, <1>2 DEF UserPages
  <2>2. half \in Nat /\ half < Fanout
    BY <1>1
  <2> HIDE DEF q, s, half
  <2>3. \A x, y, z \in Nat : x * z < y * z => x < y
    OBVIOUS
  <2>4. q * s < half * s
    BY <1>2, <1>3, <2>1, <2>2 DEF s
  <2>5. q < half
    BY <1>2, <1>3, <2>2, <2>3, <2>4 DEF s
  <2>6. \A x, y \in Nat : x < y => x % y = x
    OBVIOUS
  <2>7. q % Fanout = q
    BY <1>1, <1>3, <2>2, <2>5, <2>6
  <2> QED BY <1>5, <2>5, <2>7
<1> QED BY <1>6, <1>7

\* Two user pages with the same index at every level are one.
LEMMA SamePage ==
  ASSUME NEW u \in UserPages, NEW v \in UserPages,
         \A n \in 1 .. Levels : Index(u, n) = Index(v, n)
  PROVE  u = v
<1>1. Levels \in Nat /\ Levels >= 2 /\ Fanout \in Nat /\ Fanout > 1
  BY PageTablesAssumption
<1>2. u \in Nat /\ v \in Nat
  <2>1. (Fanout \div 2) * Span[Levels - 1] - 1 \in Int
    <3>1. Levels - 1 \in 0 .. Levels
      BY <1>1
    <3>2. Span[Levels - 1] \in Nat /\ Fanout \div 2 \in Nat
      BY <3>1, <1>1, SpanDef
    <3>3. \A x, y \in Nat : x * y - 1 \in Int
      OBVIOUS
    <3> QED BY <3>2, <3>3
  <2> QED BY <2>1 DEF UserPages
<1> DEFINE S == {n \in 0 .. Levels - 1 : u \div Span[n] = v \div Span[n]}
<1>3. Levels - 1 \in S
  BY <1>1, <1>2, IndexRange
<1>4. ASSUME NEW n \in 0 .. (Levels - 1) - 1, n + 1 \in S PROVE n \in S
  <2>1. n \in 0 .. Levels /\ n + 1 \in 1 .. Levels /\ (n + 1) - 1 = n
    BY <1>1
  <2> DEFINE s == Span[n]
             a == u \div s
             b == v \div s
  <2>2. s \in Nat /\ s > 0 /\ Span[n + 1] = Fanout * s
    BY <2>1, SpanDef
  <2>3. a % Fanout = b % Fanout
    BY <2>1 DEF Index
  <2>4. u \div (Fanout * s) = v \div (Fanout * s)
    BY <1>4, <2>2
  <2> HIDE DEF s
  <2>5. \A x \in Nat : \A y, z \in Nat \ {0} : x \div (z * y) = (x \div y) \div z
    OBVIOUS
  <2>6. a \div Fanout = b \div Fanout
    <3>1. s \in Nat \ {0} /\ Fanout \in Nat \ {0}
      BY <1>1, <2>2
    <3>2. u \div (Fanout * s) = (u \div s) \div Fanout
      BY <1>2, <2>5, <3>1, Zenon
    <3>3. v \div (Fanout * s) = (v \div s) \div Fanout
      BY <1>2, <2>5, <3>1, Zenon
    <3> QED BY <3>2, <3>3, <2>4
  <2>7. \A x, y \in Nat : y > 0 => x \div y \in Nat
    OBVIOUS
  <2>8. a \in Nat /\ b \in Nat
    BY <1>2, <2>2, <2>7
  <2> HIDE DEF a, b
  <2>9. \A x, y, z \in Nat : z > 1 /\ x % z = y % z /\ x \div z = y \div z => x = y
    OBVIOUS
  <2>10. a = b
    BY <1>1, <2>3, <2>6, <2>8, <2>9
  <2>11. u \div Span[n] = v \div Span[n]
    BY <2>10 DEF a, b, s
  <2> QED BY <2>11, <1>1
<1>5. 0 \in S
  <2>1. Levels - 1 \in Nat /\ 0 \in 0 .. Levels - 1
    BY <1>1
  <2> HIDE DEF S
  <2> QED BY <1>3, <1>4, <2>1, Descent
<1> QED BY <1>2, <1>5, SpanDef

-----------------------------------------------------------------------------
(* The way to a page *)

\* Path starts at the root, and at each level follows the entry of the page.
LEMMA PathDef ==
  ASSUME NEW E \in Entries, NEW r \in Tables, NEW u \in Nat
  PROVE  /\ \A n \in 0 .. Levels : Path(E, r, u)[n] \in Tables \cup {NONE}
         /\ Path(E, r, u)[Levels] = r
         /\ \A n \in 0 .. Levels - 1 :
              Path(E, r, u)[n] = IF Path(E, r, u)[n + 1] = NONE THEN NONE
                                 ELSE E[Path(E, r, u)[n + 1]][Index(u, n + 1)]
<1> DEFINE Body(at) == [n \in 0 .. Levels |->
                          IF n = Levels THEN r
                          ELSE IF at[n + 1] = NONE THEN NONE
                          ELSE E[at[n + 1]][Index(u, n + 1)]]
           T == Tables \cup {NONE}
           h == [n \in 0 .. Levels |->
                  [x \in T |-> IF x = NONE \/ n = Levels THEN NONE ELSE E[x][Index(u, n + 1)]]]
<1>1. Levels \in Nat /\ 0 \in 0 .. Levels
  BY PageTablesAssumption
<1>2. \A n \in 0 .. Levels : \A x \in T :
        IF x = NONE \/ n = Levels THEN h[n][x] = NONE
        ELSE h[n][x] = E[x][Index(u, n + 1)] /\ h[n][x] \in T
  <2> SUFFICES ASSUME NEW n \in 0 .. Levels, NEW x \in T, x # NONE, n # Levels
               PROVE  E[x][Index(u, n + 1)] \in T
    OBVIOUS
  <2>1. n + 1 \in 1 .. Levels
    BY <1>1
  <2>2. Index(u, n + 1) \in Indices
    BY <2>1, IndexRange
  <2> QED BY <2>2 DEF Entries
<1>3. Maps(h, Levels, T)
  <2>1. \A n \in 0 .. Levels : h[n] \in [T -> T]
    <3> TAKE n \in 0 .. Levels
    <3>1. \A x \in T : h[n][x] \in T
      BY <1>2
    <3>2. h[n] = [x \in T |-> h[n][x]]
      OBVIOUS
    <3> HIDE DEF h
    <3> QED BY <3>1, <3>2
  <2>2. h = [n \in 0 .. Levels |-> h[n]]
    OBVIOUS
  <2> HIDE DEF h
  <2> QED BY <2>1, <2>2 DEF Maps
<1> HIDE DEF h
<1>4. PICK f : Follows(f, 0, Levels, T, r, h)
  <2>1. r \in T
    OBVIOUS
  <2> HIDE DEF T
  <2> QED BY <1>1, <1>3, <2>1, Recursion
<1>5. f \in [0 .. Levels -> T] /\ f[Levels] = r
      /\ \A n \in 0 .. Levels - 1 : f[n] = h[n][f[n + 1]]
  BY <1>4 DEF Follows
<1>6. f = Body(f)
  <2>1. ASSUME NEW n \in 0 .. Levels
        PROVE  f[n] = IF n = Levels THEN r ELSE IF f[n + 1] = NONE THEN NONE
                      ELSE E[f[n + 1]][Index(u, n + 1)]
    <3>1. CASE n = Levels
      BY <3>1, <1>5
    <3>2. CASE n # Levels
      <4>1. n \in 0 .. Levels - 1 /\ n + 1 \in 0 .. Levels
        BY <3>2, <1>1
      <4>2. f[n] = h[n][f[n + 1]] /\ f[n + 1] \in T
        BY <4>1, <1>5
      <4> HIDE DEF T
      <4> QED BY <4>2, <3>2, <1>2
    <3> QED BY <3>1, <3>2
  <2> HIDE DEF T
  <2> QED BY <2>1, <1>5
<1>7. Path(E, r, u) = CHOOSE at : at = Body(at)
  BY DEF Path
<1>8. Path(E, r, u) = Body(Path(E, r, u))
  <2> HIDE DEF Body
  <2> QED BY <1>6, <1>7, Zenon
<1> DEFINE p == Path(E, r, u)
<1> HIDE DEF p, Body
<1>9. p = Body(p)
  BY <1>8 DEF p
<1>10. /\ p[Levels] = r
       /\ \A n \in 0 .. Levels - 1 :
            p[n] = IF p[n + 1] = NONE THEN NONE ELSE E[p[n + 1]][Index(u, n + 1)]
  <2>1. \A n \in 0 .. Levels : p[n] = IF n = Levels THEN r
                                  ELSE IF p[n + 1] = NONE THEN NONE
                                  ELSE E[p[n + 1]][Index(u, n + 1)]
    BY <1>9, Zenon DEF Body
  <2>2. Levels \in 0 .. Levels /\ \A n \in 0 .. Levels - 1 : n \in 0 .. Levels /\ n # Levels
    BY <1>1
  <2> QED BY <2>1, <2>2, Zenon
<1>11. \A n \in 0 .. Levels : p[n] \in T
  <2> DEFINE S == {n \in 0 .. Levels : p[n] \in T}
  <2>1. Levels \in S
    BY <1>1, <1>10
  <2>2. ASSUME NEW n \in 0 .. Levels - 1, n + 1 \in S PROVE n \in S
    <3>1. p[n + 1] \in T /\ n \in 0 .. Levels /\ n # Levels
      BY <2>2, <1>1
    <3>2. p[n] = NONE \/ (p[n + 1] # NONE /\ p[n] = E[p[n + 1]][Index(u, n + 1)])
      BY <1>10
    <3>3. p[n] \in T
      <4>1. NONE \in T
        OBVIOUS
      <4> HIDE DEF T
      <4> QED BY <4>1, <3>1, <3>2, <1>2
    <3> QED BY <3>1, <3>3
  <2> HIDE DEF S
  <2>3. 0 .. Levels \subseteq S
    BY <1>1, <2>1, <2>2, Descent
  <2> QED BY <2>3 DEF S
<1> QED BY <1>10, <1>11 DEF p

-----------------------------------------------------------------------------
(* Trees of tables *)

\* No entry of a table in Frames refers to frame f.
Alone(E, f) == \A t \in Frames : \A i \in Indices : E[t][i] # f

\* No frame is referred to twice.
Single(E) ==
  \A t, u \in Frames : \A i, j \in Indices :
    E[t][i] = E[u][j] /\ E[t][i] \in Frames => t = u /\ i = j

\* The kernel's tables are referred to by upper halves of roots only, and refer
\* to none of Frames.
KernelApart(E) ==
  /\ \A t \in Frames : \A i \in Indices :
       /\ E[t][i] # KernelRoot
       /\ E[t][i] = KernelTable => Alone(E, t) /\ i >= Fanout \div 2
  /\ \A i \in Indices : E[KernelRoot][i] \notin Frames /\ E[KernelRoot][i] # KernelRoot
  /\ \A i \in Indices : i < Fanout \div 2 => E[KernelRoot][i] = NONE

Tree(E) == E \in Entries /\ Single(E) /\ KernelApart(E)

\* r is the root of an address space: its upper half is the kernel's.
IsRoot(E, r) ==
  /\ r \in Frames
  /\ Alone(E, r)
  /\ \A i \in Indices : i >= Fanout \div 2 => E[r][i] \notin Frames

\* f is a free frame.
Spare(E, f) == f \in Frames /\ Alone(E, f) /\ E[f] = EmptyPage

\* The assumptions, in the form the proofs use.
LEMMA TableFacts ==
  /\ Levels \in Nat /\ Levels >= 2 /\ Fanout \in Nat /\ Fanout > 1
  /\ NONE \notin Frames /\ KernelRoot \notin Frames /\ KernelTable \notin Frames
  /\ KernelRoot # NONE /\ KernelTable # NONE /\ KernelRoot # KernelTable
  /\ UserPages \subseteq Nat
<1>1. /\ Levels \in Nat /\ Levels >= 2 /\ Fanout \in Nat /\ Fanout > 1
      /\ NONE \notin Frames /\ KernelRoot \notin Frames /\ KernelTable \notin Frames
      /\ KernelRoot # NONE /\ KernelTable # NONE /\ KernelRoot # KernelTable
  BY PageTablesAssumption DEF NONE
<1>2. UserPages \subseteq Nat
  <2>1. Levels - 1 \in 0 .. Levels
    BY <1>1
  <2>2. Span[Levels - 1] \in Nat /\ Fanout \div 2 \in Nat
    BY <2>1, <1>1, SpanDef
  <2>3. \A x, y \in Nat : x * y - 1 \in Int
    OBVIOUS
  <2>4. (Fanout \div 2) * Span[Levels - 1] - 1 \in Int
    BY <2>2, <2>3
  <2> QED BY <2>4 DEF UserPages
<1> QED BY <1>1, <1>2

\* The way to a user page goes through frames, each but the root referred to by
\* the one above it.
LEMMA PathInTree ==
  ASSUME NEW E, Tree(E), NEW r, IsRoot(E, r), NEW u \in UserPages
  PROVE  /\ \A n \in 0 .. Levels : Path(E, r, u)[n] \in Frames \cup {NONE}
         /\ Path(E, r, u)[Levels] = r
         /\ \A n \in 0 .. Levels - 1 : Path(E, r, u)[n] # NONE =>
              /\ Path(E, r, u)[n + 1] \in Frames
              /\ Index(u, n + 1) \in Indices
              /\ E[Path(E, r, u)[n + 1]][Index(u, n + 1)] = Path(E, r, u)[n]
              /\ ~Alone(E, Path(E, r, u)[n])
<1> DEFINE p == Path(E, r, u)
<1>1. Levels \in Nat /\ u \in Nat /\ E \in Entries /\ r \in Tables /\ r \in Frames
  BY TableFacts DEF Tree, IsRoot, Tables
<1>2. /\ \A n \in 0 .. Levels : p[n] \in Tables \cup {NONE}
      /\ p[Levels] = r
      /\ \A n \in 0 .. Levels - 1 :
           p[n] = IF p[n + 1] = NONE THEN NONE ELSE E[p[n + 1]][Index(u, n + 1)]
  BY <1>1, PathDef
<1> HIDE DEF p
<1>3. ASSUME NEW n \in 0 .. Levels - 1, p[n] # NONE, p[n + 1] \in Frames \cup {NONE},
             n + 1 < Levels => ~Alone(E, p[n + 1])
      PROVE  /\ p[n + 1] \in Frames
             /\ Index(u, n + 1) \in Indices
             /\ E[p[n + 1]][Index(u, n + 1)] = p[n]
             /\ p[n] \in Frames
             /\ ~Alone(E, p[n])
  <2>1. n + 1 \in 1 .. Levels /\ n \in 0 .. Levels
    BY <1>1
  <2>2. p[n + 1] # NONE /\ p[n] = E[p[n + 1]][Index(u, n + 1)] /\ p[n] \in Tables
    BY <1>2, <1>3, <2>1
  <2>3. p[n + 1] \in Frames /\ Index(u, n + 1) \in Indices
    BY <1>1, <1>3, <2>1, <2>2, IndexRange
  <2>4. p[n] # KernelRoot
    BY <2>2, <2>3 DEF Tree, KernelApart
  <2>5. p[n] # KernelTable
    <3>1. CASE n + 1 < Levels
      BY <1>3, <2>2, <2>3, <3>1 DEF Tree, KernelApart
    <3>2. CASE n + 1 = Levels
      <4>1. Index(u, n + 1) < Fanout \div 2
        BY <1>1, <2>1, <3>2, IndexRange
      <4>2. Fanout \div 2 \in Int /\ Index(u, n + 1) \in Int
        BY <2>3, TableFacts DEF Indices
      <4>3. ~(Index(u, n + 1) >= Fanout \div 2)
        BY <4>1, <4>2
      <4> QED BY <2>2, <2>3, <4>3 DEF Tree, KernelApart
    <3> QED BY <1>1, <2>1, <3>1, <3>2
  <2> QED BY <2>2, <2>3, <2>4, <2>5 DEF Tables, Alone
<1> DEFINE S == {n \in 0 .. Levels : p[n] \in Frames \cup {NONE}
                                     /\ (n < Levels /\ p[n] # NONE => ~Alone(E, p[n]))}
<1>4. Levels \in S
  BY <1>1, <1>2
<1>5. ASSUME NEW n \in 0 .. Levels - 1, n + 1 \in S PROVE n \in S
  <2>1. n \in 0 .. Levels
    BY <1>1
  <2>2. CASE p[n] = NONE
    BY <2>1, <2>2
  <2>3. CASE p[n] # NONE
    <3>1. p[n + 1] # NONE
      BY <1>2, <2>3
    <3> QED BY <1>3, <1>5, <2>1, <2>3, <3>1
  <2> QED BY <2>2, <2>3
<1> HIDE DEF S
<1>6. 0 .. Levels \subseteq S
  BY <1>1, <1>4, <1>5, Descent
<1>7. \A n \in 0 .. Levels : p[n] \in Frames \cup {NONE}
                             /\ (n < Levels /\ p[n] # NONE => ~Alone(E, p[n]))
  BY <1>6 DEF S
<1>8. ASSUME NEW n \in 0 .. Levels - 1, p[n] # NONE
      PROVE  /\ p[n + 1] \in Frames
             /\ Index(u, n + 1) \in Indices
             /\ E[p[n + 1]][Index(u, n + 1)] = p[n]
             /\ ~Alone(E, p[n])
  <2>1. n + 1 \in 0 .. Levels /\ p[n + 1] # NONE
    BY <1>1, <1>2, <1>8
  <2> QED BY <1>3, <1>7, <1>8, <2>1
<1> QED BY <1>2, <1>7, <1>8 DEF p

\* A table is on one way only: two ways that come to it have the same root and
\* have taken the same entries.
LEMMA OneWay ==
  ASSUME NEW E, Tree(E), NEW r, IsRoot(E, r), NEW q, IsRoot(E, q),
         NEW u \in UserPages, NEW v \in UserPages,
         NEW n \in 0 .. Levels, NEW m \in 0 .. Levels,
         Path(E, r, u)[n] = Path(E, q, v)[m], Path(E, r, u)[n] # NONE
  PROVE  /\ n = m /\ r = q
         /\ \A k \in n + 1 .. Levels : Index(u, k) = Index(v, k)
<1> DEFINE a == Path(E, r, u)
           b == Path(E, q, v)
           Same(i, j) == i = j /\ r = q /\ \A k \in i + 1 .. Levels : Index(u, k) = Index(v, k)
           S == {i \in 0 .. Levels : \A j \in 0 .. Levels :
                   a[i] = b[j] /\ a[i] # NONE => Same(i, j)}
<1>1. Levels \in Nat
  BY TableFacts
<1>2. /\ a[Levels] = r /\ b[Levels] = q
      /\ \A i \in 0 .. Levels - 1 : a[i] # NONE =>
           /\ a[i + 1] \in Frames /\ Index(u, i + 1) \in Indices
           /\ E[a[i + 1]][Index(u, i + 1)] = a[i] /\ ~Alone(E, a[i])
      /\ \A i \in 0 .. Levels - 1 : b[i] # NONE =>
           /\ b[i + 1] \in Frames /\ Index(v, i + 1) \in Indices
           /\ E[b[i + 1]][Index(v, i + 1)] = b[i] /\ ~Alone(E, b[i])
      /\ \A i \in 0 .. Levels : a[i] \in Frames \cup {NONE}
  BY PathInTree
<1>3. Alone(E, r) /\ Alone(E, q) /\ Single(E)
  BY DEF IsRoot, Tree
<1> HIDE DEF a, b
<1>4. Levels \in S
  <2> SUFFICES ASSUME NEW j \in 0 .. Levels, a[Levels] = b[j], a[Levels] # NONE
               PROVE  Same(Levels, j)
    BY <1>1
  <2>1. j = Levels
    <3> SUFFICES ASSUME j # Levels PROVE FALSE
      OBVIOUS
    <3>1. j \in 0 .. Levels - 1
      BY <1>1
    <3> QED BY <3>1, <1>2, <1>3
  <2> QED BY <2>1, <1>1, <1>2
<1>5. ASSUME NEW i \in 0 .. Levels - 1, i + 1 \in S PROVE i \in S
  <2> SUFFICES ASSUME NEW j \in 0 .. Levels, a[i] = b[j], a[i] # NONE
               PROVE  Same(i, j)
    BY <1>1
  <2>1. j \in 0 .. Levels - 1
    <3> SUFFICES ASSUME j = Levels PROVE FALSE
      BY <1>1
    <3> QED BY <1>2, <1>3
  <2>2. /\ a[i + 1] \in Frames /\ Index(u, i + 1) \in Indices
        /\ b[j + 1] \in Frames /\ Index(v, j + 1) \in Indices
        /\ E[a[i + 1]][Index(u, i + 1)] = a[i] /\ E[b[j + 1]][Index(v, j + 1)] = a[i]
        /\ a[i] \in Frames
    BY <1>1, <1>2, <2>1
  <2>3. a[i + 1] = b[j + 1] /\ Index(u, i + 1) = Index(v, j + 1)
    BY <2>2, <1>3 DEF Single
  <2>4. i + 1 \in 0 .. Levels /\ j + 1 \in 0 .. Levels /\ a[i + 1] # NONE
    BY <1>1, <2>1, <2>2, TableFacts
  <2>5. Same(i + 1, j + 1)
    BY <1>5, <2>3, <2>4
  <2>6. i = j
    BY <2>5, <2>1
  <2>7. ASSUME NEW k \in i + 1 .. Levels PROVE Index(u, k) = Index(v, k)
    <3>1. k = i + 1 \/ k \in (i + 1) + 1 .. Levels
      OBVIOUS
    <3> QED BY <3>1, <2>3, <2>5, <2>6
  <2> QED BY <2>5, <2>6, <2>7
<1> HIDE DEF S
<1>6. n \in S
  BY <1>1, <1>4, <1>5, Descent
<1>7. Same(n, m)
  BY <1>6 DEF S, a, b
<1> QED BY <1>7

\* A page of user memory is translated to a frame something refers to.
LEMMA TranslateInTree ==
  ASSUME NEW E, Tree(E), NEW r, IsRoot(E, r), NEW u \in UserPages
  PROVE  /\ Translate(E, r, u) \in Frames \cup {NONE}
         /\ Translate(E, r, u) # NONE => ~Alone(E, Translate(E, r, u))
<1>1. 0 \in 0 .. Levels /\ 0 \in 0 .. Levels - 1
  BY TableFacts
<1> QED BY <1>1, PathInTree DEF Translate

\* A frame nothing refers to, and that is not the root, is on no way.
LEMMA OffTheWay ==
  ASSUME NEW E, Tree(E), NEW r, IsRoot(E, r), NEW u \in UserPages,
         NEW f \in Frames, Alone(E, f), f # r, NEW n \in 0 .. Levels
  PROVE  Path(E, r, u)[n] # f
<1>1. CASE n = Levels
  BY <1>1, PathInTree
<1>2. CASE n # Levels
  <2>1. n \in 0 .. Levels - 1
    BY <1>2, TableFacts
  <2> QED BY <2>1, PathInTree, TableFacts
<1> QED BY <1>1, <1>2

\* Linking a free frame as a table to a free entry.
Linked(E, node, i, t) == [E EXCEPT ![t] = EmptyPage, ![node][i] = t]

\* What is in the tables after that.
LEMMA LinkedEntries ==
  ASSUME NEW E \in Entries, NEW node \in Frames, NEW i \in Indices, NEW t \in Frames, t # node
  PROVE  /\ Linked(E, node, i, t) \in Entries
         /\ \A x \in Tables, j \in Indices :
              Linked(E, node, i, t)[x][j] = IF x = t THEN NONE
                                            ELSE IF x = node /\ j = i THEN t ELSE E[x][j]
         /\ \A x \in Tables : x # t /\ x # node => Linked(E, node, i, t)[x] = E[x]
<1> DEFINE L == Linked(E, node, i, t)
<1>1. EmptyPage \in [Indices -> Tables \cup {NONE}] /\ \A j \in Indices : EmptyPage[j] = NONE
  BY DEF EmptyPage
<1>2. node \in Tables /\ t \in Tables /\ E \in [Tables -> [Indices -> Tables \cup {NONE}]]
  BY DEF Tables, Entries
<1>3. L = [[E EXCEPT ![t] = EmptyPage] EXCEPT ![node] = [E[node] EXCEPT ![i] = t]]
  BY <1>2 DEF Linked
<1>4. E[node] \in [Indices -> Tables \cup {NONE}]
  BY <1>2
<1> HIDE DEF L
<1>5. [E[node] EXCEPT ![i] = t] \in [Indices -> Tables \cup {NONE}]
  BY <1>2, <1>4
<1>6. L \in Entries
  BY <1>1, <1>2, <1>3, <1>5 DEF Entries
<1>7. \A x \in Tables :
        L[x] = IF x = node THEN [E[node] EXCEPT ![i] = t] ELSE IF x = t THEN EmptyPage ELSE E[x]
  BY <1>2, <1>3
<1>8. \A x \in Tables, j \in Indices :
        L[x][j] = IF x = t THEN NONE ELSE IF x = node /\ j = i THEN t ELSE E[x][j]
  BY <1>1, <1>2, <1>4, <1>7
<1> QED BY <1>6, <1>7, <1>8 DEF L

\* The tree stays one, with its roots and its free frames.
LEMMA LinkedTree ==
  ASSUME NEW E, Tree(E), NEW node \in Frames, NEW i \in Indices, NEW t, Spare(E, t),
         t # node, E[node][i] = NONE, ~Alone(E, node) \/ i < Fanout \div 2
  PROVE  /\ Tree(Linked(E, node, i, t))
         /\ \A q : IsRoot(E, q) /\ q # t => IsRoot(Linked(E, node, i, t), q)
         /\ \A f : Spare(E, f) /\ f # t /\ f # node => Spare(Linked(E, node, i, t), f)
<1> DEFINE L == Linked(E, node, i, t)
<1>1. E \in Entries /\ t \in Frames /\ Frames \subseteq Tables /\ KernelRoot \in Tables
  BY DEF Tree, Spare, Tables
<1>2. /\ L \in Entries
      /\ \A x \in Tables, j \in Indices :
           L[x][j] = IF x = t THEN NONE ELSE IF x = node /\ j = i THEN t ELSE E[x][j]
      /\ \A x \in Tables : x # t /\ x # node => L[x] = E[x]
  BY <1>1, LinkedEntries
<1> HIDE DEF L
<1>3. Alone(E, t) /\ E[t] = EmptyPage
  BY DEF Spare
<1>4. \A f \in Frames : Alone(E, f) /\ f # t => Alone(L, f)
  BY <1>1, <1>2, TableFacts DEF Alone
<1>5. Single(L)
  <2> SUFFICES ASSUME NEW x \in Frames, NEW y \in Frames, NEW j \in Indices, NEW k \in Indices,
                      L[x][j] = L[y][k], L[x][j] \in Frames
               PROVE  x = y /\ j = k
    BY DEF Single
  <2>1. x # t /\ y # t
    BY <1>1, <1>2, TableFacts
  <2>2. CASE x = node /\ j = i
    BY <1>1, <1>2, <1>3, <2>1, <2>2 DEF Alone
  <2>3. CASE y = node /\ k = i
    BY <1>1, <1>2, <1>3, <2>1, <2>3 DEF Alone
  <2>4. CASE ~(x = node /\ j = i) /\ ~(y = node /\ k = i)
    <3>1. E[x][j] = E[y][k] /\ E[x][j] \in Frames
      BY <1>1, <1>2, <2>1, <2>4
    <3> QED BY <3>1 DEF Tree, Single
  <2> QED BY <2>2, <2>3, <2>4
<1>6. KernelApart(L)
  <2>1. ASSUME NEW x \in Frames, NEW j \in Indices
        PROVE  L[x][j] # KernelRoot /\ (L[x][j] = KernelTable => Alone(L, x) /\ j >= Fanout \div 2)
    <3>1. CASE x = t
      BY <1>1, <1>2, <3>1, TableFacts
    <3>2. CASE x # t /\ x = node /\ j = i
      BY <1>1, <1>2, <3>2, TableFacts
    <3>3. CASE x # t /\ ~(x = node /\ j = i)
      <4>1. L[x][j] = E[x][j]
        BY <1>1, <1>2, <3>3
      <4> QED BY <4>1, <3>3, <1>4 DEF Tree, KernelApart
    <3> QED BY <3>1, <3>2, <3>3
  <2>2. L[KernelRoot] = E[KernelRoot]
    BY <1>1, <1>2, TableFacts
  <2> QED BY <2>1, <2>2 DEF Tree, KernelApart
<1>7. ASSUME NEW q, IsRoot(E, q), q # t PROVE IsRoot(L, q)
  <2>1. q \in Frames /\ Alone(L, q)
    BY <1>4, <1>7 DEF IsRoot
  <2>2. ASSUME NEW j \in Indices, j >= Fanout \div 2 PROVE L[q][j] \notin Frames
    <3>1. ~(q = node /\ j = i)
      <4> SUFFICES ASSUME q = node, j = i PROVE FALSE
        OBVIOUS
      <4>1. i < Fanout \div 2
        BY <1>7 DEF IsRoot
      <4>2. i \in Int /\ Fanout \div 2 \in Int
        BY TableFacts DEF Indices
      <4> QED BY <2>2, <4>1, <4>2
    <3> QED BY <1>1, <1>2, <1>7, <2>1, <2>2, <3>1 DEF IsRoot
  <2> QED BY <2>1, <2>2 DEF IsRoot
<1>8. ASSUME NEW f, Spare(E, f), f # t, f # node PROVE Spare(L, f)
  BY <1>1, <1>2, <1>4, <1>8 DEF Spare
<1> QED BY <1>2, <1>5, <1>6, <1>7, <1>8 DEF Tree, L

\* Above the last level, linking a table to the entry of page va changes the
\* frame of no page, and the way to va then goes to the table.
LEMMA LinkedPaths ==
  ASSUME NEW E, Tree(E), NEW r, IsRoot(E, r), NEW va \in UserPages, NEW n \in 2 .. Levels,
         Path(E, r, va)[n] # NONE, E[Path(E, r, va)[n]][Index(va, n)] = NONE,
         NEW t, Spare(E, t), t # r, NEW q, IsRoot(E, q), q # t, NEW u \in UserPages
  PROVE  LET L == Linked(E, Path(E, r, va)[n], Index(va, n), t) IN
         /\ Translate(L, q, u) = Translate(E, q, u)
         /\ Path(L, q, u)[n] = Path(E, q, u)[n]
         /\ q = r /\ u = va => Path(L, q, u)[n - 1] = t
<1> DEFINE node == Path(E, r, va)[n]
           i == Index(va, n)
           L == Linked(E, node, i, t)
           a == Path(E, q, u)
           b == Path(L, q, u)
<1>1. Levels \in Nat /\ Levels >= 2 /\ u \in Nat /\ va \in Nat /\ n \in 1 .. Levels
      /\ n \in 0 .. Levels /\ NONE \notin Frames
  BY TableFacts
<1>2. node \in Frames /\ i \in Indices
  BY <1>1, PathInTree, IndexRange
<1>3. t \in Frames /\ Alone(E, t) /\ E \in Entries /\ q \in Tables /\ Frames \subseteq Tables
  BY DEF Spare, Tree, IsRoot, Tables
<1>4. t # node
  BY <1>1, <1>3, OffTheWay
<1>5. /\ L \in Entries
      /\ \A x \in Tables, j \in Indices :
           L[x][j] = IF x = t THEN NONE ELSE IF x = node /\ j = i THEN t ELSE E[x][j]
  BY <1>2, <1>3, <1>4, LinkedEntries
<1> HIDE DEF L
<1>6. /\ b[Levels] = q
      /\ \A k \in 0 .. Levels - 1 :
           b[k] = IF b[k + 1] = NONE THEN NONE ELSE L[b[k + 1]][Index(u, k + 1)]
  BY <1>1, <1>3, <1>5, PathDef
<1>7. /\ a[Levels] = q
      /\ \A k \in 0 .. Levels - 1 :
           a[k] = IF a[k + 1] = NONE THEN NONE ELSE E[a[k + 1]][Index(u, k + 1)]
      /\ \A k \in 0 .. Levels : a[k] \in Frames \cup {NONE}
  BY <1>1, <1>3, PathDef, PathInTree
<1>8. \A k \in 0 .. Levels : a[k] # t
  BY <1>3, OffTheWay
<1>9. \A k \in 0 .. Levels : a[k] = node => k = n
  BY <1>1, <1>2, OneWay
<1>10. \A k \in 1 .. Levels : Index(u, k) \in Indices
  BY <1>1, IndexRange
<1> HIDE DEF a, b, node, i
<1> DEFINE Near(k) == b[k] = a[k] \/ (k = n - 1 /\ a[k] = NONE /\ b[k] = t)
           S == {k \in 0 .. Levels : Near(k)}
<1>11. Levels \in S
  BY <1>1, <1>6, <1>7
<1>12. ASSUME NEW k \in 0 .. Levels - 1, k + 1 \in S PROVE k \in S
  <2>1. k \in 0 .. Levels /\ k + 1 \in 0 .. Levels /\ k + 1 \in 1 .. Levels
    BY <1>1
  <2> DEFINE x == a[k + 1]
             j == Index(u, k + 1)
  <2>2. /\ b[k] = IF b[k + 1] = NONE THEN NONE ELSE L[b[k + 1]][j]
        /\ a[k] = IF x = NONE THEN NONE ELSE E[x][j]
        /\ x \in Frames \cup {NONE} /\ x # t /\ (x = node => k + 1 = n)
        /\ j \in Indices
    BY <2>1, <1>6, <1>7, <1>8, <1>9, <1>10
  <2>3. b[k + 1] = x \/ (k + 1 = n - 1 /\ x = NONE /\ b[k + 1] = t)
    BY <1>12
  <2> HIDE DEF x, j
  <2>4. CASE b[k + 1] = x /\ x = NONE
    BY <2>1, <2>2, <2>4
  <2>5. CASE b[k + 1] = x /\ x \in Frames
    <3>1. b[k] = L[x][j] /\ a[k] = E[x][j]
      BY <2>2, <2>5, <1>1
    <3>2. CASE x = node /\ j = i
      <4>1. k = n - 1 /\ b[k] = t /\ a[k] = NONE
        <5>1. E[node][i] = NONE
          BY DEF node, i
        <5> QED BY <2>2, <2>5, <3>1, <3>2, <5>1, <1>1, <1>3, <1>5
      <4> QED BY <4>1, <2>1
    <3>3. CASE ~(x = node /\ j = i)
      BY <1>3, <1>5, <2>1, <2>2, <2>5, <3>1, <3>3
    <3> QED BY <3>2, <3>3
  <2>6. CASE k + 1 = n - 1 /\ x = NONE /\ b[k + 1] = t
    BY <1>1, <1>3, <1>5, <2>1, <2>2, <2>6
  <2> QED BY <2>2, <2>3, <2>4, <2>5, <2>6
<1> HIDE DEF S
<1>13. 0 .. Levels \subseteq S
  BY <1>1, <1>11, <1>12, Descent
<1>14. \A k \in 0 .. Levels : Near(k)
  BY <1>13 DEF S
<1>15. Near(0) /\ Near(n)
  BY <1>1, <1>14
<1>16. b[0] = a[0] /\ b[n] = a[n]
  BY <1>1, <1>15
<1>17. ASSUME q = r, u = va PROVE b[n - 1] = t
  <2>1. n - 1 \in 0 .. Levels - 1 /\ (n - 1) + 1 = n
    BY <1>1
  <2>2. b[n] = node /\ node # NONE /\ Index(u, n) = i
    BY <1>16, <1>17 DEF a, node, i
  <2>3. b[n - 1] = L[node][i]
    BY <1>6, <2>1, <2>2
  <2> QED BY <1>2, <1>3, <1>4, <1>5, <2>3
<1> QED BY <1>16, <1>17 DEF a, b, L, node, i, Translate

\* Writing the leaf of a page.
Leaf(E, node, i, f) == [E EXCEPT ![node][i] = f]

\* Setting a leaf changes one entry.
LEMMA LeafEntries ==
  ASSUME NEW E \in Entries, NEW node \in Frames, NEW i \in Indices, NEW f \in Frames
  PROVE  /\ Leaf(E, node, i, f) \in Entries
         /\ \A x \in Tables, j \in Indices :
              Leaf(E, node, i, f)[x][j] = IF x = node /\ j = i THEN f ELSE E[x][j]
         /\ \A x \in Tables : x # node => Leaf(E, node, i, f)[x] = E[x]
<1> DEFINE L == Leaf(E, node, i, f)
<1>1. node \in Tables /\ f \in Tables /\ E \in [Tables -> [Indices -> Tables \cup {NONE}]]
  BY DEF Tables, Entries
<1>2. L = [E EXCEPT ![node] = [E[node] EXCEPT ![i] = f]]
  BY <1>1 DEF Leaf
<1>3. E[node] \in [Indices -> Tables \cup {NONE}]
  BY <1>1
<1> HIDE DEF L
<1>4. [E[node] EXCEPT ![i] = f] \in [Indices -> Tables \cup {NONE}]
  BY <1>1, <1>3
<1>5. L \in Entries
  BY <1>1, <1>2, <1>4 DEF Entries
<1>6. \A x \in Tables : L[x] = IF x = node THEN [E[node] EXCEPT ![i] = f] ELSE E[x]
  BY <1>1, <1>2
<1>7. \A x \in Tables, j \in Indices : L[x][j] = IF x = node /\ j = i THEN f ELSE E[x][j]
  BY <1>1, <1>3, <1>6
<1> QED BY <1>5, <1>6, <1>7 DEF L

\* The tree stays one, whatever the leaf was before.
LEMMA LeafTree ==
  ASSUME NEW E, Tree(E), NEW node \in Frames, NEW i \in Indices, NEW f, Spare(E, f),
         ~Alone(E, node)
  PROVE  /\ Tree(Leaf(E, node, i, f))
         /\ \A q : IsRoot(E, q) /\ q # f => IsRoot(Leaf(E, node, i, f), q)
         /\ \A g : Spare(E, g) /\ g # f => Spare(Leaf(E, node, i, f), g)
<1> DEFINE L == Leaf(E, node, i, f)
<1>1. E \in Entries /\ f \in Frames /\ Frames \subseteq Tables /\ KernelRoot \in Tables
  BY DEF Tree, Spare, Tables
<1>2. /\ L \in Entries
      /\ \A x \in Tables, j \in Indices : L[x][j] = IF x = node /\ j = i THEN f ELSE E[x][j]
      /\ \A x \in Tables : x # node => L[x] = E[x]
  BY <1>1, LeafEntries
<1> HIDE DEF L
<1>3. Alone(E, f)
  BY DEF Spare
<1>4. \A x \in Frames : Alone(E, x) /\ x # f => Alone(L, x)
  BY <1>1, <1>2 DEF Alone
<1>5. Single(L)
  <2> SUFFICES ASSUME NEW x \in Frames, NEW y \in Frames, NEW j \in Indices, NEW k \in Indices,
                      L[x][j] = L[y][k], L[x][j] \in Frames
               PROVE  x = y /\ j = k
    BY DEF Single
  <2>1. CASE x = node /\ j = i
    BY <1>1, <1>2, <1>3, <2>1 DEF Alone
  <2>2. CASE y = node /\ k = i
    BY <1>1, <1>2, <1>3, <2>2 DEF Alone
  <2>3. CASE ~(x = node /\ j = i) /\ ~(y = node /\ k = i)
    <3>1. E[x][j] = E[y][k] /\ E[x][j] \in Frames
      BY <1>1, <1>2, <2>3
    <3> QED BY <3>1 DEF Tree, Single
  <2> QED BY <2>1, <2>2, <2>3
<1>6. KernelApart(L)
  <2>1. ASSUME NEW x \in Frames, NEW j \in Indices
        PROVE  L[x][j] # KernelRoot /\ (L[x][j] = KernelTable => Alone(L, x) /\ j >= Fanout \div 2)
    <3>1. CASE x = node /\ j = i
      BY <1>1, <1>2, <3>1, TableFacts
    <3>2. CASE ~(x = node /\ j = i)
      <4>1. L[x][j] = E[x][j]
        BY <1>1, <1>2, <3>2
      <4>2. x = f => E[x][j] = NONE
        BY DEF Spare, EmptyPage
      <4> QED BY <4>1, <4>2, <1>4, TableFacts DEF Tree, KernelApart
    <3> QED BY <3>1, <3>2
  <2>2. L[KernelRoot] = E[KernelRoot]
    BY <1>1, <1>2, TableFacts
  <2> QED BY <2>1, <2>2 DEF Tree, KernelApart
<1>7. ASSUME NEW q, IsRoot(E, q), q # f PROVE IsRoot(L, q)
  BY <1>1, <1>2, <1>4, <1>7 DEF IsRoot
<1>8. ASSUME NEW g, Spare(E, g), g # f PROVE Spare(L, g)
  BY <1>1, <1>2, <1>4, <1>8 DEF Spare
<1> QED BY <1>2, <1>5, <1>6, <1>7, <1>8 DEF Tree, L

\* It changes the frame of that one page.
LEMMA LeafPaths ==
  ASSUME NEW E, Tree(E), NEW r, IsRoot(E, r), NEW va \in UserPages,
         Path(E, r, va)[1] # NONE,
         NEW f, Spare(E, f), f # r, NEW q, IsRoot(E, q), q # f, NEW u \in UserPages
  PROVE  Translate(Leaf(E, Path(E, r, va)[1], Index(va, 1), f), q, u) =
           IF q = r /\ u = va THEN f ELSE Translate(E, q, u)
<1> DEFINE node == Path(E, r, va)[1]
           i == Index(va, 1)
           L == Leaf(E, node, i, f)
           a == Path(E, q, u)
           b == Path(L, q, u)
<1>1. Levels \in Nat /\ Levels >= 2 /\ u \in Nat /\ va \in Nat /\ NONE \notin Frames
      /\ 1 \in 0 .. Levels /\ 1 \in 1 .. Levels /\ 0 \in 0 .. Levels /\ 0 \in 0 .. Levels - 1
  BY TableFacts
<1>2. node \in Frames /\ i \in Indices
  BY <1>1, PathInTree, IndexRange
<1>3. f \in Frames /\ Alone(E, f) /\ E \in Entries /\ q \in Tables /\ Frames \subseteq Tables
  BY DEF Spare, Tree, IsRoot, Tables
<1>4. /\ L \in Entries
      /\ \A x \in Tables, j \in Indices : L[x][j] = IF x = node /\ j = i THEN f ELSE E[x][j]
  BY <1>2, <1>3, LeafEntries
<1> HIDE DEF L
<1>5. /\ b[Levels] = q
      /\ \A k \in 0 .. Levels - 1 :
           b[k] = IF b[k + 1] = NONE THEN NONE ELSE L[b[k + 1]][Index(u, k + 1)]
  BY <1>1, <1>3, <1>4, PathDef
<1>6. /\ a[Levels] = q
      /\ \A k \in 0 .. Levels - 1 :
           a[k] = IF a[k + 1] = NONE THEN NONE ELSE E[a[k + 1]][Index(u, k + 1)]
      /\ \A k \in 0 .. Levels : a[k] \in Frames \cup {NONE}
  BY <1>1, <1>3, PathDef, PathInTree
<1>7. \A k \in 0 .. Levels : a[k] = node =>
        k = 1 /\ q = r /\ \A m \in k + 1 .. Levels : Index(u, m) = Index(va, m)
  BY <1>1, <1>2, OneWay
<1>8. \A k \in 1 .. Levels : Index(u, k) \in Indices
  BY <1>1, IndexRange
<1> HIDE DEF a, b, node, i
<1> DEFINE S == {k \in 0 .. Levels : k # 0 => b[k] = a[k]}
<1>9. Levels \in S
  BY <1>1, <1>5, <1>6
<1>10. ASSUME NEW k \in 0 .. Levels - 1, k + 1 \in S PROVE k \in S
  <2>1. k \in 0 .. Levels /\ k + 1 \in 0 .. Levels /\ k + 1 \in 1 .. Levels /\ k + 1 # 0
    BY <1>1
  <2>2. b[k + 1] = a[k + 1]
    BY <1>10, <2>1
  <2>3. CASE k = 0
    BY <2>1, <2>3
  <2>4. CASE k # 0
    <3>1. a[k + 1] # node
      BY <1>7, <2>1, <2>4
    <3> DEFINE x == a[k + 1]
               j == Index(u, k + 1)
    <3>2. /\ b[k] = IF x = NONE THEN NONE ELSE L[x][j]
          /\ a[k] = IF x = NONE THEN NONE ELSE E[x][j]
          /\ x \in Frames \cup {NONE} /\ x # node /\ j \in Indices
      BY <1>5, <1>6, <1>8, <2>1, <2>2, <3>1
    <3> HIDE DEF x, j
    <3>3. b[k] = a[k]
      BY <1>3, <1>4, <3>2
    <3> QED BY <2>1, <3>3
  <2> QED BY <2>3, <2>4
<1> HIDE DEF S
<1>11. 1 \in S
  <2>1. 0 .. Levels \subseteq S
    BY <1>1, <1>9, <1>10, Descent
  <2> QED BY <2>1, <1>1
<1>12. b[1] = a[1]
  BY <1>11 DEF S
<1>13. /\ b[0] = IF a[1] = NONE THEN NONE ELSE L[a[1]][Index(u, 1)]
       /\ a[0] = IF a[1] = NONE THEN NONE ELSE E[a[1]][Index(u, 1)]
       /\ a[1] \in Frames \cup {NONE} /\ Index(u, 1) \in Indices
  BY <1>1, <1>5, <1>6, <1>8, <1>12
<1>14. CASE q = r /\ u = va
  <2>1. a[1] = node /\ Index(u, 1) = i /\ node # NONE
    BY <1>14 DEF a, node, i
  <2>2. b[0] = f
    BY <1>2, <1>3, <1>4, <1>13, <2>1
  <2> QED BY <1>14, <2>2 DEF b, L, node, i, Translate
<1>15. CASE ~(q = r /\ u = va)
  <2>1. ~(a[1] = node /\ Index(u, 1) = i)
    <3> SUFFICES ASSUME a[1] = node, Index(u, 1) = i PROVE FALSE
      OBVIOUS
    <3>1. q = r /\ \A m \in 2 .. Levels : Index(u, m) = Index(va, m)
      BY <1>1, <1>7
    <3>2. \A m \in 1 .. Levels : m = 1 \/ m \in 2 .. Levels
      OBVIOUS
    <3>3. \A m \in 1 .. Levels : Index(u, m) = Index(va, m)
      BY <3>1, <3>2 DEF i
    <3>4. u = va
      BY <3>3, SamePage
    <3> QED BY <1>15, <3>1, <3>4
  <2>2. b[0] = a[0]
    BY <1>3, <1>4, <1>13, <2>1
  <2> QED BY <1>15, <2>2 DEF a, b, L, node, i, Translate
<1> QED BY <1>14, <1>15

\* A free frame that becomes the root of a new space.
Rooted(E, t, from) ==
  [E EXCEPT ![t] = [i \in Indices |-> IF i >= Fanout \div 2 THEN E[from][i] ELSE NONE]]

\* A new root with the kernel's upper half leaves a tree, and all ways in it.
LEMMA RootedTree ==
  ASSUME NEW E, Tree(E), NEW t, Spare(E, t), NEW from, from = KernelRoot \/ IsRoot(E, from)
  PROVE  /\ Tree(Rooted(E, t, from))
         /\ IsRoot(Rooted(E, t, from), t)
         /\ \A q : IsRoot(E, q) /\ q # t =>
              /\ IsRoot(Rooted(E, t, from), q)
              /\ \A u \in UserPages : Translate(Rooted(E, t, from), q, u) = Translate(E, q, u)
         /\ \A g : Spare(E, g) /\ g # t => Spare(Rooted(E, t, from), g)
<1> DEFINE L == Rooted(E, t, from)
           half == [i \in Indices |-> IF i >= Fanout \div 2 THEN E[from][i] ELSE NONE]
<1>1. E \in Entries /\ t \in Frames /\ Frames \subseteq Tables /\ KernelRoot \in Tables
      /\ from \in Tables /\ Alone(E, t)
  BY DEF Tree, Spare, Tables, IsRoot
<1>2. \A i \in Indices : /\ half[i] \in {NONE, KernelTable}
                         /\ half[i] = KernelTable => i >= Fanout \div 2
  <2> TAKE i \in Indices
  <2>1. E[from][i] \in Tables \cup {NONE}
    BY <1>1 DEF Entries
  <2>2. i >= Fanout \div 2 => E[from][i] \in {NONE, KernelTable}
    BY <2>1, TableFacts DEF Tree, KernelApart, IsRoot, Tables
  <2> QED BY <2>2, TableFacts
<1>3. half \in [Indices -> Tables \cup {NONE}]
  BY <1>2 DEF Tables
<1>4. L = [E EXCEPT ![t] = half]
  BY DEF Rooted
<1> HIDE DEF L, half
<1>5. /\ L \in Entries
      /\ L[t] = half
      /\ \A x \in Tables : x # t => L[x] = E[x]
  BY <1>1, <1>3, <1>4 DEF Entries
<1>6. \A x \in Frames : Alone(E, x) => Alone(L, x)
  BY <1>1, <1>2, <1>5, TableFacts DEF Alone
<1>7. Single(L)
  <2> SUFFICES ASSUME NEW x \in Frames, NEW y \in Frames, NEW j \in Indices, NEW k \in Indices,
                      L[x][j] = L[y][k], L[x][j] \in Frames
               PROVE  x = y /\ j = k
    BY DEF Single
  <2>1. x # t /\ y # t
    BY <1>2, <1>5, TableFacts
  <2>2. E[x][j] = E[y][k] /\ E[x][j] \in Frames
    BY <1>1, <1>5, <2>1
  <2> QED BY <2>2 DEF Tree, Single
<1>8. KernelApart(L)
  <2>1. ASSUME NEW x \in Frames, NEW j \in Indices
        PROVE  L[x][j] # KernelRoot /\ (L[x][j] = KernelTable => Alone(L, x) /\ j >= Fanout \div 2)
    <3>1. CASE x = t
      BY <1>1, <1>2, <1>5, <1>6, <3>1, TableFacts
    <3>2. CASE x # t
      BY <1>1, <1>5, <1>6, <3>2 DEF Tree, KernelApart
    <3> QED BY <3>1, <3>2
  <2>2. L[KernelRoot] = E[KernelRoot]
    BY <1>1, <1>5, TableFacts
  <2> QED BY <2>1, <2>2 DEF Tree, KernelApart
<1>9. IsRoot(L, t)
  BY <1>1, <1>2, <1>5, <1>6, TableFacts DEF IsRoot
<1>10. ASSUME NEW q, IsRoot(E, q), q # t PROVE IsRoot(L, q)
  BY <1>1, <1>5, <1>6, <1>10 DEF IsRoot
<1>11. ASSUME NEW g, Spare(E, g), g # t PROVE Spare(L, g)
  BY <1>1, <1>5, <1>6, <1>11 DEF Spare
<1>12. ASSUME NEW q, IsRoot(E, q), q # t, NEW u \in UserPages
       PROVE  Translate(L, q, u) = Translate(E, q, u)
  <2> DEFINE a == Path(E, q, u)
             b == Path(L, q, u)
  <2>1. Levels \in Nat /\ u \in Nat /\ q \in Tables
    BY <1>1, <1>12, TableFacts DEF IsRoot
  <2>2. /\ b[Levels] = q
        /\ \A k \in 0 .. Levels - 1 :
             b[k] = IF b[k + 1] = NONE THEN NONE ELSE L[b[k + 1]][Index(u, k + 1)]
    BY <1>5, <2>1, PathDef
  <2>3. /\ a[Levels] = q
        /\ \A k \in 0 .. Levels - 1 :
             a[k] = IF a[k + 1] = NONE THEN NONE ELSE E[a[k + 1]][Index(u, k + 1)]
        /\ \A k \in 0 .. Levels : a[k] \in Frames \cup {NONE}
    BY <1>1, <1>12, <2>1, PathDef, PathInTree
  <2>4. \A k \in 0 .. Levels : a[k] # t
    BY <1>1, <1>12, OffTheWay
  <2> HIDE DEF a, b
  <2> DEFINE S == {k \in 0 .. Levels : b[k] = a[k]}
  <2>5. Levels \in S
    BY <2>1, <2>2, <2>3
  <2>6. ASSUME NEW k \in 0 .. Levels - 1, k + 1 \in S PROVE k \in S
    <3>1. k \in 0 .. Levels /\ k + 1 \in 0 .. Levels /\ b[k + 1] = a[k + 1]
      BY <2>1, <2>6
    <3>2. a[k + 1] = NONE \/ L[a[k + 1]] = E[a[k + 1]]
      BY <1>1, <1>5, <2>3, <2>4, <3>1
    <3>3. b[k] = a[k]
      BY <2>2, <2>3, <3>1, <3>2
    <3> QED BY <3>1, <3>3
  <2> HIDE DEF S
  <2>7. 0 .. Levels \subseteq S
    BY <2>1, <2>5, <2>6, Descent
  <2>8. 0 \in S
    BY <2>1, <2>7
  <2> QED BY <2>8 DEF S, a, b, Translate
<1> QED BY <1>5, <1>7, <1>8, <1>9, <1>10, <1>11, <1>12 DEF Tree, L

-----------------------------------------------------------------------------
(* Mapping a page *)

\* The frame pmm_alloc_page returns is a free one.
LEMMA LowestIsFree ==
  ASSUME NEW P \in SUBSET Frames, P # {}
  PROVE  Lowest(P) \in P
<1> DEFINE R == OpToRel(<, Nat)
<1>1. IsWellFoundedOn(R, Nat)
  BY NatLessThanWellFounded, Zenon DEF R
<1>2. \A x, y \in Nat : <<y, x>> \in R <=> y < x
  BY DEF OpToRel
<1>3. P \subseteq Nat
  BY PageTablesAssumption
<1> HIDE DEF R
<1>4. PICK x \in P : \A y \in P : ~(<<y, x>> \in R)
  BY <1>1, <1>3, WFMin, Zenon
<1>5. \A y \in P : x <= y
  <2> TAKE y \in P
  <2>1. x \in Nat /\ y \in Nat /\ ~(y < x)
    BY <1>2, <1>3, <1>4
  <2> QED BY <2>1
<1> QED BY <1>5 DEF Lowest

\* The walks there are.
Walking == [pool : SUBSET Frames, entry : Entries, node : Tables, ok : BOOLEAN]

\* A step down of a walk is a walk.
LEMMA DownTyped ==
  ASSUME NEW w \in Walking, NEW i \in Indices
  PROVE  Down(w, i) \in Walking
<1>1. w.pool \in SUBSET Frames /\ w.entry \in Entries /\ w.node \in Tables /\ w.ok \in BOOLEAN
  BY DEF Walking
<1>2. w.entry[w.node][i] \in Tables \cup {NONE}
  BY <1>1 DEF Entries
<1>3. CASE ~w.ok
  BY <1>3 DEF Down
<1>4. CASE w.ok /\ w.entry[w.node][i] # NONE
  BY <1>2, <1>4 DEF Down, Walking
<1>5. CASE w.ok /\ w.entry[w.node][i] = NONE /\ w.pool = {}
  BY <1>5 DEF Down, Walking
<1>6. CASE w.ok /\ w.entry[w.node][i] = NONE /\ w.pool # {}
  <2> DEFINE t == Lowest(w.pool)
             half == [w.entry EXCEPT ![t] = EmptyPage]
             row == [half[w.node] EXCEPT ![i] = t]
             e == [half EXCEPT ![w.node] = row]
  <2>1. Down(w, i) = Link(w, i, t)
    BY <1>6 DEF Down
  <2>2. Link(w, i, t) = [w EXCEPT !.pool = @ \ {t}, !.entry = e, !.node = t]
    BY DEF Link
  <2>3. t \in Frames /\ t \in Tables
    BY <1>1, <1>6, LowestIsFree DEF Tables
  <2>4. EmptyPage \in [Indices -> Tables \cup {NONE}]
    BY DEF EmptyPage
  <2>5. half \in Entries
    BY <1>1, <2>3, <2>4 DEF Entries
  <2> HIDE DEF half, t
  <2>6. row \in [Indices -> Tables \cup {NONE}]
    BY <1>1, <2>3, <2>5 DEF Entries
  <2> HIDE DEF row
  <2>7. e \in Entries
    BY <1>1, <2>5, <2>6 DEF Entries
  <2> HIDE DEF e
  <2>8. w.pool \ {t} \in SUBSET Frames
    BY <1>1
  <2> QED BY <1>1, <2>1, <2>2, <2>3, <2>7, <2>8 DEF Walking
<1> QED BY <1>1, <1>3, <1>4, <1>5, <1>6

\* Walks starts at the root, and goes down one level at a time.
LEMMA WalksDef ==
  ASSUME NEW P \in SUBSET Frames, NEW E \in Entries, NEW r \in Tables, NEW va \in Nat
  PROVE  /\ \A n \in 1 .. Levels : Walks(P, E, r, va)[n] \in Walking
         /\ Walks(P, E, r, va)[Levels] = Walk(P, E, r)
         /\ \A n \in 1 .. Levels - 1 :
              Walks(P, E, r, va)[n] = Down(Walks(P, E, r, va)[n + 1], Index(va, n + 1))
<1> DEFINE W0 == Walk(P, E, r)
           Body(at) == [n \in 1 .. Levels |->
                          IF n = Levels THEN W0 ELSE Down(at[n + 1], Index(va, n + 1))]
           h == [n \in 0 .. Levels |->
                  [x \in Walking |-> IF n = Levels THEN x ELSE Down(x, Index(va, n + 1))]]
<1>1. Levels \in Nat /\ 1 \in 0 .. Levels
  BY TableFacts
<1>2. W0 \in Walking
  BY DEF Walk, Walking
<1>3. ASSUME NEW n \in 0 .. Levels, NEW x \in Walking
      PROVE  h[n][x] \in Walking /\ (n # Levels => h[n][x] = Down(x, Index(va, n + 1)))
  <2>1. h[n][x] = IF n = Levels THEN x ELSE Down(x, Index(va, n + 1))
    OBVIOUS
  <2> HIDE DEF h
  <2>2. n # Levels => n + 1 \in 1 .. Levels
    BY <1>1
  <2>3. n # Levels => Index(va, n + 1) \in Indices
    BY <2>2, IndexRange
  <2> QED BY <2>1, <2>3, DownTyped
<1>4. Maps(h, Levels, Walking)
  <2>1. \A n \in 0 .. Levels : h[n] \in [Walking -> Walking]
    <3> TAKE n \in 0 .. Levels
    <3>1. \A x \in Walking : h[n][x] \in Walking
      BY <1>3
    <3>2. h[n] = [x \in Walking |-> h[n][x]]
      OBVIOUS
    <3> HIDE DEF h
    <3> QED BY <3>1, <3>2
  <2>2. h = [n \in 0 .. Levels |-> h[n]]
    OBVIOUS
  <2> HIDE DEF h
  <2> QED BY <2>1, <2>2 DEF Maps
<1> HIDE DEF h, W0
<1>5. PICK f : Follows(f, 1, Levels, Walking, W0, h)
  BY <1>1, <1>2, <1>4, Recursion
<1>6. f \in [1 .. Levels -> Walking] /\ f[Levels] = W0
      /\ \A n \in 1 .. Levels - 1 : f[n] = h[n][f[n + 1]]
  BY <1>5 DEF Follows
<1>7. f = Body(f)
  <2>1. ASSUME NEW n \in 1 .. Levels
        PROVE  f[n] = IF n = Levels THEN W0 ELSE Down(f[n + 1], Index(va, n + 1))
    <3>1. CASE n = Levels
      BY <3>1, <1>6
    <3>2. CASE n # Levels
      <4>1. n \in 1 .. Levels - 1 /\ n + 1 \in 1 .. Levels /\ n \in 0 .. Levels
        BY <3>2, <1>1
      <4>2. f[n] = h[n][f[n + 1]] /\ f[n + 1] \in Walking
        BY <4>1, <1>6
      <4> QED BY <4>1, <4>2, <3>2, <1>3
    <3> QED BY <3>1, <3>2
  <2> QED BY <2>1, <1>6
<1>8. Walks(P, E, r, va) = CHOOSE at : at = Body(at)
  BY DEF Walks, W0
<1>9. Walks(P, E, r, va) = Body(Walks(P, E, r, va))
  <2> HIDE DEF Body
  <2> QED BY <1>7, <1>8, Zenon
<1> DEFINE w == Walks(P, E, r, va)
<1> HIDE DEF w, Body
<1>10. w = Body(w)
  BY <1>9 DEF w
<1>11. /\ w[Levels] = W0
       /\ \A n \in 1 .. Levels - 1 : w[n] = Down(w[n + 1], Index(va, n + 1))
  <2>1. \A n \in 1 .. Levels : w[n] = IF n = Levels THEN W0
                                      ELSE Down(w[n + 1], Index(va, n + 1))
    BY <1>10, Zenon DEF Body
  <2>2. Levels \in 1 .. Levels /\ \A n \in 1 .. Levels - 1 : n \in 1 .. Levels /\ n # Levels
    BY <1>1
  <2> QED BY <2>1, <2>2, Zenon
<1>12. \A n \in 1 .. Levels : w[n] \in Walking
  <2> DEFINE S == {n \in 0 .. Levels : n # 0 => w[n] \in Walking}
  <2>1. Levels \in S
    BY <1>1, <1>2, <1>11
  <2>2. ASSUME NEW n \in 0 .. Levels - 1, n + 1 \in S PROVE n \in S
    <3>1. n + 1 \in 1 .. Levels /\ n \in 0 .. Levels /\ w[n + 1] \in Walking
      BY <2>2, <1>1
    <3>2. CASE n = 0
      BY <3>1, <3>2
    <3>3. CASE n # 0
      <4>1. n \in 1 .. Levels - 1 /\ Index(va, n + 1) \in Indices
        BY <3>1, <3>3, <1>1, IndexRange
      <4>2. w[n] \in Walking
        BY <1>11, <3>1, <4>1, DownTyped
      <4> QED BY <3>1, <4>2
    <3> QED BY <3>2, <3>3
  <2> HIDE DEF S
  <2>3. 0 .. Levels \subseteq S
    BY <1>1, <2>1, <2>2, Descent
  <2> QED BY <2>3, <1>1 DEF S
<1> QED BY <1>11, <1>12 DEF w, W0

\* Before a page is mapped: a tree with its roots R, one of them r, and free
\* frames P, beside the frame f of the page.
MayMap(P, E, R, r, f) ==
  /\ P \subseteq Frames
  /\ Tree(E)
  /\ \A q \in R : IsRoot(E, q) /\ q \notin P /\ q # f
  /\ r \in R
  /\ \A g \in P : Spare(E, g)
  /\ Spare(E, f)
  /\ f \notin P

\* At level n of the walk: its frames are some of those there were, its tables a
\* tree that translates as before, and it has come where the way to va leads.
GoodWalk(w, n, P, E, R, r, va, f) ==
  /\ w \in Walking
  /\ w.pool \subseteq P
  /\ MayMap(w.pool, w.entry, R, r, f)
  /\ \A q \in R : \A u \in UserPages : Translate(w.entry, q, u) = Translate(E, q, u)
  /\ w.ok => /\ w.node = Path(w.entry, r, va)[n]
             /\ w.node \in Frames

\* A step down keeps the walk good: it goes the way to the page, and adds a table
\* only where there was none.
LEMMA DownKeeps ==
  ASSUME NEW P, NEW E, NEW R, NEW r, NEW va \in UserPages, NEW f, NEW w, NEW n \in 2 .. Levels,
         GoodWalk(w, n, P, E, R, r, va, f)
  PROVE  GoodWalk(Down(w, Index(va, n)), n - 1, P, E, R, r, va, f)
<1> DEFINE i == Index(va, n)
           e == w.entry
           d == Down(w, i)
<1>1. Levels \in Nat /\ n \in 1 .. Levels /\ n \in 0 .. Levels /\ n - 1 \in 0 .. Levels - 1
      /\ n - 1 \in 0 .. Levels /\ (n - 1) + 1 = n /\ va \in Nat
      /\ NONE \notin Frames
  BY TableFacts
<1>2. /\ w \in Walking /\ w.pool \subseteq P /\ MayMap(w.pool, e, R, r, f)
      /\ \A q \in R : \A u \in UserPages : Translate(e, q, u) = Translate(E, q, u)
  BY DEF GoodWalk
<1>3. /\ Tree(e) /\ IsRoot(e, r) /\ r \in R /\ w.pool \subseteq Frames
      /\ \A q \in R : IsRoot(e, q) /\ q \notin w.pool /\ q # f
      /\ \A g \in w.pool : Spare(e, g)
      /\ Spare(e, f) /\ f \notin w.pool
  BY <1>2 DEF MayMap
<1>4. i \in Indices
  BY <1>1, IndexRange
<1>5. d \in Walking
  BY <1>2, <1>4, DownTyped
<1>6. CASE ~w.ok
  <2>1. d = w
    BY <1>6 DEF Down
  <2> QED BY <1>2, <1>6, <2>1 DEF GoodWalk
<1>7. CASE w.ok
  <2>1. w.node = Path(e, r, va)[n] /\ w.node \in Frames /\ w.node # NONE
    BY <1>1, <1>7 DEF GoodWalk
  <2>2. CASE e[w.node][i] # NONE
    <3>1. d = [w EXCEPT !.node = e[w.node][i]]
      BY <1>7, <2>2 DEF Down
    <3>2. d.pool = w.pool /\ d.entry = e /\ d.node = e[w.node][i]
      BY <1>2, <3>1 DEF Walking
    <3>3. Path(e, r, va)[n - 1] = e[w.node][i]
      <4>1. e \in Entries /\ r \in Tables
        BY <1>3 DEF Tree, IsRoot, Tables
      <4>2. Path(e, r, va)[n - 1] = IF Path(e, r, va)[(n - 1) + 1] = NONE THEN NONE
              ELSE e[Path(e, r, va)[(n - 1) + 1]][Index(va, (n - 1) + 1)]
        <5>1. \A k \in 0 .. Levels - 1 : Path(e, r, va)[k] =
                IF Path(e, r, va)[k + 1] = NONE THEN NONE
                ELSE e[Path(e, r, va)[k + 1]][Index(va, k + 1)]
          BY <1>1, <4>1, PathDef
        <5> HIDE DEF e
        <5> QED BY <1>1, <5>1, Zenon
      <4> QED BY <1>1, <2>1, <4>2
    <3>4. e[w.node][i] \in Frames
      BY <1>1, <1>3, <2>2, <3>3, PathInTree
    <3> HIDE DEF d, e, i
    <3>5. MayMap(d.pool, d.entry, R, r, f) /\ d.pool \subseteq P
      BY <1>2, <3>2
    <3>6. d.node = Path(d.entry, r, va)[n - 1] /\ d.node \in Frames
      BY <3>2, <3>3, <3>4
    <3>7. \A q \in R : \A u \in UserPages : Translate(d.entry, q, u) = Translate(E, q, u)
      BY <1>2, <3>2
    <3>8. GoodWalk(d, n - 1, P, E, R, r, va, f)
      BY <1>5, <3>5, <3>6, <3>7 DEF GoodWalk
    <3> QED BY <3>8 DEF d, i
  <2>3. CASE e[w.node][i] = NONE /\ w.pool = {}
    <3>1. d = [w EXCEPT !.ok = FALSE]
      BY <1>7, <2>3 DEF Down
    <3>2. d.pool = w.pool /\ d.entry = e /\ ~d.ok
      BY <1>2, <3>1 DEF Walking
    <3> HIDE DEF d, e, i
    <3>3. GoodWalk(d, n - 1, P, E, R, r, va, f)
      BY <1>2, <1>5, <3>2 DEF GoodWalk
    <3> QED BY <3>3 DEF d, i
  <2>4. CASE e[w.node][i] = NONE /\ w.pool # {}
    <3> DEFINE t == Lowest(w.pool)
               L == Linked(e, w.node, i, t)
    <3>1. d = Link(w, i, t)
      BY <1>7, <2>4 DEF Down
    <3>2. d.pool = w.pool \ {t} /\ d.entry = L /\ d.node = t
      BY <1>2, <3>1 DEF Link, Linked, Walking
    <3>3. t \in w.pool /\ t \in Frames
      BY <1>3, <2>4, LowestIsFree
    <3> HIDE DEF t
    <3>4. Spare(e, t) /\ t \notin R /\ t # f /\ Alone(e, t)
      BY <1>3, <3>3 DEF Spare
    <3>5. t # r /\ t # w.node
      BY <1>1, <1>3, <2>1, <3>3, <3>4, OffTheWay
    <3>6. w.node = r \/ ~Alone(e, w.node)
      <4>1. CASE n = Levels
        BY <1>3, <2>1, <4>1, PathInTree
      <4>2. CASE n # Levels
        <5>1. n \in 0 .. Levels - 1
          BY <1>1, <4>2
        <5> QED BY <1>3, <2>1, <5>1, PathInTree
      <4> QED BY <4>1, <4>2
    <3>7. ~Alone(e, w.node) \/ i < Fanout \div 2
      <4>1. CASE n = Levels
        BY <1>1, <4>1, IndexRange
      <4>2. CASE n # Levels
        <5>1. n \in 0 .. Levels - 1
          BY <1>1, <4>2
        <5> QED BY <1>3, <2>1, <5>1, PathInTree
      <4> QED BY <4>1, <4>2
    <3>8. /\ Tree(L)
          /\ \A q : IsRoot(e, q) /\ q # t => IsRoot(L, q)
          /\ \A g : Spare(e, g) /\ g # t /\ g # w.node => Spare(L, g)
      BY <1>3, <1>4, <2>1, <2>4, <3>4, <3>5, <3>7, LinkedTree
    <3>9. \A g \in w.pool \cup {f} : g # w.node
      <4>1. \A g \in w.pool \cup {f} : Spare(e, g) /\ g # r
        BY <1>3
      <4> QED BY <3>6, <4>1 DEF Spare
    <3>10. ASSUME NEW q \in R, NEW u \in UserPages
           PROVE  /\ Translate(L, q, u) = Translate(e, q, u)
                  /\ q = r /\ u = va => Path(L, q, u)[n - 1] = t
      <4>1. IsRoot(e, q) /\ q # t
        BY <1>3, <3>4
      <4> HIDE DEF L, e, i
      <4> QED BY <1>3, <2>1, <2>4, <3>4, <3>5, <4>1, LinkedPaths DEF L, i
    <3> HIDE DEF L
    <3>11. MayMap(w.pool \ {t}, L, R, r, f)
      <4>1. \A g \in w.pool \ {t} : Spare(L, g)
        BY <1>3, <3>8, <3>9
      <4>2. Spare(L, f)
        BY <1>3, <3>4, <3>8, <3>9
      <4>3. \A q \in R : IsRoot(L, q) /\ q \notin w.pool \ {t} /\ q # f
        BY <1>3, <3>4, <3>8
      <4> QED BY <1>3, <3>8, <4>1, <4>2, <4>3 DEF MayMap
    <3>12. \A q \in R : \A u \in UserPages : Translate(L, q, u) = Translate(E, q, u)
      BY <1>2, <3>10
    <3>13. Path(L, r, va)[n - 1] = t
      BY <1>3, <3>10
    <3> HIDE DEF d, e, i
    <3>14. GoodWalk(d, n - 1, P, E, R, r, va, f)
      BY <1>2, <1>5, <3>2, <3>3, <3>11, <3>12, <3>13 DEF GoodWalk
    <3> QED BY <3>14 DEF d, i
  <2> QED BY <2>2, <2>3, <2>4
<1> QED BY <1>6, <1>7, <1>2 DEF Walking

\* What mapping a page comes to: frames are taken that were free, the tables stay
\* a tree, and the translation of that page changes only; if the walk fails, none.
PageMapped(m, P, E, R, r, va, f) ==
  /\ m.pool \subseteq P
  /\ Tree(m.entry)
  /\ \A q \in R : IsRoot(m.entry, q)
  /\ \A g \in m.pool : Spare(m.entry, g)
  /\ \A q \in R : \A u \in UserPages :
       Translate(m.entry, q, u) =
         IF m.ok /\ q = r /\ u = va THEN f ELSE Translate(E, q, u)

\* Mapping a page changes its own translation, and no other.
LEMMA MapKeeps ==
  ASSUME NEW P, NEW E, NEW R, NEW r, NEW va \in UserPages, NEW f, MayMap(P, E, R, r, f)
  PROVE  PageMapped(MapPage(P, E, r, va, f), P, E, R, r, va, f)
<1> DEFINE w == Walks(P, E, r, va)
           m == MapPage(P, E, r, va, f)
           Good(x, n) == GoodWalk(x, n, P, E, R, r, va, f)
<1>1. Levels \in Nat /\ Levels >= 2 /\ va \in Nat /\ NONE \notin Frames /\ 1 \in 1 .. Levels
      /\ 1 \in 0 .. Levels - 1 /\ 0 \in 0 .. Levels
  BY TableFacts
<1>2. /\ P \in SUBSET Frames /\ Tree(E) /\ E \in Entries /\ r \in R /\ IsRoot(E, r)
      /\ r \in Frames /\ r \in Tables
  BY DEF MayMap, Tree, IsRoot, Tables
<1>3. /\ \A n \in 1 .. Levels : w[n] \in Walking
      /\ w[Levels] = Walk(P, E, r)
      /\ \A n \in 1 .. Levels - 1 : w[n] = Down(w[n + 1], Index(va, n + 1))
  BY <1>1, <1>2, WalksDef
<1> HIDE DEF w
<1>4. Good(w[Levels], Levels)
  <2>1. /\ w[Levels].pool = P /\ w[Levels].entry = E /\ w[Levels].node = r
        /\ w[Levels] \in Walking
    BY <1>1, <1>3 DEF Walk
  <2>2. Path(E, r, va)[Levels] = r
    BY <1>2, PathInTree
  <2> QED BY <1>2, <2>1, <2>2 DEF GoodWalk
<1> DEFINE S == {n \in 0 .. Levels : n # 0 => Good(w[n], n)}
<1>5. Levels \in S
  BY <1>1, <1>4
<1>6. ASSUME NEW n \in 0 .. Levels - 1, n + 1 \in S PROVE n \in S
  <2>1. n \in 0 .. Levels /\ Good(w[n + 1], n + 1)
    BY <1>1, <1>6
  <2>2. CASE n = 0
    BY <2>1, <2>2
  <2>3. CASE n # 0
    <3>1. n \in 1 .. Levels - 1 /\ n + 1 \in 2 .. Levels /\ (n + 1) - 1 = n
      BY <1>1, <2>3
    <3>2. Good(Down(w[n + 1], Index(va, n + 1)), (n + 1) - 1)
      BY <2>1, <3>1, DownKeeps
    <3>3. Good(w[n], n)
      BY <1>3, <3>1, <3>2
    <3> QED BY <2>1, <3>3
  <2> QED BY <2>2, <2>3
<1> HIDE DEF S
<1>7. Good(w[1], 1)
  <2>1. 0 .. Levels \subseteq S
    BY <1>1, <1>5, <1>6, Descent
  <2>2. 1 \in S
    BY <1>1, <2>1
  <2> QED BY <2>2 DEF S
<1> DEFINE last == w[1]
           e == last.entry
           i == Index(va, 1)
<1>8. m = IF last.ok THEN [last EXCEPT !.entry[last.node][i] = f] ELSE last
  BY DEF MapPage, w
<1> HIDE DEF m, last
<1>9. /\ last \in Walking /\ last.pool \subseteq P /\ Tree(e)
      /\ \A q \in R : IsRoot(e, q) /\ q # f
      /\ r \in R /\ IsRoot(e, r)
      /\ \A g \in last.pool : Spare(e, g)
      /\ Spare(e, f) /\ f \notin last.pool
      /\ \A q \in R : \A u \in UserPages : Translate(e, q, u) = Translate(E, q, u)
      /\ last.ok => last.node = Path(e, r, va)[1] /\ last.node \in Frames
  BY <1>7 DEF GoodWalk, MayMap, last
<1>10. CASE ~last.ok
  <2>1. m = last
    BY <1>8, <1>10
  <2> QED BY <1>9, <1>10, <2>1 DEF m, PageMapped
<1>11. CASE last.ok
  <2> DEFINE L == Leaf(e, last.node, i, f)
  <2>1. m = [last EXCEPT !.entry = L]
    BY <1>8, <1>11 DEF Leaf
  <2>2. m.pool = last.pool /\ m.entry = L /\ m.ok
    BY <1>9, <1>11, <2>1 DEF Walking
  <2>3. i \in Indices
    BY <1>1, IndexRange
  <2>4. last.node \in Frames /\ last.node = Path(e, r, va)[1] /\ last.node # NONE
    BY <1>1, <1>9, <1>11
  <2>5. ~Alone(e, last.node)
    BY <1>1, <1>9, <2>4, PathInTree
  <2> HIDE DEF e, i
  <2>6. /\ Tree(L)
        /\ \A q : IsRoot(e, q) /\ q # f => IsRoot(L, q)
        /\ \A g : Spare(e, g) /\ g # f => Spare(L, g)
    BY <1>9, <2>3, <2>4, <2>5, LeafTree
  <2>7. ASSUME NEW q \in R, NEW u \in UserPages
        PROVE  Translate(L, q, u) = IF q = r /\ u = va THEN f ELSE Translate(e, q, u)
    BY <1>9, <2>4, LeafPaths DEF i
  <2> HIDE DEF L
  <2>8. \A g \in m.pool : Spare(m.entry, g)
    BY <1>9, <2>2, <2>6
  <2>9. \A q \in R : IsRoot(m.entry, q)
    BY <1>9, <2>2, <2>6
  <2>10. \A q \in R : \A u \in UserPages :
              Translate(m.entry, q, u) =
                IF m.ok /\ q = r /\ u = va THEN f ELSE Translate(E, q, u)
    BY <1>9, <2>2, <2>7
  <2> QED BY <1>9, <2>2, <2>6, <2>8, <2>9, <2>10 DEF m, PageMapped
<1> QED BY <1>10, <1>11, <1>9 DEF Walking

-----------------------------------------------------------------------------
(* The invariant *)

\* The roots in use: those of processes, and that of the operation under way.
Owned == {s.root : s \in spaces} \cup (IF job.op = "idle" THEN {} ELSE {job.root})

\* All that is below break b are user pages.
Bounded(b) == 0 .. PageUp(b) - 1 \subseteq UserPages

JobTyped ==
  job \in [op : {"idle", "stack", "load", "brk"}, root : Frames \cup {NONE},
           next : Nat, last : UserPages, todo : Seq(Segment), brk : Nat, source : Nat]

\* The tables are a tree, whose roots are owned; free frames are not in it.
Apart ==
  /\ Tree(entry)
  /\ \A f \in pool : Spare(entry, f)
  /\ \A r \in Owned : IsRoot(entry, r) /\ r \notin pool

\* Processes have spaces of their own, one of them the one in use.
Current ==
  /\ \A s, t \in spaces : s.root = t.root => s = t
  /\ \A s \in spaces : Bounded(s.brk)
  /\ spaces # {} => \E s \in spaces : s.root = cr3
  /\ spaces = {} => tlb = {}

\* A space is built beside those of the processes; a break that goes up has come
\* from where it was to the next page.
Working ==
  /\ job.op \in {"stack", "load"} =>
       /\ \A s \in spaces : s.root # job.root
       /\ Bounded(job.brk)
       /\ job.brk = (job.brk \div PageSize) * PageSize
  /\ job.op = "brk" =>
       /\ spaces # {}
       /\ job.root = cr3
       /\ job.last < StackBottom
       /\ PageUp(job.brk) = job.last + 1
       /\ \A s \in spaces : s.root = cr3 =>
            /\ PageUp(s.brk) <= job.next
            /\ \A va \in PageUp(s.brk) .. job.next - 1 : Translate(entry, cr3, va) # NONE
       /\ job.next <= job.last + 1

\* The CPU's translations are those of the tables, also while they change.
Coherent == \A t \in tlb : Translate(entry, cr3, t[1]) = t[2]

Inv == TypeOK /\ JobTyped /\ Apart /\ Current /\ Working /\ HeapMapped /\ Coherent

-----------------------------------------------------------------------------
(* Pages and breaks *)

\* The pages of programs: from 0 up to the stack and beyond.
LEMMA UserPagesFacts ==
  /\ \A a \in UserPages, b \in Nat : b <= a => b \in UserPages
  /\ 0 \in UserPages
  /\ StackTop \in Nat /\ StackBottom \in Nat /\ StackBottom < StackTop
  /\ StackTop \in UserPages /\ Stack \subseteq UserPages
  /\ PageSize \in Nat /\ PageSize > 0 /\ Sources \in Nat /\ Sources > 0
<1> DEFINE top == (Fanout \div 2) * Span[Levels - 1] - 1
<1>1. top \in Int
  <2>1. Levels - 1 \in 0 .. Levels
    BY TableFacts
  <2>2. Span[Levels - 1] \in Nat /\ Fanout \div 2 \in Nat
    BY <2>1, TableFacts, SpanDef
  <2>3. \A x, y \in Nat : x * y - 1 \in Int
    OBVIOUS
  <2> QED BY <2>2, <2>3
<1>2. UserPages = 0 .. top
  BY DEF UserPages
<1> HIDE DEF top
<1>3. \A a \in UserPages, b \in Nat : b <= a => b \in UserPages
  BY <1>1, <1>2
<1>4. StackTop \in Nat /\ StackTop \in UserPages /\ StackPages \in 1 .. StackTop
  BY TableFacts, UserMemoryAssumption
<1>5. StackBottom \in Nat /\ StackBottom < StackTop
  BY <1>4 DEF StackBottom
<1>6. Stack \subseteq UserPages
  BY <1>3, <1>4, <1>5 DEF Stack
<1> QED BY <1>3, <1>4, <1>5, <1>6, UserMemoryAssumption

\* Rounding an address up to a page.
LEMMA PageUpFacts ==
  /\ \A a \in Nat : PageUp(a) \in Nat /\ (a > 0 => PageUp(a) > 0)
  /\ \A a, b \in Nat : a <= b => PageUp(a) <= PageUp(b)
  /\ \A k \in Nat : /\ k * PageSize \in Nat
                    /\ PageUp(k * PageSize) = k
                    /\ (k * PageSize) \div PageSize = k
  /\ \A a, k \in Nat : a < k * PageSize => PageUp(a) <= k
<1> DEFINE p == PageSize
<1>1. p \in Nat /\ p > 0
  BY UserPagesFacts
<1> HIDE DEF p
<1>2. \A x \in Nat : /\ x \div p \in Nat
                     /\ (x \div p) * p <= x /\ x < (x \div p) * p + p
  BY <1>1
<1>3. \A k \in Nat : k * p \in Nat
  BY <1>1
<1>4. \A j, k \in Nat : k < j => k * p + p <= j * p
  <2>1. \A y \in Nat, j, k \in Nat : k < j => k * y + y <= j * y
    OBVIOUS
  <2> QED BY <1>1, <2>1
<1>5. ASSUME NEW x \in Nat, NEW k \in Nat, k * p <= x, x < k * p + p
      PROVE  x \div p = k
  <2> DEFINE q == x \div p
  <2>1. q \in Nat /\ q * p <= x /\ x < q * p + p /\ q * p \in Nat /\ k * p \in Nat
    BY <1>2, <1>3
  <2> HIDE DEF q
  <2>2. ~(q < k)
    <3> SUFFICES ASSUME q < k PROVE FALSE
      OBVIOUS
    <3>1. q * p + p <= k * p
      BY <1>4, <2>1
    <3> QED BY <1>1, <1>5, <2>1, <3>1
  <2>3. ~(k < q)
    <3> SUFFICES ASSUME k < q PROVE FALSE
      OBVIOUS
    <3>1. k * p + p <= q * p
      BY <1>4, <2>1
    <3> QED BY <1>1, <1>5, <2>1, <3>1
  <2>4. q = k
    BY <2>1, <2>2, <2>3
  <2> QED BY <2>4 DEF q
<1>6. ASSUME NEW a \in Nat, NEW k \in Nat, a <= k * p
      PROVE  (a + p - 1) \div p <= k
  <2> DEFINE q == (a + p - 1) \div p
  <2>1. a + p - 1 \in Nat
    BY <1>1
  <2>2. q \in Nat /\ q * p <= a + p - 1 /\ q * p \in Nat /\ k * p \in Nat
    BY <1>2, <1>3, <2>1
  <2> HIDE DEF q
  <2>3. ~(k < q)
    <3> SUFFICES ASSUME k < q PROVE FALSE
      OBVIOUS
    <3>1. k * p + p <= q * p
      BY <1>4, <2>2
    <3> QED BY <1>1, <1>6, <2>2, <3>1
  <2>4. q <= k
    BY <2>2, <2>3
  <2> QED BY <2>4 DEF q
<1>7. \A a \in Nat : PageUp(a) = (a + p - 1) \div p
  BY DEF PageUp, p
<1>8. \A a \in Nat : PageUp(a) \in Nat /\ (a > 0 => PageUp(a) > 0)
  <2> TAKE a \in Nat
  <2>1. a + p - 1 \in Nat
    BY <1>1
  <2> DEFINE q == (a + p - 1) \div p
  <2>2. q \in Nat /\ a + p - 1 < q * p + p
    BY <1>2, <2>1
  <2>3. q = 0 => q * p = 0
    BY <1>1
  <2> HIDE DEF q
  <2>4. a > 0 => q > 0
    BY <1>1, <2>2, <2>3
  <2> QED BY <1>7, <2>2, <2>4 DEF q
<1>9. ASSUME NEW a \in Nat, NEW b \in Nat, a <= b
      PROVE  PageUp(a) <= PageUp(b)
  <2> DEFINE k == (b + p - 1) \div p
  <2>1. b + p - 1 \in Nat
    BY <1>1
  <2>2. k \in Nat /\ b + p - 1 < k * p + p /\ k * p \in Nat
    BY <1>2, <1>3, <2>1
  <2> HIDE DEF k
  <2>3. a <= k * p
    BY <1>1, <1>9, <2>2
  <2>4. (a + p - 1) \div p <= k
    BY <1>6, <2>2, <2>3
  <2> QED BY <1>7, <2>4 DEF k
<1>10. ASSUME NEW k \in Nat
       PROVE  PageUp(k * p) = k /\ (k * p) \div p = k
  <2>1. k * p \in Nat /\ k * p + p - 1 \in Nat
    BY <1>1, <1>3
  <2>2. (k * p) \div p = k
    BY <1>1, <1>5, <2>1
  <2> DEFINE x == k * p + p - 1
  <2>3. x \in Nat /\ k * p <= x /\ x < k * p + p
    BY <1>1, <2>1
  <2> HIDE DEF x
  <2>4. x \div p = k
    BY <1>5, <2>3
  <2> QED BY <1>7, <2>1, <2>2, <2>4 DEF x
<1>11. ASSUME NEW a \in Nat, NEW k \in Nat, a < k * p
       PROVE  PageUp(a) <= k
  <2>1. a <= k * p
    BY <1>3, <1>11
  <2> QED BY <1>6, <1>7, <2>1
<1> QED BY <1>3, <1>8, <1>9, <1>10, <1>11 DEF p

-----------------------------------------------------------------------------
(* What the actions share *)

\* No operation under way is a job.
LEMMA IdleTyped ==
  ASSUME job' = Idle
  PROVE  JobTyped' /\ job'.op = "idle" /\ job'.next = 0 /\ job'.last = 0
<1>1. <<>> \in Seq(Segment)
  OBVIOUS
<1> QED BY <1>1, UserPagesFacts DEF JobTyped, Idle

\* A source is loaded into the space that was built, from its first segment on.
LEMMA LoadSourceEffect ==
  ASSUME JobTyped, LoadSource
  PROVE  /\ JobTyped'
         /\ job'.op = "load" /\ job'.root = job.root /\ job'.brk = 0
         /\ job'.next = 1 /\ job'.last = 0
<1>1. PICK p \in Programs, n \in job.source + 1 .. Sources :
        job' = [Idle EXCEPT !.op = "load", !.root = job.root, !.next = 1, !.last = 0,
                            !.todo = p, !.source = n]
  BY DEF LoadSource
<1>2. job' = [op |-> "load", root |-> job.root, next |-> 1, last |-> 0, todo |-> p,
              brk |-> 0, source |-> n]
  BY <1>1 DEF Idle
<1>3. p \in Seq(Segment)
  BY UserMemoryAssumption
<1>4. job.source \in Nat /\ job.root \in Frames \cup {NONE} /\ n \in Nat
  BY UserPagesFacts DEF JobTyped
<1> QED BY <1>2, <1>3, <1>4, UserPagesFacts DEF JobTyped

\* Nothing is below a break at 0.
LEMMA BoundedZero == Bounded(0) /\ 0 = (0 \div PageSize) * PageSize
<1>1. PageUp(0) = 0 /\ 0 \div PageSize = 0
  <2>1. 0 * PageSize = 0
    BY UserPagesFacts
  <2> QED BY <2>1, PageUpFacts
<1>2. 0 .. PageUp(0) - 1 = {}
  BY <1>1
<1> QED BY <1>1, <1>2, UserPagesFacts DEF Bounded

\* A lower break has fewer pages below it.
LEMMA BoundedBelow ==
  ASSUME NEW a \in Nat, NEW b \in Nat, a <= b, Bounded(b)
  PROVE  Bounded(a) /\ 0 .. PageUp(a) - 1 \subseteq 0 .. PageUp(b) - 1
<1>1. PageUp(a) \in Nat /\ PageUp(b) \in Nat /\ PageUp(a) <= PageUp(b)
  BY PageUpFacts
<1>2. 0 .. PageUp(a) - 1 \subseteq 0 .. PageUp(b) - 1
  BY <1>1
<1> QED BY <1>2 DEF Bounded

\* An operation that fails gives its space up, or loads the next source into it.
LEMMA FailEffect ==
  ASSUME JobTyped, Working, Fail, job.op # "idle", UNCHANGED spaces
  PROVE  /\ JobTyped'
         /\ job'.next \in Nat /\ job'.last \in UserPages
         /\ Owned' \subseteq Owned
         /\ Working'
<1>1. CASE job' = Idle
  <2>1. JobTyped' /\ job'.op = "idle"
    BY <1>1, IdleTyped
  <2>2. Owned' \subseteq Owned
    BY <2>1 DEF Owned
  <2> QED BY <2>1, <2>2 DEF Working, JobTyped
<1>2. CASE job.op = "load" /\ LoadSource
  <2>1. JobTyped' /\ job'.op = "load" /\ job'.root = job.root /\ job'.brk = 0
    BY <1>2, LoadSourceEffect
  <2>2. Owned' \subseteq Owned
    BY <1>2, <2>1 DEF Owned
  <2>3. Working'
    <3>1. Bounded(job'.brk) /\ job'.brk = (job'.brk \div PageSize) * PageSize
      BY <2>1, BoundedZero
    <3>2. Bounded(job.brk)' <=> Bounded(job'.brk)
      BY DEF Bounded, PageUp
    <3> QED BY <1>2, <2>1, <3>1, <3>2 DEF Working
  <2> QED BY <2>1, <2>2, <2>3 DEF JobTyped
<1> QED BY <1>1, <1>2 DEF Fail

\* As long as the tables and the pool stay, so does what was apart.
LEMMA ApartKeeps ==
  ASSUME Apart, UNCHANGED <<pool, entry>>, Owned' \subseteq Owned
  PROVE  Apart'
BY DEF Apart

\* The page that is mapped next is a user page, and may be mapped.
LEMMA NextMayMap ==
  ASSUME Inv, Mapping, pool # {}
  PROVE  LET f == Lowest(pool) IN
         /\ job.next \in UserPages
         /\ f \in pool /\ f \in Frames
         /\ MayMap(pool \ {f}, entry, Owned, job.root, f)
<1>1. JobTyped /\ TypeOK /\ Apart
  BY DEF Inv
<1>2. job.next \in Nat /\ job.last \in UserPages /\ job.next <= job.last /\ job.op # "idle"
  BY <1>1 DEF JobTyped, Mapping
<1>3. job.next \in UserPages
  BY <1>2, UserPagesFacts
<1>4. pool \subseteq Frames /\ Lowest(pool) \in pool
  BY <1>1, LowestIsFree DEF TypeOK
<1>5. job.root \in Owned
  BY <1>2 DEF Owned
<1> DEFINE f == Lowest(pool)
<1> HIDE DEF f
<1>6. MayMap(pool \ {f}, entry, Owned, job.root, f)
  BY <1>1, <1>4, <1>5 DEF Apart, MayMap, f
<1> QED BY <1>3, <1>4, <1>6 DEF f

\* What the walk for the next page does, whether it comes to the page or not.
LEMMA MappedEffect ==
  ASSUME Inv, Mapping, pool # {}
  PROVE  /\ job.next \in UserPages
         /\ Mapped.pool \subseteq pool
         /\ Tree(Mapped.entry)
         /\ \A q \in Owned : IsRoot(Mapped.entry, q) /\ q \notin Mapped.pool
         /\ \A g \in Mapped.pool : Spare(Mapped.entry, g)
         /\ \A q \in Owned : \A u \in UserPages :
              ~(Mapped.ok /\ q = job.root /\ u = job.next) =>
                 Translate(Mapped.entry, q, u) = Translate(entry, q, u)
         /\ Mapped.ok => Translate(Mapped.entry, job.root, job.next) # NONE
<1> DEFINE f == Lowest(pool)
           P == pool \ {f}
           m == MapPage(P, entry, job.root, job.next, f)
<1>1. job.next \in UserPages /\ f \in Frames /\ MayMap(P, entry, Owned, job.root, f)
  BY NextMayMap
<1>2. Mapped = m
  BY DEF Mapped
<1> HIDE DEF f, P
<1>3. PageMapped(m, P, entry, Owned, job.root, job.next, f)
  BY <1>1, MapKeeps
<1>4. /\ m.pool \subseteq P
      /\ Tree(m.entry)
      /\ \A q \in Owned : IsRoot(m.entry, q)
      /\ \A g \in m.pool : Spare(m.entry, g)
      /\ \A q \in Owned : \A u \in UserPages :
           Translate(m.entry, q, u) =
             IF m.ok /\ q = job.root /\ u = job.next THEN f ELSE Translate(entry, q, u)
  BY <1>3 DEF PageMapped
<1> HIDE DEF m
<1>5. P \subseteq pool /\ \A q \in Owned : q \notin pool
  BY DEF Inv, Apart, P
<1>6. f # NONE
  BY <1>1, TableFacts
<1>7. m.ok => Translate(m.entry, job.root, job.next) # NONE
  BY <1>1, <1>4, <1>6 DEF MayMap
<1> QED BY <1>1, <1>2, <1>4, <1>5, <1>7

\* The space in use, and that of every process, is owned.
LEMMA CurrentIsOwned ==
  ASSUME Inv
  PROVE  /\ spaces # {} => cr3 \in Owned
         /\ tlb # {} => cr3 \in Owned
         /\ \A s \in spaces : s.root \in Owned
BY DEF Inv, Current, Owned

\* Pages below a break are user pages.
LEMMA HeapIsUser ==
  ASSUME Inv, NEW s \in spaces
  PROVE  /\ s \in [root : Frames, start : Nat, brk : Nat]
         /\ 0 .. PageUp(s.brk) - 1 \subseteq UserPages
         /\ s.start \div PageSize .. PageUp(s.brk) - 1 \subseteq UserPages
<1>1. s \in [root : Frames, start : Nat, brk : Nat] /\ Bounded(s.brk)
  BY DEF Inv, TypeOK, Current
<1>2. 0 .. PageUp(s.brk) - 1 \subseteq UserPages
  BY <1>1 DEF Bounded
<1>3. s.start \div PageSize \in Nat /\ PageUp(s.brk) \in Nat
  <2>1. s.start \in Nat /\ s.brk \in Nat
    BY <1>1
  <2>2. \A x, y \in Nat : y > 0 => x \div y \in Nat
    OBVIOUS
  <2> QED BY <2>1, <2>2, PageUpFacts, UserPagesFacts
<1>4. s.start \div PageSize .. PageUp(s.brk) - 1 \subseteq 0 .. PageUp(s.brk) - 1
  <2> DEFINE a == s.start \div PageSize
             b == PageUp(s.brk)
  <2>1. a \in Nat /\ b \in Nat
    BY <1>3
  <2> HIDE DEF a, b
  <2>2. a .. b - 1 \subseteq 0 .. b - 1
    BY <2>1
  <2> QED BY <2>2 DEF a, b
<1> QED BY <1>1, <1>2, <1>4

-----------------------------------------------------------------------------
(* The actions *)

\* paging_create_user_as: the new root comes from the free frames.
LEMMA CreateSpaceKeeps ==
  ASSUME Inv, CreateSpace
  PROVE  Inv'
<1> DEFINE root == Lowest(pool)
<1>1. /\ TypeOK /\ JobTyped /\ Apart /\ Current /\ HeapMapped /\ Coherent
  BY DEF Inv
<1>2. /\ InUser \/ Fresh
      /\ pool # {}
      /\ pool' = pool \ {root}
      /\ entry' = Rooted(entry, root, cr3)
      /\ job' = [Idle EXCEPT !.op = "stack", !.root = root,
                             !.next = StackBottom, !.last = StackTop - 1,
                             !.source = IF Boot THEN 0 ELSE Sources - 1]
      /\ UNCHANGED <<spaces, cr3, tlb>>
  BY DEF CreateSpace, UpperHalf, Rooted
<1>3. root \in pool /\ root \in Frames /\ pool \subseteq Frames
  BY <1>1, <1>2, LowestIsFree DEF TypeOK
<1> HIDE DEF root
<1>4. /\ Tree(entry) /\ Spare(entry, root)
      /\ cr3 = KernelRoot \/ IsRoot(entry, cr3)
  <2>1. InUser => cr3 \in Owned
    BY CurrentIsOwned DEF InUser, Boot
  <2> QED BY <1>1, <1>2, <1>3, <2>1 DEF Apart, Fresh
<1>5. /\ Tree(entry')
      /\ IsRoot(entry', root)
      /\ \A q : IsRoot(entry, q) /\ q # root =>
           /\ IsRoot(entry', q)
           /\ \A u \in UserPages : Translate(entry', q, u) = Translate(entry, q, u)
      /\ \A g : Spare(entry, g) /\ g # root => Spare(entry', g)
  BY <1>2, <1>4, RootedTree
<1>6. job' = [op |-> "stack", root |-> root, next |-> StackBottom, last |-> StackTop - 1,
              todo |-> <<>>, brk |-> 0, source |-> IF Boot THEN 0 ELSE Sources - 1]
  BY <1>2 DEF Idle
<1>7. JobTyped'
  <2>1. <<>> \in Seq(Segment)
    OBVIOUS
  <2>2. StackTop - 1 \in UserPages /\ StackBottom \in Nat
    <3>1. StackTop - 1 \in Nat /\ StackTop - 1 <= StackTop
      BY UserPagesFacts
    <3> QED BY <3>1, UserPagesFacts
  <2>3. (IF Boot THEN 0 ELSE Sources - 1) \in Nat
    BY UserPagesFacts
  <2> QED BY <1>3, <1>6, <2>1, <2>2, <2>3 DEF JobTyped
<1>8. Owned' \subseteq Owned \cup {root} /\ \A s \in spaces : s.root \in Owned
  BY <1>2, <1>6 DEF Owned
<1>9. \A q \in Owned : IsRoot(entry, q) /\ q # root /\ q \notin pool
  BY <1>1, <1>3 DEF Apart
<1>10. Apart'
  <2>1. \A g \in pool' : Spare(entry', g)
    BY <1>1, <1>2, <1>5 DEF Apart
  <2>2. \A q \in Owned' : IsRoot(entry', q) /\ q \notin pool'
    BY <1>2, <1>5, <1>8, <1>9
  <2> QED BY <1>5, <2>1, <2>2 DEF Apart
<1>11. \A q \in Owned : \A u \in UserPages : Translate(entry', q, u) = Translate(entry, q, u)
  BY <1>5, <1>9
<1>12. Coherent'
  <2> SUFFICES ASSUME NEW t \in tlb PROVE Translate(entry', cr3, t[1]) = t[2]
    BY <1>2 DEF Coherent
  <2>1. cr3 \in Owned /\ t[1] \in UserPages
    BY <1>1, CurrentIsOwned DEF TypeOK
  <2> QED BY <1>1, <1>11, <2>1 DEF Coherent
<1>13. HeapMapped'
  <2> SUFFICES ASSUME NEW s \in spaces, NEW va \in s.start \div PageSize .. PageUp(s.brk) - 1
               PROVE  Translate(entry', s.root, va) # NONE
    BY <1>2 DEF HeapMapped, PageUp
  <2>1. va \in UserPages /\ s.root \in Owned
    BY <1>8, HeapIsUser
  <2>2. Translate(entry, s.root, va) # NONE
    BY <1>1 DEF HeapMapped
  <2> QED BY <1>11, <2>1, <2>2
<1>14. Current'
  BY <1>1, <1>2 DEF Current, Bounded, PageUp
<1>15. Working'
  <2>1. Bounded(0) /\ 0 = (0 \div PageSize) * PageSize
    BY BoundedZero
  <2>2. Bounded(job.brk)' <=> Bounded(0)
    BY <1>6 DEF Bounded, PageUp
  <2>3. \A s \in spaces' : s.root # job'.root
    BY <1>2, <1>6, <1>8, <1>9
  <2> QED BY <1>6, <2>1, <2>2, <2>3 DEF Working
<1>16. TypeOK'
  <2>1. entry' \in Entries
    BY <1>5 DEF Tree
  <2> QED BY <1>1, <1>2, <1>7, <2>1 DEF TypeOK, JobTyped
<1> QED BY <1>7, <1>10, <1>12, <1>13, <1>14, <1>15, <1>16 DEF Inv

\* The tables have changed as the walk for the next page changes them: what the
\* processes have stays.
LEMMA TablesKeep ==
  ASSUME Inv, Mapping, pool # {},
         pool' = Mapped.pool, entry' = Mapped.entry,
         \A t \in tlb' : t \in tlb /\ (Mapped.ok => t[1] # job.next),
         UNCHANGED <<spaces, cr3>>, Owned' \subseteq Owned
  PROVE  /\ pool' \subseteq Frames /\ entry' \in Entries /\ tlb' \subseteq UserPages \X Frames
         /\ Apart' /\ Coherent' /\ HeapMapped' /\ Current'
<1>1. /\ TypeOK /\ JobTyped /\ Apart /\ Current /\ HeapMapped /\ Coherent
  BY DEF Inv
<1>2. /\ job.next \in UserPages
      /\ pool' \subseteq pool
      /\ Tree(entry')
      /\ \A q \in Owned : IsRoot(entry', q) /\ q \notin pool'
      /\ \A g \in pool' : Spare(entry', g)
      /\ \A q \in Owned : \A u \in UserPages :
           ~(Mapped.ok /\ q = job.root /\ u = job.next) =>
              Translate(entry', q, u) = Translate(entry, q, u)
      /\ Mapped.ok => Translate(entry', job.root, job.next) # NONE
  BY MappedEffect
<1>3. Apart'
  BY <1>2 DEF Apart
<1>4. Coherent'
  <2> SUFFICES ASSUME NEW t \in tlb' PROVE Translate(entry', cr3, t[1]) = t[2]
    BY DEF Coherent
  <2>1. t \in tlb /\ cr3 \in Owned /\ t[1] \in UserPages /\ (Mapped.ok => t[1] # job.next)
    BY <1>1, CurrentIsOwned DEF TypeOK
  <2> QED BY <1>1, <1>2, <2>1 DEF Coherent
<1>5. HeapMapped'
  <2> SUFFICES ASSUME NEW s \in spaces, NEW va \in s.start \div PageSize .. PageUp(s.brk) - 1
               PROVE  Translate(entry', s.root, va) # NONE
    BY DEF HeapMapped, PageUp
  <2>1. va \in UserPages /\ s.root \in Owned
    BY CurrentIsOwned, HeapIsUser
  <2>2. Translate(entry, s.root, va) # NONE
    BY <1>1 DEF HeapMapped
  <2> QED BY <1>2, <2>1, <2>2
<1>6. Current'
  <2>1. spaces = {} => tlb' = {}
    BY <1>1 DEF Current
  <2> QED BY <1>1, <2>1 DEF Current, Bounded, PageUp
<1> QED BY <1>1, <1>2, <1>3, <1>4, <1>5, <1>6 DEF TypeOK, Tree

\* One more page.
LEMMA MapNextKeeps ==
  ASSUME Inv, MapNext
  PROVE  Inv'
<1>1. TypeOK /\ JobTyped /\ Current /\ Working
  BY DEF Inv
<1>2. /\ Mapping /\ pool # {} /\ Mapped.ok
      /\ pool' = Mapped.pool /\ entry' = Mapped.entry
      /\ tlb' = {t \in tlb : t[1] # job.next}
      /\ job' = [job EXCEPT !.next = @ + 1]
      /\ spaces' = spaces /\ cr3' = cr3
  BY DEF MapNext, Invlpg
<1>3. /\ job'.op = job.op /\ job'.root = job.root /\ job'.last = job.last /\ job'.brk = job.brk
      /\ job'.next = job.next + 1
      /\ JobTyped'
  BY <1>1, <1>2 DEF JobTyped
<1>4. Owned' \subseteq Owned
  BY <1>2, <1>3 DEF Owned
<1>5. /\ pool' \subseteq Frames /\ entry' \in Entries /\ tlb' \subseteq UserPages \X Frames
      /\ Apart' /\ Coherent' /\ HeapMapped' /\ Current'
  BY <1>2, <1>4, TablesKeep
<1>6. TypeOK'
  BY <1>1, <1>2, <1>3, <1>5 DEF TypeOK, JobTyped
<1>7. /\ job.next \in UserPages
      /\ \A q \in Owned : \A u \in UserPages :
           u # job.next => Translate(entry', q, u) = Translate(entry, q, u)
      /\ Translate(entry', job.root, job.next) # NONE
  BY <1>2, MappedEffect
<1>8. job.next \in Nat /\ job.last \in Nat /\ job.next <= job.last /\ job.last \in UserPages
  BY <1>1, <1>2, TableFacts DEF JobTyped, Mapping
<1>9. Working'
  <2>1. ASSUME job'.op \in {"stack", "load"}
        PROVE  /\ \A s \in spaces' : s.root # job'.root
               /\ Bounded(job.brk)'
               /\ job'.brk = (job'.brk \div PageSize) * PageSize
    <3>1. Bounded(job.brk)' <=> Bounded(job.brk)
      BY <1>3 DEF Bounded, PageUp
    <3> QED BY <1>1, <1>2, <1>3, <2>1, <3>1 DEF Working
  <2>2. ASSUME job'.op = "brk", NEW s \in spaces, s.root = cr3
        PROVE  /\ PageUp(s.brk) <= job'.next
               /\ \A va \in PageUp(s.brk) .. job'.next - 1 : Translate(entry', cr3, va) # NONE
    <3>1. /\ PageUp(s.brk) <= job.next /\ job.root = cr3
          /\ \A va \in PageUp(s.brk) .. job.next - 1 : Translate(entry, cr3, va) # NONE
      BY <1>1, <1>3, <2>2 DEF Working
    <3>2. PageUp(s.brk) \in Nat /\ cr3 \in Owned
      BY <2>2, HeapIsUser, PageUpFacts, CurrentIsOwned
    <3>3. ASSUME NEW va \in PageUp(s.brk) .. job'.next - 1
          PROVE  Translate(entry', cr3, va) # NONE
      <4>1. va \in Nat /\ va <= job.last /\ (va = job.next \/ va \in PageUp(s.brk) .. job.next - 1)
        BY <1>3, <1>8, <3>2
      <4>2. va \in UserPages
        BY <1>8, <4>1, UserPagesFacts
      <4> QED BY <1>7, <3>1, <3>2, <4>1, <4>2
    <3> QED BY <1>3, <1>8, <3>1, <3>2, <3>3
  <2>3. ASSUME job'.op = "brk"
        PROVE  /\ spaces' # {} /\ job'.root = cr3' /\ job'.last < StackBottom
               /\ PageUp(job'.brk) = job'.last + 1 /\ job'.next <= job'.last + 1
    BY <1>1, <1>2, <1>3, <1>8, <2>3 DEF Working
  <2> QED BY <1>2, <2>1, <2>2, <2>3 DEF Working, PageUp
<1> QED BY <1>3, <1>5, <1>6, <1>9 DEF Inv

\* A page without a table: what was built of the way to it stays.
LEMMA NoTableKeeps ==
  ASSUME Inv, NoTable
  PROVE  Inv'
<1>1. TypeOK /\ JobTyped /\ Working
  BY DEF Inv
<1>2. /\ Mapping /\ pool # {} /\ pool' = Mapped.pool /\ entry' = Mapped.entry
      /\ ~Mapped.ok /\ Fail /\ spaces' = spaces /\ cr3' = cr3 /\ tlb' = tlb
      /\ job.op # "idle"
  BY DEF NoTable, Mapping
<1>3. JobTyped' /\ job'.next \in Nat /\ job'.last \in UserPages /\ Owned' \subseteq Owned /\ Working'
  BY <1>1, <1>2, FailEffect
<1>4. /\ pool' \subseteq Frames /\ entry' \in Entries /\ tlb' \subseteq UserPages \X Frames
      /\ Apart' /\ Coherent' /\ HeapMapped' /\ Current'
  BY <1>2, <1>3, TablesKeep
<1>5. TypeOK'
  BY <1>1, <1>2, <1>3, <1>4 DEF TypeOK, JobTyped
<1> QED BY <1>3, <1>4, <1>5 DEF Inv

\* An operation that ends early, or finds its file refused, with the tables as
\* they are.
LEMMA FailKeeps ==
  ASSUME Inv, Fail, job.op # "idle", UNCHANGED <<pool, entry, spaces, cr3, tlb>>
  PROVE  Inv'
<1>1. TypeOK /\ JobTyped /\ Apart /\ Current /\ Working /\ HeapMapped /\ Coherent
  BY DEF Inv
<1>2. JobTyped' /\ job'.next \in Nat /\ job'.last \in UserPages /\ Owned' \subseteq Owned /\ Working'
  BY <1>1, FailEffect
<1>3. Apart'
  BY <1>1, <1>2, ApartKeeps
<1>4. TypeOK'
  BY <1>1, <1>2 DEF TypeOK, JobTyped
<1>5. Current' /\ HeapMapped' /\ Coherent'
  BY <1>1 DEF Current, HeapMapped, Coherent, Bounded, PageUp
<1> QED BY <1>2, <1>3, <1>4, <1>5 DEF Inv

\* elf_load begins.
LEMMA LoadKeeps ==
  ASSUME Inv, Load
  PROVE  Inv'
<1>1. TypeOK /\ JobTyped /\ Apart /\ Current /\ Working /\ HeapMapped /\ Coherent
  BY DEF Inv
<1>2. /\ job.op = "stack" /\ LoadSource /\ UNCHANGED <<pool, entry, spaces>>
      /\ (cr3' = job.root /\ tlb' = {} /\ spaces = {}) \/ (UNCHANGED <<cr3, tlb>> /\ spaces # {})
  BY DEF Load, Boot
<1>3. JobTyped' /\ job'.op = "load" /\ job'.root = job.root /\ job'.brk = 0
      /\ job'.next = 1 /\ job'.last = 0
  BY <1>1, <1>2, LoadSourceEffect
<1>4. Owned' \subseteq Owned
  BY <1>2, <1>3 DEF Owned
<1>5. Apart'
  BY <1>1, <1>2, <1>4, ApartKeeps
<1>6. Working'
  <2>1. Bounded(0) /\ 0 = (0 \div PageSize) * PageSize
    BY BoundedZero
  <2>2. Bounded(job.brk)' <=> Bounded(0)
    BY <1>3 DEF Bounded, PageUp
  <2> QED BY <1>1, <1>2, <1>3, <2>1, <2>2 DEF Working
<1>7. TypeOK'
  <2>1. job.root \in Frames
    BY <1>1, <1>2 DEF Apart, Owned, IsRoot
  <2> QED BY <1>1, <1>2, <1>3, <2>1 DEF TypeOK, JobTyped, Tables
<1>8. Current' /\ HeapMapped' /\ Coherent'
  BY <1>1, <1>2 DEF Current, HeapMapped, Coherent, Bounded, PageUp
<1> QED BY <1>3, <1>5, <1>6, <1>7, <1>8 DEF Inv

\* The next segment of the file: the break is behind the last one so far.
LEMMA NextSegmentKeeps ==
  ASSUME Inv, NextSegment
  PROVE  Inv'
<1> DEFINE s == Head(job.todo)
           end == (s.last + 1) * PageSize
           brk == IF end > job.brk THEN end ELSE job.brk
<1>1. TypeOK /\ JobTyped /\ Apart /\ Current /\ Working /\ HeapMapped /\ Coherent
  BY DEF Inv
<1>2. /\ job.op = "load" /\ job.todo # <<>>
      /\ job' = [job EXCEPT !.next = s.first, !.last = s.last, !.todo = Tail(@), !.brk = brk]
      /\ UNCHANGED <<pool, entry, spaces, cr3, tlb>>
  BY DEF NextSegment, Between
<1>3. job.todo \in Seq(Segment) /\ job.brk \in Nat
  BY <1>1 DEF JobTyped
<1>4. s \in Segment /\ Tail(job.todo) \in Seq(Segment)
  BY <1>2, <1>3
<1> HIDE DEF s
<1>5. s.first \in Nat /\ s.last \in UserPages /\ s.last \in Nat
  BY <1>4, TableFacts DEF Segment
<1>6. /\ end \in Nat /\ PageUp(end) = s.last + 1 /\ end \div PageSize = s.last + 1
  <2>1. s.last + 1 \in Nat
    BY <1>5
  <2> QED BY <2>1, PageUpFacts
<1>7. Bounded(end) /\ end = (end \div PageSize) * PageSize
  <2>1. 0 .. s.last \subseteq UserPages
    BY <1>5, UserPagesFacts
  <2>2. PageUp(end) - 1 = s.last
    BY <1>5, <1>6
  <2> QED BY <1>6, <2>1, <2>2 DEF Bounded
<1> HIDE DEF end
<1>8. brk \in Nat /\ Bounded(brk) /\ brk = (brk \div PageSize) * PageSize
  BY <1>1, <1>2, <1>3, <1>6, <1>7 DEF Working
<1> HIDE DEF brk
<1>9. /\ JobTyped'
      /\ job'.op = "load" /\ job'.root = job.root /\ job'.brk = brk
      /\ job'.next \in Nat /\ job'.last \in UserPages
  BY <1>1, <1>2, <1>4, <1>5, <1>8 DEF JobTyped
<1>10. Owned' \subseteq Owned
  BY <1>2, <1>9 DEF Owned
<1>11. Apart'
  BY <1>1, <1>2, <1>10, ApartKeeps
<1>12. Working'
  <2>1. Bounded(job.brk)' <=> Bounded(brk)
    BY <1>9 DEF Bounded, PageUp
  <2> QED BY <1>1, <1>2, <1>8, <1>9, <2>1 DEF Working
<1>13. TypeOK' /\ Current' /\ HeapMapped' /\ Coherent'
  BY <1>1, <1>2, <1>9 DEF TypeOK, Current, HeapMapped, Coherent, Bounded, PageUp
<1> QED BY <1>9, <1>11, <1>12, <1>13 DEF Inv

\* A space that has just been loaded has a heap of no pages.
LEMMA NewSpace ==
  ASSUME Inv, job.op = "load"
  PROVE  LET new == Space(job.root, job.brk) IN
         /\ new \in [root : Frames, start : Nat, brk : Nat]
         /\ new.root = job.root /\ job.root \in Owned
         /\ Bounded(new.brk)
         /\ new.start \div PageSize .. PageUp(new.brk) - 1 = {}
         /\ \A s \in spaces : s.root # new.root
<1> DEFINE k == job.brk \div PageSize
<1>1. /\ job.brk \in Nat /\ job.root \in Owned /\ job.root \in Frames
      /\ Bounded(job.brk) /\ job.brk = k * PageSize
      /\ \A s \in spaces : s.root # job.root
  BY DEF Inv, Apart, Owned, IsRoot, JobTyped, Working
<1>2. k \in Nat
  <2>1. \A x, y \in Nat : y > 0 => x \div y \in Nat
    OBVIOUS
  <2> QED BY <1>1, <2>1, UserPagesFacts
<1>3. PageUp(job.brk) = k
  <2> HIDE DEF k
  <2> QED BY <1>1, <1>2, PageUpFacts
<1>4. k .. k - 1 = {}
  <2> HIDE DEF k
  <2> QED BY <1>2
<1> QED BY <1>1, <1>3, <1>4 DEF Space

\* sys_spawn: the new space becomes a process's.
LEMMA SpawnKeeps ==
  ASSUME Inv, Spawn
  PROVE  Inv'
<1> DEFINE new == Space(job.root, job.brk)
<1>1. TypeOK /\ JobTyped /\ Apart /\ Current /\ HeapMapped /\ Coherent
  BY DEF Inv
<1>2. /\ job.op = "load" /\ spaces # {} /\ spaces' = spaces \cup {new} /\ job' = Idle
      /\ UNCHANGED <<pool, entry, cr3, tlb>>
  BY DEF Spawn, Loaded, Between, Boot
<1>3. /\ new \in [root : Frames, start : Nat, brk : Nat]
      /\ new.root = job.root /\ job.root \in Owned
      /\ Bounded(new.brk)
      /\ new.start \div PageSize .. PageUp(new.brk) - 1 = {}
      /\ \A s \in spaces : s.root # new.root
  BY <1>2, NewSpace
<1> HIDE DEF new
<1>4. JobTyped' /\ job'.op = "idle" /\ job'.next = 0 /\ job'.last = 0
  BY <1>2, IdleTyped
<1>5. Owned' \subseteq Owned
  BY <1>2, <1>3, <1>4 DEF Owned
<1>6. Apart'
  BY <1>1, <1>2, <1>5, ApartKeeps
<1>7. TypeOK'
  BY <1>1, <1>2, <1>3, <1>4, UserPagesFacts DEF TypeOK
<1>8. Current'
  <2>1. \A s \in spaces' : Bounded(s.brk)
    BY <1>1, <1>2, <1>3 DEF Current
  <2> QED BY <1>1, <1>2, <1>3, <2>1 DEF Current, Bounded, PageUp
<1>9. HeapMapped'
  BY <1>1, <1>2, <1>3 DEF HeapMapped, PageUp
<1> QED BY <1>1, <1>2, <1>4, <1>6, <1>7, <1>8, <1>9 DEF Inv, Working, Coherent

\* sys_exec: the new space replaces the one in use.
LEMMA ExecKeeps ==
  ASSUME Inv, Exec
  PROVE  Inv'
<1> DEFINE new == Space(job.root, job.brk)
<1>1. TypeOK /\ JobTyped /\ Apart /\ Current /\ HeapMapped /\ Coherent
  BY DEF Inv
<1>2. /\ job.op = "load" /\ spaces' = {s \in spaces : s.root # cr3} \cup {new} /\ job' = Idle
      /\ cr3' = job.root /\ tlb' = {}
      /\ UNCHANGED <<pool, entry>>
  BY DEF Exec, Loaded, Between
<1>3. /\ new \in [root : Frames, start : Nat, brk : Nat]
      /\ new.root = job.root /\ job.root \in Owned
      /\ Bounded(new.brk)
      /\ new.start \div PageSize .. PageUp(new.brk) - 1 = {}
      /\ \A s \in spaces : s.root # new.root
  BY <1>2, NewSpace
<1> HIDE DEF new
<1>4. JobTyped' /\ job'.op = "idle" /\ job'.next = 0 /\ job'.last = 0
  BY <1>2, IdleTyped
<1>5. Owned' \subseteq Owned
  BY <1>2, <1>3, <1>4 DEF Owned
<1>6. Apart'
  BY <1>1, <1>2, <1>5, ApartKeeps
<1>7. TypeOK'
  BY <1>1, <1>2, <1>3, <1>4, UserPagesFacts DEF TypeOK, Tables
<1>8. Current'
  <2>1. \A s \in spaces' : Bounded(s.brk)
    BY <1>1, <1>2, <1>3 DEF Current
  <2> QED BY <1>1, <1>2, <1>3, <2>1 DEF Current, Bounded, PageUp
<1>9. HeapMapped'
  BY <1>1, <1>2, <1>3 DEF HeapMapped, PageUp
<1> QED BY <1>1, <1>2, <1>4, <1>6, <1>7, <1>8, <1>9 DEF Inv, Working, Coherent

\* process_switch and sys_exit: CR3 is loaded.
LEMMA SwitchKeeps ==
  ASSUME Inv, NEW s \in spaces, Switch(s) \/ Exit(s)
  PROVE  Inv'
<1>1. TypeOK /\ JobTyped /\ Apart /\ Current /\ HeapMapped
  BY DEF Inv
<1>2. /\ job.op = "idle" /\ spaces' \subseteq spaces /\ s \in spaces' /\ cr3' = s.root /\ tlb' = {}
      /\ UNCHANGED <<pool, entry, job>>
  BY DEF Switch, Exit, InUser
<1>3. JobTyped' /\ Owned' \subseteq Owned
  BY <1>1, <1>2 DEF Owned, JobTyped
<1>4. Apart'
  BY <1>1, <1>2, <1>3, ApartKeeps
<1>5. TypeOK'
  BY <1>1, <1>2 DEF TypeOK, Tables
<1>6. Current' /\ HeapMapped'
  BY <1>1, <1>2 DEF Current, HeapMapped, Bounded, PageUp
<1> QED BY <1>2, <1>3, <1>4, <1>5, <1>6 DEF Inv, Working, Coherent

\* In user code the space in use is that of one process.
LEMMA MineIsCurrent ==
  ASSUME Inv, spaces # {}
  PROVE  /\ Mine \in spaces /\ Mine.root = cr3
         /\ Mine \in [root : Frames, start : Nat, brk : Nat]
         /\ \A s \in spaces : s.root = cr3 => s = Mine
<1>1. Current /\ spaces \subseteq [root : Frames, start : Nat, brk : Nat]
  BY DEF Inv, TypeOK
<1>2. PICK s \in spaces : s.root = cr3
  BY <1>1 DEF Current
<1>3. Mine \in spaces /\ Mine.root = cr3
  BY <1>2 DEF Mine
<1> QED BY <1>1, <1>3 DEF Current

\* The break of the current process has moved, within user memory, to where all
\* below it is mapped.
LEMMA SetBrkKeeps ==
  ASSUME Inv, spaces # {}, NEW addr \in Nat, SetBrk(addr), Bounded(addr),
         \A va \in Mine.start \div PageSize .. PageUp(addr) - 1 : Translate(entry, cr3, va) # NONE,
         UNCHANGED <<pool, entry, cr3, tlb>>, JobTyped', job'.op = "idle"
  PROVE  Inv'
<1> DEFINE new == [Mine EXCEPT !.brk = addr]
<1>1. TypeOK /\ JobTyped /\ Apart /\ Current /\ HeapMapped /\ Coherent
  BY DEF Inv
<1>2. /\ Mine \in spaces /\ Mine.root = cr3
      /\ Mine \in [root : Frames, start : Nat, brk : Nat]
      /\ \A s \in spaces : s.root = cr3 => s = Mine
  BY MineIsCurrent
<1>3. /\ new \in [root : Frames, start : Nat, brk : Nat]
      /\ new.root = cr3 /\ new.start = Mine.start /\ new.brk = addr
  BY <1>2
<1>4. spaces' = (spaces \ {Mine}) \cup {new}
  BY DEF SetBrk
<1> HIDE DEF new
<1>5. job'.op = "idle"
  OBVIOUS
<1>6. Owned' \subseteq Owned
  BY <1>2, <1>3, <1>4, <1>5 DEF Owned
<1>7. Apart'
  BY <1>1, <1>6, ApartKeeps
<1>8. TypeOK'
  BY <1>1, <1>3, <1>4, <1>5 DEF TypeOK, JobTyped
<1>9. Current'
  <2>1. ASSUME NEW s \in spaces', NEW t \in spaces', s.root = t.root PROVE s = t
    BY <1>1, <1>2, <1>3, <1>4, <2>1 DEF Current
  <2>2. \A s \in spaces' : Bounded(s.brk)
    BY <1>1, <1>3, <1>4 DEF Current
  <2>3. new \in spaces' /\ new.root = cr3'
    BY <1>3, <1>4
  <2> QED BY <2>1, <2>2, <2>3 DEF Current, Bounded, PageUp
<1>10. HeapMapped'
  <2> SUFFICES ASSUME NEW s \in spaces', NEW va \in s.start \div PageSize .. PageUp(s.brk) - 1
               PROVE  Translate(entry, s.root, va) # NONE
    BY DEF HeapMapped, PageUp
  <2>1. CASE s = new
    BY <1>3, <2>1
  <2>2. CASE s \in spaces
    BY <1>1, <2>2 DEF HeapMapped
  <2> QED BY <1>4, <2>1, <2>2
<1> QED BY <1>1, <1>5, <1>7, <1>8, <1>9, <1>10 DEF Inv, Working, Coherent

\* A break that goes down only forgets where it was.
LEMMA BrkDownKeeps ==
  ASSUME Inv, NEW addr \in Addresses, BrkDown(addr)
  PROVE  Inv'
<1>1. /\ spaces # {} /\ addr <= Mine.brk /\ SetBrk(addr) /\ UNCHANGED <<pool, entry, cr3, tlb, job>>
      /\ job.op = "idle"
  BY DEF BrkDown, InUser, Boot
<1>2. /\ Mine \in spaces /\ Mine.root = cr3
      /\ Mine.start \in Nat /\ Mine.brk \in Nat
  BY <1>1, MineIsCurrent
<1>3. addr \in Nat
  BY UserPagesFacts DEF Addresses
<1>4. Bounded(Mine.brk) /\ HeapMapped
  BY <1>2 DEF Inv, Current
<1>5. Bounded(addr)
  BY <1>1, <1>2, <1>3, <1>4, BoundedBelow
<1>6. PageUp(addr) \in Nat /\ PageUp(Mine.brk) \in Nat /\ PageUp(addr) <= PageUp(Mine.brk)
  BY <1>1, <1>2, <1>3, PageUpFacts
<1>7. Mine.start \div PageSize \in Nat
  <2>1. \A x, y \in Nat : y > 0 => x \div y \in Nat
    OBVIOUS
  <2> QED BY <1>2, <2>1, UserPagesFacts
<1>8. ASSUME NEW va \in Mine.start \div PageSize .. PageUp(addr) - 1
      PROVE  Translate(entry, cr3, va) # NONE
  <2>1. va \in Mine.start \div PageSize .. PageUp(Mine.brk) - 1
    <3> DEFINE a == Mine.start \div PageSize
               b == PageUp(addr)
               c == PageUp(Mine.brk)
    <3> HIDE DEF a, b, c
    <3>1. a \in Nat /\ b \in Nat /\ c \in Nat /\ b <= c /\ va \in a .. b - 1
      BY <1>6, <1>7 DEF a, b, c
    <3>2. va \in a .. c - 1
      BY <3>1
    <3> QED BY <3>2 DEF a, c
  <2> QED BY <1>2, <1>4, <2>1 DEF HeapMapped
<1>9. JobTyped'
  BY <1>1 DEF Inv, JobTyped
<1> QED BY <1>1, <1>3, <1>5, <1>8, <1>9, SetBrkKeeps

\* A break that goes up begins at the first page it has not mapped.
LEMMA BrkUpKeeps ==
  ASSUME Inv, NEW addr \in Addresses, BrkUp(addr)
  PROVE  Inv'
<1>1. TypeOK /\ JobTyped /\ Apart /\ Current /\ HeapMapped /\ Coherent
  BY DEF Inv
<1>2. /\ job.op = "idle" /\ spaces # {} /\ Mine.brk < addr /\ addr < StackBottom * PageSize
      /\ job' = [Idle EXCEPT !.op = "brk", !.root = cr3, !.brk = addr,
                             !.next = PageUp(Mine.brk), !.last = PageUp(addr) - 1]
      /\ UNCHANGED <<pool, entry, spaces, cr3, tlb>>
  BY DEF BrkUp, InUser, Boot, BelowStack, FirstPage
<1>3. addr \in Nat
  BY UserPagesFacts DEF Addresses
<1>4. /\ Mine \in spaces /\ Mine.root = cr3 /\ Mine.brk \in Nat /\ cr3 \in Frames
      /\ \A s \in spaces : s.root = cr3 => s = Mine
  BY <1>2, MineIsCurrent
<1>5. job' = [op |-> "brk", root |-> cr3, next |-> PageUp(Mine.brk), last |-> PageUp(addr) - 1,
              todo |-> <<>>, brk |-> addr, source |-> 0]
  BY <1>2 DEF Idle
<1>6. /\ PageUp(Mine.brk) \in Nat /\ PageUp(addr) \in Nat /\ PageUp(addr) > 0
      /\ PageUp(Mine.brk) <= PageUp(addr) /\ PageUp(addr) <= StackBottom
  <2>1. addr > 0 /\ Mine.brk <= addr
    BY <1>2, <1>3, <1>4
  <2> QED BY <1>2, <1>3, <1>4, <2>1, PageUpFacts, UserPagesFacts
<1> DEFINE first == PageUp(Mine.brk)
           last == PageUp(addr) - 1
<1>7. /\ first \in Nat /\ last \in Nat /\ first <= last + 1 /\ last < StackBottom
      /\ last + 1 = PageUp(addr)
  BY <1>6, UserPagesFacts
<1>8. last \in UserPages
  BY <1>7, UserPagesFacts
<1>9. job'.op = "brk" /\ job'.root = cr3 /\ job'.next = first /\ job'.last = last /\ job'.brk = addr
  BY <1>5
<1>10. JobTyped'
  <2>1. <<>> \in Seq(Segment)
    OBVIOUS
  <2> HIDE DEF first, last
  <2> QED BY <1>3, <1>4, <1>5, <1>7, <1>8, <2>1 DEF JobTyped, first, last
<1>11. Owned' \subseteq Owned
  BY <1>2, <1>4, <1>9 DEF Owned
<1>12. Apart'
  BY <1>1, <1>2, <1>11, ApartKeeps
<1>13. Working'
  <2>1. first .. first - 1 = {}
    BY <1>7
  <2>2. \A s \in spaces : s.root = cr3 => PageUp(s.brk) = first
    BY <1>4
  <2> HIDE DEF first, last
  <2> QED BY <1>2, <1>7, <1>9, <2>1, <2>2 DEF Working, PageUp
<1> HIDE DEF first, last
<1>14. TypeOK' /\ Current' /\ HeapMapped' /\ Coherent'
  BY <1>1, <1>2, <1>10 DEF TypeOK, JobTyped, Current, HeapMapped, Coherent, Bounded, PageUp
<1> QED BY <1>10, <1>12, <1>13, <1>14 DEF Inv

\* All pages below the new break are mapped.
LEMMA BrkDoneKeeps ==
  ASSUME Inv, BrkDone
  PROVE  Inv'
<1>1. TypeOK /\ JobTyped /\ Current /\ Working /\ HeapMapped
  BY DEF Inv
<1>2. /\ job.op = "brk" /\ job.next > job.last /\ SetBrk(job.brk) /\ job' = Idle
      /\ UNCHANGED <<pool, entry, cr3, tlb>>
  BY DEF BrkDone
<1>3. /\ spaces # {} /\ job.last < StackBottom /\ PageUp(job.brk) = job.last + 1
      /\ job.next <= job.last + 1
  BY <1>1, <1>2 DEF Working
<1>4. /\ Mine \in spaces /\ Mine.root = cr3
      /\ Mine.start \in Nat /\ Mine.brk \in Nat
  BY <1>3, MineIsCurrent
<1>5. /\ job.next \in Nat /\ job.last \in Nat /\ job.last \in UserPages /\ job.brk \in Nat
      /\ job.next = job.last + 1
  <2>1. job.next \in Nat /\ job.last \in UserPages /\ job.brk \in Nat
    BY <1>1 DEF JobTyped
  <2>2. job.last \in Nat
    BY <2>1, TableFacts
  <2> QED BY <1>2, <1>3, <2>1, <2>2
<1>6. Bounded(job.brk)
  <2>1. 0 .. job.last \subseteq UserPages
    BY <1>5, UserPagesFacts
  <2>2. PageUp(job.brk) - 1 = job.last
    BY <1>3, <1>5
  <2> QED BY <2>1, <2>2 DEF Bounded
<1>7. \A va \in PageUp(Mine.brk) .. job.next - 1 : Translate(entry, cr3, va) # NONE
  BY <1>1, <1>2, <1>4 DEF Working
<1>8. \A va \in Mine.start \div PageSize .. PageUp(Mine.brk) - 1 : Translate(entry, cr3, va) # NONE
  BY <1>1, <1>4 DEF HeapMapped
<1>9. Mine.start \div PageSize \in Nat /\ PageUp(Mine.brk) \in Nat
  <2>1. \A x, y \in Nat : y > 0 => x \div y \in Nat
    OBVIOUS
  <2> QED BY <1>4, <2>1, PageUpFacts, UserPagesFacts
<1>10. ASSUME NEW va \in Mine.start \div PageSize .. PageUp(job.brk) - 1
       PROVE  Translate(entry, cr3, va) # NONE
  <2> DEFINE a == Mine.start \div PageSize
             b == PageUp(Mine.brk)
             c == PageUp(job.brk)
  <2> HIDE DEF a, b, c
  <2>1. a \in Nat /\ b \in Nat /\ c = job.next /\ va \in a .. c - 1
    BY <1>3, <1>5, <1>9 DEF a, b, c
  <2>2. va \in a .. b - 1 \/ va \in b .. job.next - 1
    BY <1>5, <2>1
  <2> QED BY <1>7, <1>8, <2>2 DEF a, b
<1>11. JobTyped' /\ job'.op = "idle"
  BY <1>2, IdleTyped
<1> QED BY <1>2, <1>3, <1>5, <1>6, <1>10, <1>11, SetBrkKeeps

\* The CPU remembers what it has walked to.
LEMMA TouchKeeps ==
  ASSUME Inv, NEW va \in UserPages, Touch(va)
  PROVE  Inv'
<1>1. TypeOK /\ JobTyped /\ Apart /\ Current /\ Working /\ HeapMapped
  BY DEF Inv
<1>2. /\ job.op = "idle" /\ spaces # {} /\ Translate(entry, cr3, va) # NONE
      /\ tlb' = {<<va, Translate(entry, cr3, va)>>}
      /\ UNCHANGED <<pool, entry, spaces, cr3, job>>
  BY DEF Touch, InUser, Boot
<1>3. Translate(entry, cr3, va) \in Frames
  <2>1. Tree(entry) /\ IsRoot(entry, cr3)
    BY <1>1, <1>2, CurrentIsOwned DEF Apart
  <2> QED BY <1>2, <2>1, TranslateInTree
<1>4. Coherent'
  BY <1>2 DEF Coherent
<1>5. TypeOK'
  BY <1>1, <1>2, <1>3 DEF TypeOK
<1>6. JobTyped' /\ Apart' /\ Current' /\ Working' /\ HeapMapped'
  <2>1. Owned' = Owned
    BY <1>2 DEF Owned
  <2>2. Apart'
    BY <1>1, <1>2, <2>1, ApartKeeps
  <2>3. Current'
    BY <1>1, <1>2 DEF Current, Bounded, PageUp
  <2>4. Working' /\ HeapMapped' /\ JobTyped'
    BY <1>1, <1>2 DEF JobTyped, Working, HeapMapped, Bounded, PageUp
  <2> QED BY <2>2, <2>3, <2>4
<1> QED BY <1>4, <1>5, <1>6 DEF Inv

-----------------------------------------------------------------------------
(* The invariant holds *)

\* When kmain starts, all frames are free and no table is in use.
LEMMA InitInv == Init => Inv
<1> SUFFICES ASSUME Init PROVE Inv
  OBVIOUS
<1>1. /\ pool = Frames /\ spaces = {} /\ cr3 = KernelRoot /\ tlb = {} /\ job = Idle
      /\ entry = [t \in Tables |->
           IF t = KernelRoot
             THEN [i \in Indices |-> IF i >= Fanout \div 2 THEN KernelTable ELSE NONE]
             ELSE EmptyPage]
  BY DEF Init
<1>2. /\ \A t \in Frames : entry[t] = EmptyPage /\ \A i \in Indices : entry[t][i] = NONE
      /\ \A i \in Indices : entry[KernelRoot][i] = IF i >= Fanout \div 2 THEN KernelTable ELSE NONE
  BY <1>1, TableFacts DEF Tables, EmptyPage
<1>3. entry \in Entries
  BY <1>1 DEF Entries, EmptyPage, Tables
<1>4. Tree(entry)
  <2>1. Single(entry)
    BY <1>2, TableFacts DEF Single
  <2>2. \A t \in Frames : \A i \in Indices : entry[t][i] # KernelRoot /\ entry[t][i] # KernelTable
    BY <1>2, TableFacts
  <2>3. \A i \in Indices : /\ entry[KernelRoot][i] \notin Frames
                           /\ entry[KernelRoot][i] # KernelRoot
                           /\ i < Fanout \div 2 => entry[KernelRoot][i] = NONE
    <3> TAKE i \in Indices
    <3>1. i \in Int /\ Fanout \div 2 \in Int
      BY TableFacts DEF Indices
    <3> QED BY <1>2, <3>1, TableFacts
  <2> QED BY <1>3, <2>1, <2>2, <2>3 DEF Tree, KernelApart
<1>5. \A f \in Frames : Spare(entry, f)
  BY <1>2, TableFacts DEF Spare, Alone
<1>6. Owned = {}
  BY <1>1 DEF Owned, Idle
<1>7. JobTyped
  <2>1. <<>> \in Seq(Segment)
    OBVIOUS
  <2> QED BY <1>1, <2>1, UserPagesFacts DEF JobTyped, Idle
<1>8. TypeOK
  BY <1>1, <1>3, <1>7 DEF TypeOK, JobTyped, Tables
<1>9. job.op = "idle"
  BY <1>1 DEF Idle
<1> QED BY <1>1, <1>4, <1>5, <1>6, <1>7, <1>8, <1>9
        DEF Inv, Apart, Current, Working, HeapMapped, Coherent

\* Every step keeps the invariant.
LEMMA NextInv == Inv /\ [Next]_vars => Inv'
<1> SUFFICES ASSUME Inv, [Next]_vars PROVE Inv'
  OBVIOUS
<1>1. CASE CreateSpace
  BY <1>1, CreateSpaceKeeps
<1>2. CASE UNCHANGED vars
  BY <1>2 DEF vars, Inv, TypeOK, JobTyped, Apart, Owned, Current, Working, HeapMapped, Coherent,
              Bounded, PageUp
<1>3. CASE CreateRefused \/ KernelShell \/ \E addr \in Addresses : BrkRefused(addr)
  <2>1. UNCHANGED vars
    BY <1>3 DEF CreateRefused, KernelShell, BrkRefused
  <2> QED BY <1>2, <2>1
<1>4. CASE MapNext
  BY <1>4, MapNextKeeps
<1>5. CASE NoFrame \/ BadElf
  <2>1. Fail /\ job.op # "idle" /\ UNCHANGED <<pool, entry, spaces, cr3, tlb>>
    BY <1>5 DEF NoFrame, BadElf, Mapping, Between
  <2> QED BY <2>1, FailKeeps
<1>6. CASE NoTable
  BY <1>6, NoTableKeeps
<1>7. CASE Load
  BY <1>7, LoadKeeps
<1>8. CASE NextSegment
  BY <1>8, NextSegmentKeeps
<1>9. CASE Spawn
  BY <1>9, SpawnKeeps
<1>10. CASE Exec
  BY <1>10, ExecKeeps
<1>11. CASE \E s \in spaces : Switch(s) \/ Exit(s)
  BY <1>11, SwitchKeeps
<1>12. CASE \E addr \in Addresses : BrkDown(addr)
  BY <1>12, BrkDownKeeps
<1>13. CASE \E addr \in Addresses : BrkUp(addr)
  BY <1>13, BrkUpKeeps
<1>14. CASE BrkDone
  BY <1>14, BrkDoneKeeps
<1>15. CASE \E va \in UserPages : Touch(va)
  BY <1>15, TouchKeeps
<1> QED BY <1>1, <1>2, <1>3, <1>4, <1>5, <1>6, <1>7, <1>8, <1>9, <1>10, <1>11, <1>12, <1>13,
           <1>14, <1>15 DEF Next

\* The tables of user memory stay a tree with the roots of the processes, whatever
\* runs out, and the breaks and the CPU agree with it.
THEOREM Invariance == Spec => []Inv
BY InitInv, NextInv, PTL DEF Spec

-----------------------------------------------------------------------------
(* What it means *)

\* The tables of different processes share no frame, and no frame in use is free:
\* each is in one place, however often building a space has failed.
THEOREM FramesAreExclusive == Spec => []Exclusive
<1>1. Inv => Exclusive
  <2> SUFFICES ASSUME Inv, NEW f \in Frames
               PROVE  /\ Cardinality(References(f)) <= 1
                      /\ f \in pool \cup {s.root : s \in spaces} => References(f) = {}
                      /\ f \in pool => \A s \in spaces : s.root # f
    BY DEF Inv, Exclusive
  <2>1. Tree(entry) /\ (\A g \in pool : Spare(entry, g))
        /\ \A s \in spaces : IsRoot(entry, s.root) /\ s.root \notin pool
    BY CurrentIsOwned DEF Inv, Apart
  <2>2. \A r, q \in References(f) : r = q
    <3> SUFFICES ASSUME NEW r \in References(f), NEW q \in References(f) PROVE r = q
      OBVIOUS
    <3>1. /\ r = <<r[1], r[2]>> /\ q = <<q[1], q[2]>>
          /\ r[1] \in Frames /\ r[2] \in Indices /\ q[1] \in Frames /\ q[2] \in Indices
          /\ entry[r[1]][r[2]] = f /\ entry[q[1]][q[2]] = f
      BY DEF References
    <3>2. r[1] = q[1] /\ r[2] = q[2]
      BY <2>1, <3>1 DEF Tree, Single
    <3> QED BY <3>1, <3>2
  <2>3. Cardinality(References(f)) <= 1
    <3>1. CASE References(f) = {}
      BY <3>1, FS_EmptySet
    <3>2. CASE References(f) # {}
      <4>1. PICK r : r \in References(f)
        BY <3>2
      <4>2. References(f) = {r}
        BY <2>2, <4>1
      <4> QED BY <4>2, FS_Singleton
    <3> QED BY <3>1, <3>2
  <2>4. Alone(entry, f) => References(f) = {}
    BY DEF Alone, References
  <2> QED BY <2>1, <2>3, <2>4 DEF Spare, IsRoot
<1> QED BY <1>1, Invariance, PTL

\* Every page from the start of the heap to the break is mapped, in every space.
THEOREM HeapIsMapped == Spec => []HeapMapped
<1>1. Inv => HeapMapped
  BY DEF Inv
<1> QED BY <1>1, Invariance, PTL

\* invlpg and the loads of CR3 are enough: the CPU translates as the tables do.
THEOREM TlbIsCoherent == Spec => []TlbCoherent
<1>1. Inv => TlbCoherent
  BY DEF Inv, Coherent, TlbCoherent
<1> QED BY <1>1, Invariance, PTL

\* The pages of a stack and below a break stay where they are.
THEOREM PagesStay == Spec => PagesKept
<1> DEFINE A == \A s \in spaces, t \in spaces' : s.root = t.root =>
                  \A va \in Stack \cup 0 .. PageUp(Least(s.brk, t.brk)) - 1 :
                    Translate(entry', s.root, va) = Translate(entry, s.root, va)
<1>1. Inv /\ [Next]_vars => [A]_vars
  <2> SUFFICES ASSUME Inv, Next, NEW s \in spaces, NEW t \in spaces', s.root = t.root,
                      NEW va \in Stack \cup 0 .. PageUp(Least(s.brk, t.brk)) - 1
               PROVE  Translate(entry', s.root, va) = Translate(entry, s.root, va)
    BY DEF Next
  <2>1. Inv'
    BY NextInv
  <2>2. va \in UserPages /\ s.root \in Owned
        /\ (va \in Stack \/ va < PageUp(s.brk)) /\ va \in Nat
    <3>1. s.brk \in Nat /\ t.brk \in Nat /\ Bounded(s.brk) /\ PageUp(s.brk) \in Nat
      BY <2>1, HeapIsUser, PageUpFacts DEF Inv, TypeOK, Current
    <3>2. Least(s.brk, t.brk) \in Nat /\ Least(s.brk, t.brk) <= s.brk
      BY <3>1 DEF Least
    <3> DEFINE b == Least(s.brk, t.brk)
    <3> HIDE DEF b
    <3>3. 0 .. PageUp(b) - 1 \subseteq 0 .. PageUp(s.brk) - 1 /\ Bounded(b)
      BY <3>1, <3>2, BoundedBelow DEF b
    <3>4. va \in Stack \/ va \in 0 .. PageUp(b) - 1
      BY DEF b
    <3>5. va \in UserPages
      BY <3>3, <3>4, UserPagesFacts DEF Bounded
    <3>6. va \in Stack \/ va < PageUp(s.brk)
      BY <3>1, <3>3, <3>4
    <3> QED BY <3>5, <3>6, CurrentIsOwned, TableFacts
  <2>3. CASE entry' = entry
    BY <2>3
  <2>4. CASE CreateSpace
    <3> DEFINE root == Lowest(pool)
    <3>1. /\ InUser \/ Fresh
          /\ pool # {} /\ entry' = Rooted(entry, root, cr3)
      BY <2>4 DEF CreateSpace, UpperHalf, Rooted
    <3>2. root \in pool
      BY <3>1, LowestIsFree DEF Inv, TypeOK
    <3> HIDE DEF root
    <3>3. Tree(entry) /\ Spare(entry, root) /\ (cr3 = KernelRoot \/ IsRoot(entry, cr3))
      BY <3>1, <3>2, CurrentIsOwned DEF Inv, Apart, Fresh, InUser, Boot
    <3>4. IsRoot(entry, s.root) /\ s.root # root
      BY <2>2, <3>2 DEF Inv, Apart
    <3> QED BY <2>2, <3>1, <3>3, <3>4, RootedTree
  <2>5. CASE MapNext \/ NoTable
    <3>1. Mapping /\ pool # {} /\ entry' = Mapped.entry /\ (NoTable => ~Mapped.ok)
      BY <2>5 DEF MapNext, NoTable
    <3>2. ~(Mapped.ok /\ s.root = job.root /\ va = job.next)
      <4> SUFFICES ASSUME s.root = job.root, va = job.next PROVE FALSE
        OBVIOUS
      <4>1. Working /\ job.op \in {"stack", "load", "brk"} /\ job.next <= job.last
        BY <3>1 DEF Inv, Mapping
      <4>2. job.op = "brk"
        BY <4>1 DEF Working
      <4>3. /\ job.root = cr3 /\ job.last < StackBottom
            /\ \A u \in spaces : u.root = cr3 => PageUp(u.brk) <= job.next
        BY <4>1, <4>2 DEF Working
      <4>4. PageUp(s.brk) <= va /\ va <= job.last
        BY <4>1, <4>3
      <4>5. PageUp(s.brk) \in Nat /\ job.last \in Nat /\ StackBottom \in Nat
        <5>1. s.brk \in Nat /\ job.last \in UserPages
          BY HeapIsUser DEF Inv, JobTyped
        <5> QED BY <5>1, PageUpFacts, TableFacts, UserPagesFacts
      <4> QED BY <2>2, <4>3, <4>4, <4>5, UserPagesFacts DEF Stack
    <3> QED BY <2>2, <3>1, <3>2, MappedEffect
  <2>6. \/ entry' = entry \/ CreateSpace \/ MapNext \/ NoTable
    BY DEF Next, CreateRefused, KernelShell, NoFrame, Load, NextSegment, BadElf, Spawn, Exec,
           Switch, Exit, BrkRefused, BrkDown, BrkUp, BrkDone, Touch, vars
  <2> QED BY <2>3, <2>4, <2>5, <2>6
<1> QED BY <1>1, Invariance, PTL DEF Spec, PagesKept, A

-----------------------------------------------------------------------------
(* Paths taken from a program *)

\* Places in memory, and what a copy may have come to.
Places == [frame : Frames, at : Nat]
Copies == [ok : BOOLEAN, read : Seq(Places)]

\* The copy goes on at byte i.
Readable(src, i) == InUserMemory(src + i) /\ Place(src, src + i).frame # NONE

\* What byte i adds to the copy x of the bytes behind it.
Byte(src, end, i, x) ==
  IF i + 1 >= Cap \/ ~Readable(src, i) THEN [ok |-> FALSE, read |-> <<>>]
  ELSE IF src + i = end THEN [ok |-> TRUE, read |-> <<Place(src, end)>>]
  ELSE [ok |-> x.ok, read |-> <<Place(src, src + i)>> \o x.read]

\* A sequence with one more element in front.
LEMMA Prepend ==
  ASSUME NEW S, NEW x \in S, NEW s \in Seq(S)
  PROVE  /\ <<x>> \o s \in Seq(S)
         /\ Len(<<x>> \o s) = Len(s) + 1
         /\ (<<x>> \o s)[1] = x
         /\ \A k \in 2 .. Len(s) + 1 : (<<x>> \o s)[k] = s[k - 1]
OBVIOUS

\* A copy with more places in front.
LEMMA Longer ==
  ASSUME NEW x \in Copies, NEW s
  PROVE  [x EXCEPT !.read = s \o @] = [ok |-> x.ok, read |-> s \o x.read]
<1> DEFINE q == s \o x.read
<1>1. x = [ok |-> x.ok, read |-> x.read]
  BY DEF Copies
<1>2. [x EXCEPT !.read = s \o @] = [x EXCEPT !.read = q]
  OBVIOUS
<1> HIDE DEF q
<1>3. [x EXCEPT !.read = q] = [ok |-> x.ok, read |-> q]
  BY <1>1
<1> QED BY <1>2, <1>3 DEF q

\* A page of user memory is a user page; its place is a frame in use if it is
\* mapped.
LEMMA PlaceFacts ==
  ASSUME Inv, InUser, NEW src, NEW a \in Nat, InUserMemory(a)
  PROVE  /\ a \div PageSize \in UserPages
         /\ Place(src, a).frame # NONE =>
              /\ Place(src, a) \in Places
              /\ Place(src, a).frame \notin pool \cup {s.root : s \in spaces}
<1> DEFINE va == a \div PageSize
           f == Translate(entry, cr3, va)
<1>1. PageSize \in Nat /\ PageSize > 0
  BY UserPagesFacts
<1>2. va \in UserPages
  <2> DEFINE z == UserLimit - 1
             top == z \div PageSize
  <2>1. a <= z /\ z \in Nat /\ top \in UserPages
    BY UserStringAssumption DEF InUserMemory
  <2>2. \A x, y, m \in Nat : y > 0 /\ x <= m => x \div y \in Nat /\ x \div y <= m \div y
    OBVIOUS
  <2> HIDE DEF z
  <2>3. va \in Nat /\ va <= top
    BY <1>1, <2>1, <2>2
  <2> HIDE DEF va, top
  <2> QED BY <2>1, <2>3, UserPagesFacts
<1>3. Tree(entry) /\ IsRoot(entry, cr3)
  BY CurrentIsOwned DEF Inv, Apart, InUser, Boot
<1> HIDE DEF va
<1>4. f \in Frames \cup {NONE} /\ (f # NONE => ~Alone(entry, f))
  BY <1>2, <1>3, TranslateInTree
<1>5. f # NONE => f \notin pool \cup {s.root : s \in spaces}
  <2>1. \A g \in pool : Alone(entry, g)
    BY DEF Inv, Apart, Spare
  <2>2. \A s \in spaces : Alone(entry, s.root)
    BY CurrentIsOwned DEF Inv, Apart, IsRoot
  <2> QED BY <1>4, <2>1, <2>2
<1>6. a % PageSize \in Nat
  BY <1>1
<1>7. Place(src, a) = [frame |-> f, at |-> a % PageSize]
  BY DEF Place, va
<1> HIDE DEF f
<1> QED BY <1>2, <1>4, <1>5, <1>6, <1>7 DEF Places, va

\* Copying is what each byte makes of the copy behind it.
LEMMA CopyingDef ==
  ASSUME Inv, InUser, NEW src \in Nat, NEW end \in Nat
  PROVE  \A i \in 0 .. Cap - 1 :
           /\ Copying(src, end)[i] \in Copies
           /\ i < Cap - 1 =>
                Copying(src, end)[i] = Byte(src, end, i, Copying(src, end)[i + 1])
           /\ i = Cap - 1 => Copying(src, end)[i] = [ok |-> FALSE, read |-> <<>>]
<1> DEFINE Body(from) == [i \in 0 .. Cap - 1 |->
        IF i + 1 >= Cap \/ ~InUserMemory(src + i) \/ Place(src, src + i).frame = NONE
          THEN [ok |-> FALSE, read |-> <<>>]
        ELSE IF src + i = end
          THEN [ok |-> TRUE, read |-> <<Place(src, end)>>]
        ELSE [from[i + 1] EXCEPT !.read = <<Place(src, src + i)>> \o @]]
           none == [ok |-> FALSE, read |-> <<>>]
           h == [i \in 0 .. Cap - 1 |-> [x \in Copies |-> Byte(src, end, i, x)]]
<1>1. Cap \in Nat /\ Cap > 0 /\ Cap - 1 \in Nat /\ 0 \in 0 .. Cap - 1
  BY UserStringAssumption
<1>2. none \in Copies
  BY DEF Copies
<1>3. \A i \in 0 .. Cap - 1 : \A x \in Copies : Byte(src, end, i, x) \in Copies
  <2> SUFFICES ASSUME NEW i \in 0 .. Cap - 1, NEW x \in Copies, Readable(src, i)
               PROVE  Byte(src, end, i, x) \in Copies
    BY <1>2 DEF Byte
  <2> DEFINE p == Place(src, src + i)
  <2>1. p \in Places
    BY PlaceFacts DEF Readable
  <2> HIDE DEF p
  <2>2. x.ok \in BOOLEAN /\ x.read \in Seq(Places)
    BY DEF Copies
  <2>3. <<p>> \o x.read \in Seq(Places) /\ <<p>> \in Seq(Places)
    BY <2>1, <2>2
  <2>4. /\ [ok |-> TRUE, read |-> <<p>>] \in Copies
        /\ [ok |-> x.ok, read |-> <<p>> \o x.read] \in Copies
    BY <2>2, <2>3 DEF Copies
  <2>5. Byte(src, end, i, x) \in {none, [ok |-> TRUE, read |-> <<p>>],
                                  [ok |-> x.ok, read |-> <<p>> \o x.read]}
    BY DEF Byte, p
  <2> QED BY <1>2, <2>4, <2>5
<1>4. Maps(h, Cap - 1, Copies)
  BY <1>3 DEF Maps
<1>5. \A i \in 0 .. Cap - 1 : \A x \in Copies : h[i][x] = Byte(src, end, i, x)
  OBVIOUS
<1> HIDE DEF h, none
<1>6. PICK f : Follows(f, 0, Cap - 1, Copies, none, h)
  <2> DEFINE hi == Cap - 1
  <2>1. hi \in Nat /\ 0 \in 0 .. hi /\ Maps(h, hi, Copies)
    BY <1>1, <1>4
  <2> HIDE DEF hi
  <2>2. \E f : Follows(f, 0, hi, Copies, none, h)
    BY <1>2, <2>1, Recursion
  <2> QED BY <2>2 DEF hi
<1>7. /\ f \in [0 .. Cap - 1 -> Copies] /\ f[Cap - 1] = none
      /\ \A i \in 0 .. (Cap - 1) - 1 : f[i] = h[i][f[i + 1]]
  BY <1>6 DEF Follows
<1>8. f = Body(f)
  <2>1. ASSUME NEW i \in 0 .. Cap - 1 PROVE f[i] = Body(f)[i]
    <3>1. CASE i = Cap - 1
      BY <3>1, <1>1, <1>7 DEF none
    <3>2. CASE i # Cap - 1
      <4>1. i \in 0 .. (Cap - 1) - 1 /\ i + 1 \in 0 .. Cap - 1 /\ ~(i + 1 >= Cap)
        BY <3>2, <1>1
      <4>2. f[i + 1] \in Copies /\ f[i] = Byte(src, end, i, f[i + 1])
        BY <4>1, <1>5, <1>7
      <4>3. [f[i + 1] EXCEPT !.read = <<Place(src, src + i)>> \o @]
              = [ok |-> f[i + 1].ok, read |-> <<Place(src, src + i)>> \o f[i + 1].read]
        BY <4>2, Longer
      <4> QED BY <4>1, <4>2, <4>3 DEF Byte, Readable
    <3> QED BY <3>1, <3>2
  <2> QED BY <2>1, <1>7
<1>9. Copying(src, end) = CHOOSE from : from = Body(from)
  BY DEF Copying
<1>10. Copying(src, end) = Body(Copying(src, end))
  <2> HIDE DEF Body
  <2> QED BY <1>8, <1>9, Zenon
<1> DEFINE c == Copying(src, end)
<1>11. c = Body(c)
  BY <1>10
<1> HIDE DEF c
<1>12. c[Cap - 1] = none
  BY <1>1, <1>11 DEF none
<1> DEFINE S == {i \in 0 .. Cap - 1 : c[i] \in Copies}
<1>13. ASSUME NEW i \in 0 .. (Cap - 1) - 1, c[i + 1] \in Copies
       PROVE  c[i] = Byte(src, end, i, c[i + 1]) /\ c[i] \in Copies
  <2>1. i \in 0 .. Cap - 1 /\ ~(i + 1 >= Cap)
    BY <1>1
  <2>2. [c[i + 1] EXCEPT !.read = <<Place(src, src + i)>> \o @]
          = [ok |-> c[i + 1].ok, read |-> <<Place(src, src + i)>> \o c[i + 1].read]
    BY <1>13, Longer
  <2>3. c[i] = IF ~Readable(src, i) THEN none
               ELSE IF src + i = end THEN [ok |-> TRUE, read |-> <<Place(src, end)>>]
               ELSE [c[i + 1] EXCEPT !.read = <<Place(src, src + i)>> \o @]
    BY <2>1, <1>11 DEF Readable, none
  <2>4. c[i] = Byte(src, end, i, c[i + 1])
    BY <2>1, <2>2, <2>3 DEF Byte, none
  <2> QED BY <2>1, <2>4, <1>3, <1>13
<1>14. 0 .. Cap - 1 \subseteq S
  <2>1. Cap - 1 \in S
    BY <1>1, <1>2, <1>12
  <2>2. ASSUME NEW i \in 0 .. (Cap - 1) - 1, i + 1 \in S PROVE i \in S
    BY <2>2, <1>1, <1>13
  <2> DEFINE hi == Cap - 1
  <2> HIDE DEF S
  <2>3. hi \in Nat /\ hi \in S /\ \A i \in 0 .. hi - 1 : i + 1 \in S => i \in S
    BY <1>1, <2>1, <2>2
  <2> HIDE DEF hi
  <2>4. 0 .. hi \subseteq S
    BY <2>3, Descent
  <2> QED BY <2>4 DEF hi
<1> SUFFICES ASSUME NEW i \in 0 .. Cap - 1
             PROVE  /\ c[i] \in Copies
                    /\ i < Cap - 1 => c[i] = Byte(src, end, i, c[i + 1])
                    /\ i = Cap - 1 => c[i] = none
  BY DEF c, none
<1>15. c[i] \in Copies
  BY <1>14
<1>16. ASSUME i < Cap - 1 PROVE c[i] = Byte(src, end, i, c[i + 1])
  <2>1. i \in 0 .. (Cap - 1) - 1 /\ i + 1 \in 0 .. Cap - 1
    BY <1>16, <1>1
  <2> QED BY <2>1, <1>13, <1>14
<1> QED BY <1>12, <1>15, <1>16

\* The copy from byte i on: whether it takes the rest of the string, and the
\* places it reads, one after the other.
Right(src, end, i, x) ==
  src + i <= end =>
    /\ x.ok <=> /\ end - src < Cap - 1
                /\ \A j \in i .. end - src : Readable(src, j)
    /\ \A k \in 1 .. Len(x.read) :
         /\ Readable(src, i + k - 1)
         /\ x.read[k] = Place(src, src + (i + k - 1))

\* A byte in front of a right copy leaves a right copy.
LEMMA ByteIsRight ==
  ASSUME Inv, InUser, NEW src \in Nat, NEW end \in Nat, NEW i \in 0 .. Cap - 2,
         NEW x \in Copies, Right(src, end, i + 1, x)
  PROVE  Right(src, end, i, Byte(src, end, i, x))
<1> DEFINE y == Byte(src, end, i, x)
           p == Place(src, src + i)
<1> SUFFICES ASSUME src + i <= end
             PROVE  /\ y.ok <=> /\ end - src < Cap - 1
                                /\ \A j \in i .. end - src : Readable(src, j)
                    /\ \A k \in 1 .. Len(y.read) :
                         /\ Readable(src, i + k - 1)
                         /\ y.read[k] = Place(src, src + (i + k - 1))
  BY DEF Right
<1>1. Cap \in Nat /\ i + 1 < Cap /\ i \in Nat /\ i \in i .. end - src
  BY UserStringAssumption
<1>2. CASE ~Readable(src, i)
  <2>1. y = [ok |-> FALSE, read |-> <<>>]
    BY <1>2 DEF Byte
  <2> HIDE DEF y
  <2> QED BY <1>1, <1>2, <2>1
<1>3. CASE Readable(src, i) /\ src + i = end
  <2>1. y = [ok |-> TRUE, read |-> <<p>>]
    <3>1. ~(i + 1 >= Cap)
      BY <1>1
    <3>2. Place(src, end) = p
      BY <1>3
    <3>3. y = [ok |-> TRUE, read |-> <<Place(src, end)>>]
      BY <1>3, <3>1, Zenon DEF Byte
    <3> QED BY <3>2, <3>3
  <2> HIDE DEF y
  <2>2. \A j \in i .. end - src : j = i
    BY <1>1, <1>3
  <2>3. y.ok = TRUE /\ Len(y.read) = 1 /\ y.read[1] = p
    BY <2>1
  <2>4. end - src < Cap - 1
    BY <1>1, <1>3
  <2>5. \A k \in 1 .. 1 : k = 1 /\ i + k - 1 = i
    BY <1>1
  <2> HIDE DEF p
  <2>6. \A k \in 1 .. Len(y.read) : /\ Readable(src, i + k - 1)
                                    /\ y.read[k] = Place(src, src + (i + k - 1))
    BY <1>3, <2>3, <2>5 DEF p
  <2> QED BY <1>3, <2>2, <2>3, <2>4, <2>6
<1>4. CASE Readable(src, i) /\ src + i # end
  <2>1. y = [ok |-> x.ok, read |-> <<p>> \o x.read]
    BY <1>1, <1>4 DEF Byte
  <2>2. src + (i + 1) <= end
    BY <1>1, <1>4
  <2>3. /\ x.ok <=> /\ end - src < Cap - 1
                    /\ \A j \in i + 1 .. end - src : Readable(src, j)
        /\ \A k \in 1 .. Len(x.read) :
             /\ Readable(src, (i + 1) + k - 1)
             /\ x.read[k] = Place(src, src + ((i + 1) + k - 1))
    BY <2>2 DEF Right
  <2> HIDE DEF y
  <2>4. y.ok <=> x.ok
    BY <2>1
  <2>5. (\A j \in i .. end - src : Readable(src, j))
          <=> (\A j \in i + 1 .. end - src : Readable(src, j))
    <3>1. \A j \in i .. end - src : j = i \/ j \in i + 1 .. end - src
      BY <1>1
    <3>2. \A j \in i + 1 .. end - src : j \in i .. end - src
      BY <1>1
    <3> QED BY <1>4, <3>1, <3>2, Zenon
  <2>6. ASSUME NEW k \in 1 .. Len(y.read)
        PROVE  Readable(src, i + k - 1) /\ y.read[k] = Place(src, src + (i + k - 1))
    <3>1. p \in Places
      <4>1. src + i \in Nat
        BY <1>1
      <4> QED BY <4>1, <1>4, PlaceFacts DEF Readable
    <3> HIDE DEF p
    <3>2. x.read \in Seq(Places) /\ y.read = <<p>> \o x.read
      BY <2>1 DEF Copies
    <3> DEFINE s == x.read
    <3>3. /\ Len(y.read) = Len(s) + 1 /\ Len(s) \in Nat
          /\ y.read[1] = p
          /\ \A n \in 2 .. Len(s) + 1 : y.read[n] = s[n - 1]
      <4>1. s \in Seq(Places) /\ y.read = <<p>> \o s
        BY <3>2
      <4> HIDE DEF s
      <4> QED BY <3>1, <4>1, Prepend
    <3>4. CASE k = 1
      <4>1. i + k - 1 = i
        BY <1>1, <3>4
      <4> QED BY <1>4, <3>3, <3>4, <4>1 DEF p
    <3>5. CASE k # 1
      <4>1. k \in 2 .. Len(s) + 1 /\ k - 1 \in 1 .. Len(s)
            /\ (i + 1) + (k - 1) - 1 = i + k - 1
        BY <1>1, <3>3, <3>5
      <4>2. /\ Readable(src, (i + 1) + (k - 1) - 1)
            /\ s[k - 1] = Place(src, src + ((i + 1) + (k - 1) - 1))
        BY <2>3, <4>1
      <4> QED BY <3>3, <4>1, <4>2
    <3> QED BY <3>4, <3>5
  <2> QED BY <2>3, <2>4, <2>5, <2>6
<1> QED BY <1>2, <1>3, <1>4

\* copy_user_string is right from the first byte on.
LEMMA CopyIsRight ==
  ASSUME Inv, InUser, NEW src \in Nat, NEW end \in Nat, src <= end
  PROVE  CopyUserString(src, end) \in Copies /\ Right(src, end, 0, CopyUserString(src, end))
<1> DEFINE c == Copying(src, end)
           hi == Cap - 1
           S == {i \in 0 .. Cap - 1 : Right(src, end, i, c[i])}
<1>1. Cap \in Nat /\ hi \in Nat /\ 0 \in 0 .. hi /\ hi \in 0 .. Cap - 1
  BY UserStringAssumption
<1>2. hi \in S
  <2>1. c[hi] = [ok |-> FALSE, read |-> <<>>]
    BY <1>1, CopyingDef
  <2> HIDE DEF c
  <2>2. Right(src, end, hi, c[hi])
    BY <1>1, <2>1 DEF Right
  <2> QED BY <1>1, <2>2
<1>3. ASSUME NEW i \in 0 .. hi - 1, i + 1 \in S PROVE i \in S
  <2>1. i \in 0 .. Cap - 1 /\ i < Cap - 1 /\ i + 1 \in 0 .. Cap - 1 /\ i \in 0 .. Cap - 2
    BY <1>1
  <2>2. c[i] = Byte(src, end, i, c[i + 1]) /\ c[i + 1] \in Copies
    BY <2>1, CopyingDef
  <2>3. Right(src, end, i + 1, c[i + 1])
    BY <1>3
  <2> HIDE DEF c
  <2>4. Right(src, end, i, c[i])
    BY <2>1, <2>2, <2>3, ByteIsRight
  <2> QED BY <2>1, <2>4
<1> HIDE DEF S, hi
<1>4. 0 .. hi \subseteq S
  BY <1>1, <1>2, <1>3, Descent
<1>5. Right(src, end, 0, c[0]) /\ 0 \in 0 .. Cap - 1
  BY <1>1, <1>4 DEF S, hi
<1> QED BY <1>5, CopyingDef DEF CopyUserString

\* A program can only have a path read that is its own, and whole; and what is
\* read is where the CPU would read it, in no frame that is free or a root.
THEOREM PathsAreTheCallers == Spec => []PathIsTheCallers
<1>1. Inv => PathIsTheCallers
  <2> SUFFICES ASSUME Inv, InUser, NEW src \in 0 .. UserLimit, NEW end \in src .. src + Cap
               PROVE  LET copy == CopyUserString(src, end) IN
                      /\ copy.ok <=> /\ end - src < Cap - 1
                                     /\ \A a \in src .. end : InUserMemory(a) /\ IsMapped(a)
                      /\ \A i \in DOMAIN copy.read :
                           LET a == src + i - 1 IN
                           /\ copy.read[i].frame \notin pool \cup {s.root : s \in spaces}
                           /\ copy.read[i] = [frame |-> Translate(entry, cr3, a \div PageSize),
                                              at |-> a % PageSize]
                           /\ \A t \in tlb : t[1] = a \div PageSize => copy.read[i].frame = t[2]
    BY DEF PathIsTheCallers
  <2>1. src \in Nat /\ end \in Nat /\ src <= end
    <3>1. UserLimit \in Nat /\ Cap \in Nat
      BY UserStringAssumption
    <3> QED BY <3>1
  <2> DEFINE copy == CopyUserString(src, end)
  <2>2. copy \in Copies /\ Right(src, end, 0, copy)
    BY <2>1, CopyIsRight
  <2> HIDE DEF copy
  <2>3. src + 0 <= end
    BY <2>1
  <2>4. /\ copy.ok <=> /\ end - src < Cap - 1
                       /\ \A j \in 0 .. end - src : Readable(src, j)
        /\ \A k \in 1 .. Len(copy.read) :
             /\ Readable(src, 0 + k - 1)
             /\ copy.read[k] = Place(src, src + (0 + k - 1))
    BY <2>2, <2>3 DEF Right
  <2>5. \A a : IsMapped(a) <=> Place(src, a).frame # NONE
    BY DEF IsMapped, Place
  <2>6. (\A j \in 0 .. end - src : Readable(src, j))
          <=> (\A a \in src .. end : InUserMemory(a) /\ IsMapped(a))
    <3>1. ASSUME \A j \in 0 .. end - src : Readable(src, j), NEW a \in src .. end
          PROVE  InUserMemory(a) /\ IsMapped(a)
      <4>1. a - src \in 0 .. end - src /\ src + (a - src) = a
        BY <2>1
      <4>2. Readable(src, a - src)
        BY <3>1, <4>1
      <4> QED BY <2>5, <4>1, <4>2 DEF Readable
    <3>2. ASSUME \A a \in src .. end : InUserMemory(a) /\ IsMapped(a),
                 NEW j \in 0 .. end - src
          PROVE  Readable(src, j)
      <4>1. src + j \in src .. end
        BY <2>1
      <4>2. InUserMemory(src + j) /\ IsMapped(src + j)
        BY <3>2, <4>1
      <4> QED BY <2>5, <4>2 DEF Readable
    <3> QED BY <3>1, <3>2
  <2>7. ASSUME NEW i \in DOMAIN copy.read
        PROVE  LET a == src + i - 1 IN
               /\ copy.read[i].frame \notin pool \cup {s.root : s \in spaces}
               /\ copy.read[i] = [frame |-> Translate(entry, cr3, a \div PageSize),
                                  at |-> a % PageSize]
               /\ \A t \in tlb : t[1] = a \div PageSize => copy.read[i].frame = t[2]
    <3> DEFINE a == src + i - 1
    <3>1. i \in 1 .. Len(copy.read) /\ i \in Nat /\ a \in Nat
          /\ src + (0 + i - 1) = a
      BY <2>1, <2>2 DEF Copies
    <3>2. Readable(src, 0 + i - 1) /\ copy.read[i] = Place(src, a)
      BY <2>4, <3>1
    <3> HIDE DEF a
    <3>3. InUserMemory(a) /\ Place(src, a).frame # NONE
      BY <3>1, <3>2 DEF Readable
    <3>4. Place(src, a).frame \notin pool \cup {s.root : s \in spaces}
      BY <3>1, <3>3, PlaceFacts
    <3>5. Place(src, a) = [frame |-> Translate(entry, cr3, a \div PageSize),
                           at |-> a % PageSize]
      BY DEF Place
    <3>6. \A t \in tlb : t[1] = a \div PageSize => Place(src, a).frame = t[2]
      BY <3>5 DEF Inv, Coherent
    <3> QED BY <3>2, <3>4, <3>5, <3>6 DEF a
  <2> QED BY <2>4, <2>6, <2>7 DEF copy
<1> QED BY <1>1, Invariance, PTL

=============================================================================
