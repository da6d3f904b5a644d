--------------------------- MODULE UserlandProofs ----------------------------
(***************************************************************************)
(* The keyboard driver, the strings, the numbers and the formatted output  *)
(* of the C library, and the shell: what is typed, what the shell shows of *)
(* it, and what its commands are given.                                    *)
(***************************************************************************)
EXTENDS CStrings, Format, Keyboard, Shell, TLAPS, SequenceTheorems, WellFoundedInduction

-----------------------------------------------------------------------------
(* Loops, by induction *)

Memories == [Addresses -> Bytes]

\* A nonempty set of natural numbers has a least element.
LEMMA FirstNumber ==
  ASSUME NEW S \in SUBSET Nat, S # {}
  PROVE  \E x \in S : \A y \in S : x <= y
<1> DEFINE R == OpToRel(<, Nat)
<1>1. IsWellFoundedOn(R, Nat)
  BY NatLessThanWellFounded, Zenon DEF R
<1>2. \A x, y \in Nat : <<y, x>> \in R <=> y < x
  BY DEF OpToRel
<1> HIDE DEF R
<1>3. PICK x \in S : \A y \in S : ~(<<y, x>> \in R)
  BY <1>1, WFMin, Zenon
<1>4. \A y \in S : ~(y < x)
  BY <1>2, <1>3
<1> QED BY <1>4

\* What holds at the first step of a loop, and at each that follows one where it
\* holds, holds at all its steps.
LEMMA Upward ==
  ASSUME NEW lo \in Int, NEW hi \in Int, NEW S, lo \in S,
         \A i \in lo .. hi - 1 : i \in S => i + 1 \in S
  PROVE  lo .. hi \subseteq S
<1> SUFFICES ASSUME NEW k \in lo .. hi, k \notin S PROVE FALSE
  OBVIOUS
<1> DEFINE T == {n \in Nat : lo + n <= hi /\ lo + n \notin S}
<1>1. k - lo \in T /\ T \in SUBSET Nat
  OBVIOUS
<1>2. PICK n \in T : \A j \in T : n <= j
  BY <1>1, FirstNumber
<1>3. n \in Nat /\ lo + n <= hi /\ lo + n \notin S /\ n # 0
  BY <1>2
<1>4. /\ lo + (n - 1) \in lo .. hi - 1 /\ (lo + (n - 1)) + 1 = lo + n
      /\ n - 1 \in Nat /\ lo + (n - 1) <= hi /\ ~(n <= n - 1)
  BY <1>3
<1>5. lo + (n - 1) \notin S
  BY <1>3, <1>4
<1>6. n - 1 \in T
  BY <1>4, <1>5
<1> QED BY <1>2, <1>4, <1>6

\* The same from the last step down.
LEMMA Downward ==
  ASSUME NEW lo \in Int, NEW hi \in Int, NEW S, hi \in S,
         \A i \in lo .. hi - 1 : i + 1 \in S => i \in S
  PROVE  lo .. hi \subseteq S
<1> SUFFICES ASSUME NEW k \in lo .. hi, k \notin S PROVE FALSE
  OBVIOUS
<1> DEFINE T == {n \in Nat : lo <= hi - n /\ hi - n \notin S}
<1>1. hi - k \in T /\ T \in SUBSET Nat
  OBVIOUS
<1>2. PICK n \in T : \A j \in T : n <= j
  BY <1>1, FirstNumber
<1>3. n \in Nat /\ lo <= hi - n /\ hi - n \notin S /\ n # 0
  BY <1>2
<1>4. /\ hi - n \in lo .. hi - 1 /\ (hi - n) + 1 = hi - (n - 1)
      /\ n - 1 \in Nat /\ lo <= hi - (n - 1) /\ ~(n <= n - 1)
  BY <1>3
<1>5. hi - (n - 1) \notin S
  BY <1>3, <1>4
<1>6. n - 1 \in T
  BY <1>4, <1>5
<1> QED BY <1>2, <1>4, <1>6

\* Two functions that agree on the first step, and on each that follows one on
\* which they agree, agree.
LEMMA SameSteps ==
  ASSUME NEW n \in Nat, NEW f, NEW g, f[0] = g[0],
         \A i \in 0 .. n - 1 : f[i] = g[i] => f[i + 1] = g[i + 1]
  PROVE  f[n] = g[n]
<1> DEFINE S == {i \in 0 .. n : f[i] = g[i]}
<1>1. 0 \in S
  OBVIOUS
<1>2. \A i \in 0 .. n - 1 : i \in S => i + 1 \in S
  OBVIOUS
<1>3. 0 .. n \subseteq S
  <2> HIDE DEF S
  <2> QED BY <1>1, <1>2, Upward
<1> QED BY <1>3

\* What holds of a number whenever it holds of all below it holds of all.
LEMMA FromTheStart ==
  ASSUME NEW hi \in Nat, NEW S,
         \A n \in 0 .. hi : (\A m \in 0 .. n - 1 : m \in S) => n \in S
  PROVE  \A n \in 0 .. hi : n \in S
<1> SUFFICES ASSUME NEW k \in 0 .. hi, k \notin S PROVE FALSE
  OBVIOUS
<1> DEFINE T == {m \in Nat : m <= hi /\ m \notin S}
<1>1. k \in T /\ T \in SUBSET Nat
  OBVIOUS
<1>2. PICK m \in T : \A j \in T : m <= j
  BY <1>1, FirstNumber
<1>3. m \in 0 .. hi /\ m \notin S
  BY <1>2
<1>4. ASSUME NEW j \in 0 .. m - 1 PROVE j \in S
  <2>1. j \in Nat /\ j <= hi /\ ~(m <= j)
    BY <1>3
  <2> QED BY <1>2, <2>1
<1> QED BY <1>3, <1>4

-----------------------------------------------------------------------------
(* Areas *)

\* A byte written at p.
LEMMA Written1 ==
  ASSUME NEW m \in Memories, NEW p \in Addresses, NEW v \in Bytes
  PROVE  /\ [m EXCEPT ![p] = v] \in Memories
         /\ \A a \in Addresses : [m EXCEPT ![p] = v][a] = IF a = p THEN v ELSE m[a]
BY DEF Memories

\* Two memories with the same bytes are the same.
LEMMA SameBytes ==
  ASSUME NEW m \in Memories, NEW k \in Memories, \A a \in Addresses : m[a] = k[a]
  PROVE  m = k
BY DEF Memories

\* Bytes replaced by those of a slice.
LEMMA WithSlice ==
  ASSUME NEW m \in Memories, NEW d \in Addresses, NEW s \in Addresses, NEW n \in Nat,
         InMemory(d, n), InMemory(s, n)
  PROVE  /\ With(m, d, Slice(m, s, n)) \in Memories
         /\ \A a \in Addresses :
              With(m, d, Slice(m, s, n))[a] =
                IF a \in d .. d + n - 1 THEN m[s + (a - d)] ELSE m[a]
<1>1. MemSize \in Nat
  BY CStringsAssumption
<1> DEFINE f == Slice(m, s, n)
<1>2. DOMAIN f = 0 .. n - 1 /\ \A i \in 0 .. n - 1 : f[i] = m[s + i] /\ s + i \in Addresses
  BY <1>1 DEF Slice, Addresses, InMemory
<1> HIDE DEF f
<1>3. \A a \in Addresses : a - d \in 0 .. n - 1 <=> a \in d .. d + n - 1
  BY <1>1 DEF Addresses
<1>4. \A a \in Addresses : With(m, d, f)[a] = IF a - d \in 0 .. n - 1 THEN f[a - d] ELSE m[a]
  BY <1>2 DEF With
<1>5. \A a \in Addresses : With(m, d, f)[a] \in Bytes
  BY <1>2, <1>4 DEF Memories
<1>6. With(m, d, f) \in Memories
  BY <1>5 DEF With, Memories
<1> QED BY <1>2, <1>3, <1>4, <1>6 DEF f

\* memcpy copies an area to one in front of it or apart from it.
LEMMA MemcpyCopies ==
  ASSUME NEW m \in Memories, NEW d \in Addresses, NEW s \in Addresses, NEW n \in Nat,
         InMemory(d, n), InMemory(s, n), d <= s \/ s + n <= d
  PROVE  Memcpy(m, d, s, n) = With(m, d, Slice(m, s, n))
<1>1. MemSize \in Nat /\ d + n <= MemSize /\ s + n <= MemSize /\ d \in Nat /\ s \in Nat
  BY CStringsAssumption DEF InMemory, Addresses
<1> DEFINE Body(f) == [i \in 0 .. n |->
                         IF i = 0 THEN m ELSE [f[i - 1] EXCEPT ![d + i - 1] = f[i - 1][s + i - 1]]]
           w(i) == With(m, d, Slice(m, s, i))
           g == [i \in 0 .. n |-> w(i)]
<1>2. ASSUME NEW i \in 0 .. n
      PROVE  /\ w(i) \in Memories
             /\ \A a \in Addresses :
                  w(i)[a] = IF a \in d .. d + i - 1 THEN m[s + (a - d)] ELSE m[a]
  <2>1. i \in Nat /\ InMemory(d, i) /\ InMemory(s, i)
    BY <1>1 DEF InMemory
  <2> QED BY <2>1, WithSlice
<1> HIDE DEF w
<1>3. 0 \in 0 .. n /\ w(0) = m
  <2>1. 0 \in 0 .. n /\ \A a \in Addresses : w(0)[a] = m[a]
    BY <1>1, <1>2
  <2> QED BY <2>1, <1>2, SameBytes
<1>4. ASSUME NEW i \in 1 .. n
      PROVE  w(i) = [w(i - 1) EXCEPT ![d + i - 1] = w(i - 1)[s + i - 1]]
  <2>1. /\ i - 1 \in 0 .. n /\ i \in 0 .. n
        /\ d + i - 1 \in Addresses /\ s + i - 1 \in Addresses
        /\ s + i - 1 \notin d .. d + (i - 1) - 1
    BY <1>1 DEF Addresses
  <2>2. w(i - 1)[s + i - 1] = m[s + i - 1] /\ m[s + i - 1] \in Bytes
    BY <1>2, <2>1 DEF Memories
  <2> DEFINE k == [w(i - 1) EXCEPT ![d + i - 1] = w(i - 1)[s + i - 1]]
  <2>3. /\ k \in Memories
        /\ \A a \in Addresses : k[a] = IF a = d + i - 1 THEN m[s + i - 1] ELSE w(i - 1)[a]
    BY <1>2, <2>1, <2>2, Written1
  <2>4. ASSUME NEW a \in Addresses PROVE w(i)[a] = k[a]
    <3>1. CASE a = d + i - 1
      <4>1. a \in d .. d + i - 1 /\ s + (a - d) = s + i - 1
        BY <3>1, <1>1
      <4>2. w(i)[a] = m[s + (a - d)]
        BY <1>2, <2>1, <4>1
      <4> QED BY <3>1, <2>3, <4>1, <4>2
    <3>2. CASE a # d + i - 1
      <4>1. a \in d .. d + i - 1 <=> a \in d .. d + (i - 1) - 1
        BY <3>2, <1>1 DEF Addresses
      <4> QED BY <3>2, <1>2, <2>1, <2>3, <4>1
    <3> QED BY <3>1, <3>2
  <2> HIDE DEF k
  <2>5. w(i) = k
    BY <1>2, <2>1, <2>3, <2>4, SameBytes
  <2> QED BY <2>5 DEF k
<1>5. g = Body(g)
  <2>1. ASSUME NEW i \in 0 .. n
        PROVE  g[i] = IF i = 0 THEN m ELSE [g[i - 1] EXCEPT ![d + i - 1] = g[i - 1][s + i - 1]]
    <3>1. CASE i = 0
      BY <3>1, <1>3
    <3>2. CASE i # 0
      <4>1. i \in 1 .. n /\ i - 1 \in 0 .. n
        BY <3>2
      <4> QED BY <3>2, <4>1, <1>4
    <3> QED BY <3>1, <3>2
  <2> QED BY <2>1
<1> DEFINE f == CHOOSE f : f = Body(f)
<1>6. f = Body(f)
  BY <1>5, Zenon
<1>7. Memcpy(m, d, s, n) = f[n]
  BY DEF Memcpy
<1> HIDE DEF f
<1>8. \A i \in 0 .. n : f[i] = IF i = 0 THEN m ELSE [f[i - 1] EXCEPT ![d + i - 1] = f[i - 1][s + i - 1]]
  BY <1>6
<1>9. \A i \in 0 .. n : g[i] = IF i = 0 THEN m ELSE [g[i - 1] EXCEPT ![d + i - 1] = g[i - 1][s + i - 1]]
  BY <1>5
<1>10. g[n] = w(n)
  OBVIOUS
<1> HIDE DEF g, Body
<1>11. ASSUME NEW i \in 0 .. n - 1, f[i] = g[i] PROVE f[i + 1] = g[i + 1]
  <2>1. i + 1 \in 0 .. n /\ (i + 1) - 1 = i /\ i + 1 # 0
    OBVIOUS
  <2>2. /\ f[i + 1] = [f[(i + 1) - 1] EXCEPT ![d + (i + 1) - 1] = f[(i + 1) - 1][s + (i + 1) - 1]]
        /\ g[i + 1] = [g[(i + 1) - 1] EXCEPT ![d + (i + 1) - 1] = g[(i + 1) - 1][s + (i + 1) - 1]]
    BY <1>8, <1>9, <2>1
  <2> QED BY <1>11, <2>1, <2>2
<1>12. f[n] = g[n]
  <2>1. f[0] = g[0]
    BY <1>3, <1>8, <1>9
  <2> QED
    <3>1. \A i \in 0 .. n - 1 : f[i] = g[i] => f[i + 1] = g[i + 1]
      BY <1>11
    <3> QED BY <2>1, <3>1, SameSteps, Zenon
<1> QED BY <1>7, <1>10, <1>12 DEF w

\* The copy from the last byte down is right for an area behind, or the same.
LEMMA CopyDownCopies ==
  ASSUME NEW m \in Memories, NEW d \in Addresses, NEW s \in Addresses, NEW n \in Nat,
         InMemory(d, n), InMemory(s, n), s <= d
  PROVE  CopyDown(m, d, s, n) = With(m, d, Slice(m, s, n))
<1>1. MemSize \in Nat /\ d + n <= MemSize /\ s + n <= MemSize /\ d \in Nat /\ s \in Nat
  BY CStringsAssumption DEF InMemory, Addresses
<1> DEFINE Body(f) == [i \in 0 .. n |->
                         IF i = 0 THEN m ELSE [f[i - 1] EXCEPT ![d + n - i] = f[i - 1][s + n - i]]]
           w(i) == [a \in Addresses |-> IF a \in d + n - i .. d + n - 1 THEN m[s + (a - d)] ELSE m[a]]
           g == [i \in 0 .. n |-> w(i)]
<1>2. ASSUME NEW i \in 0 .. n
      PROVE  /\ w(i) \in Memories
             /\ \A a \in Addresses :
                  w(i)[a] = IF a \in d + n - i .. d + n - 1 THEN m[s + (a - d)] ELSE m[a]
  <2>1. \A a \in Addresses : a \in d + n - i .. d + n - 1 => s + (a - d) \in Addresses
    BY <1>1 DEF Addresses
  <2> QED BY <2>1 DEF Memories
<1>3. 0 \in 0 .. n /\ w(0) = m
  <2>1. 0 \in 0 .. n /\ \A a \in Addresses : a \notin d + n - 0 .. d + n - 1
    BY <1>1 DEF Addresses
  <2>2. \A a \in Addresses : w(0)[a] = m[a]
    BY <2>1, <1>2
  <2> HIDE DEF w
  <2> QED BY <2>1, <2>2, <1>2, SameBytes
<1> HIDE DEF w
<1>4. ASSUME NEW i \in 1 .. n
      PROVE  w(i) = [w(i - 1) EXCEPT ![d + n - i] = w(i - 1)[s + n - i]]
  <2>1. /\ i - 1 \in 0 .. n /\ i \in 0 .. n
        /\ d + n - i \in Addresses /\ s + n - i \in Addresses
        /\ s + n - i \notin d + n - (i - 1) .. d + n - 1
    BY <1>1 DEF Addresses
  <2>2. w(i - 1)[s + n - i] = m[s + n - i] /\ m[s + n - i] \in Bytes
    BY <1>2, <2>1 DEF Memories
  <2> DEFINE k == [w(i - 1) EXCEPT ![d + n - i] = w(i - 1)[s + n - i]]
  <2>3. /\ k \in Memories
        /\ \A a \in Addresses : k[a] = IF a = d + n - i THEN m[s + n - i] ELSE w(i - 1)[a]
    BY <1>2, <2>1, <2>2, Written1
  <2>4. ASSUME NEW a \in Addresses PROVE w(i)[a] = k[a]
    <3>1. CASE a = d + n - i
      <4>1. a \in d + n - i .. d + n - 1 /\ s + (a - d) = s + n - i
        BY <3>1, <1>1
      <4>2. w(i)[a] = m[s + (a - d)]
        BY <1>2, <2>1, <4>1
      <4> QED BY <3>1, <2>3, <4>1, <4>2
    <3>2. CASE a # d + n - i
      <4>1. a \in d + n - i .. d + n - 1 <=> a \in d + n - (i - 1) .. d + n - 1
        BY <3>2, <1>1 DEF Addresses
      <4> QED BY <3>2, <1>2, <2>1, <2>3, <4>1
    <3> QED BY <3>1, <3>2
  <2> HIDE DEF k
  <2>5. w(i) = k
    BY <1>2, <2>1, <2>3, <2>4, SameBytes
  <2> QED BY <2>5 DEF k
<1>5. g = Body(g)
  <2>1. ASSUME NEW i \in 0 .. n
        PROVE  g[i] = IF i = 0 THEN m ELSE [g[i - 1] EXCEPT ![d + n - i] = g[i - 1][s + n - i]]
    <3>1. CASE i = 0
      BY <3>1, <1>3
    <3>2. CASE i # 0
      <4>1. i \in 1 .. n /\ i - 1 \in 0 .. n
        BY <3>2
      <4> QED BY <3>2, <4>1, <1>4
    <3> QED BY <3>1, <3>2
  <2> QED BY <2>1
<1> DEFINE f == CHOOSE f : f = Body(f)
<1>6. f = Body(f)
  BY <1>5, Zenon
<1>7. CopyDown(m, d, s, n) = f[n]
  BY DEF CopyDown
<1> HIDE DEF f
<1>8. \A i \in 0 .. n : f[i] = IF i = 0 THEN m ELSE [f[i - 1] EXCEPT ![d + n - i] = f[i - 1][s + n - i]]
  BY <1>6
<1>9. \A i \in 0 .. n : g[i] = IF i = 0 THEN m ELSE [g[i - 1] EXCEPT ![d + n - i] = g[i - 1][s + n - i]]
  BY <1>5
<1>10. g[n] = w(n)
  OBVIOUS
<1> HIDE DEF g, Body
<1>11. ASSUME NEW i \in 0 .. n - 1, f[i] = g[i] PROVE f[i + 1] = g[i + 1]
  <2>1. i + 1 \in 0 .. n /\ (i + 1) - 1 = i /\ i + 1 # 0
    OBVIOUS
  <2>2. /\ f[i + 1] = [f[(i + 1) - 1] EXCEPT ![d + n - (i + 1)] = f[(i + 1) - 1][s + n - (i + 1)]]
        /\ g[i + 1] = [g[(i + 1) - 1] EXCEPT ![d + n - (i + 1)] = g[(i + 1) - 1][s + n - (i + 1)]]
    BY <1>8, <1>9, <2>1
  <2> QED BY <1>11, <2>1, <2>2
<1>12. f[n] = g[n]
  <2>1. f[0] = g[0]
    BY <1>3, <1>8, <1>9
  <2> QED
    <3>1. \A i \in 0 .. n - 1 : f[i] = g[i] => f[i + 1] = g[i + 1]
      BY <1>11
    <3> QED BY <2>1, <3>1, SameSteps, Zenon
<1>13. w(n) = With(m, d, Slice(m, s, n))
  <2>1. n \in 0 .. n /\ d + n - n = d
    BY <1>1
  <2>2. /\ With(m, d, Slice(m, s, n)) \in Memories
        /\ \A a \in Addresses :
             With(m, d, Slice(m, s, n))[a] = IF a \in d .. d + n - 1 THEN m[s + (a - d)] ELSE m[a]
    BY WithSlice
  <2> QED BY <1>2, <2>1, <2>2, SameBytes
<1> QED BY <1>7, <1>10, <1>12, <1>13

\* memmove copies an area wherever the other one is.
LEMMA MemmoveCopies ==
  ASSUME NEW m \in Memories, NEW d \in Addresses, NEW s \in Addresses, NEW n \in Nat,
         InMemory(d, n), InMemory(s, n)
  PROVE  Memmove(m, d, s, n) = With(m, d, Slice(m, s, n))
<1>1. d \in Nat /\ s \in Nat
  BY CStringsAssumption DEF Addresses
<1>2. CASE d < s
  <2>1. d <= s
    BY <1>1, <1>2
  <2> QED BY <1>2, <2>1, MemcpyCopies DEF Memmove
<1>3. CASE ~(d < s)
  <2>1. s <= d
    BY <1>1, <1>3
  <2> QED BY <1>3, <2>1, CopyDownCopies DEF Memmove
<1> QED BY <1>2, <1>3

\* The memory m with n bytes from d on set to v.
Filled(m, d, v, n) == [a \in Addresses |-> IF a \in d .. d + n - 1 THEN v ELSE m[a]]

\* memset sets each byte of an area to its argument, reduced to a byte.
LEMMA MemsetFills ==
  ASSUME NEW m \in Memories, NEW d \in Nat, NEW c \in Nat, NEW n \in Nat, InMemory(d, n)
  PROVE  /\ c % (MaxByte + 1) \in Bytes
         /\ Memset(m, d, c, n) = Filled(m, d, c % (MaxByte + 1), n)
<1>1. MemSize \in Nat /\ d + n <= MemSize
  BY CStringsAssumption DEF InMemory
<1>2. c % (MaxByte + 1) \in Bytes
  <2>1. \A b \in Nat : c % (b + 1) \in 0 .. b
    OBVIOUS
  <2> QED BY <2>1, CStringsAssumption DEF Bytes
<1> DEFINE v == c % (MaxByte + 1)
           Body(f) == [i \in 0 .. n |-> IF i = 0 THEN m ELSE [f[i - 1] EXCEPT ![d + i - 1] = v]]
           w(i) == Filled(m, d, v, i)
           g == [i \in 0 .. n |-> w(i)]
<1>3. Memset(m, d, c, n) = (CHOOSE f : f = Body(f))[n]
  BY DEF Memset
<1> HIDE DEF v
<1>4. ASSUME NEW i \in 0 .. n
      PROVE  /\ w(i) \in Memories
             /\ \A a \in Addresses : w(i)[a] = IF a \in d .. d + i - 1 THEN v ELSE m[a]
  BY <1>2 DEF Filled, Memories, v
<1> HIDE DEF w
<1>5. 0 \in 0 .. n /\ w(0) = m
  <2>1. 0 \in 0 .. n /\ \A a \in Addresses : a \notin d .. d + 0 - 1
    BY <1>1 DEF Addresses
  <2>2. \A a \in Addresses : w(0)[a] = m[a]
    BY <2>1, <1>4
  <2> QED BY <2>1, <2>2, <1>4, SameBytes
<1>6. ASSUME NEW i \in 1 .. n
      PROVE  w(i) = [w(i - 1) EXCEPT ![d + i - 1] = v]
  <2>1. i - 1 \in 0 .. n /\ i \in 0 .. n /\ d + i - 1 \in Addresses
    BY <1>1 DEF Addresses
  <2> DEFINE k == [w(i - 1) EXCEPT ![d + i - 1] = v]
  <2>2. v \in Bytes
    BY <1>2 DEF v
  <2>3. k \in Memories /\ \A a \in Addresses : k[a] = IF a = d + i - 1 THEN v ELSE w(i - 1)[a]
    BY <1>4, <2>1, <2>2, Written1
  <2>4. ASSUME NEW a \in Addresses PROVE w(i)[a] = k[a]
    <3>1. a \in d .. d + i - 1 <=> a = d + i - 1 \/ a \in d .. d + (i - 1) - 1
      BY <1>1 DEF Addresses
    <3> QED BY <3>1, <2>1, <2>3, <1>4
  <2> HIDE DEF k
  <2>5. w(i) = k
    BY <1>4, <2>1, <2>3, <2>4, SameBytes
  <2> QED BY <2>5 DEF k
<1>7. g = Body(g)
  <2>1. ASSUME NEW i \in 0 .. n
        PROVE  g[i] = IF i = 0 THEN m ELSE [g[i - 1] EXCEPT ![d + i - 1] = v]
    <3>1. CASE i = 0
      BY <3>1, <1>5
    <3>2. CASE i # 0
      <4>1. i \in 1 .. n /\ i - 1 \in 0 .. n
        BY <3>2
      <4> QED BY <3>2, <4>1, <1>6
    <3> QED BY <3>1, <3>2
  <2> QED BY <2>1
<1> DEFINE f == CHOOSE f : f = Body(f)
<1>8. f = Body(f)
  BY <1>7, Zenon
<1> HIDE DEF f
<1>9. /\ \A i \in 0 .. n : f[i] = IF i = 0 THEN m ELSE [f[i - 1] EXCEPT ![d + i - 1] = v]
      /\ \A i \in 0 .. n : g[i] = IF i = 0 THEN m ELSE [g[i - 1] EXCEPT ![d + i - 1] = v]
  BY <1>7, <1>8
<1>10. g[n] = w(n)
  OBVIOUS
<1> HIDE DEF g
<1>11. ASSUME NEW i \in 0 .. n - 1, f[i] = g[i] PROVE f[i + 1] = g[i + 1]
  <2>1. i + 1 \in 0 .. n /\ (i + 1) - 1 = i /\ i + 1 # 0
    OBVIOUS
  <2>2. /\ f[i + 1] = [f[(i + 1) - 1] EXCEPT ![d + (i + 1) - 1] = v]
        /\ g[i + 1] = [g[(i + 1) - 1] EXCEPT ![d + (i + 1) - 1] = v]
    BY <1>9, <2>1
  <2> QED BY <1>11, <2>1, <2>2
<1>12. f[n] = g[n]
  <2>1. f[0] = g[0]
    BY <1>5, <1>9
  <2> QED
    <3>1. \A i \in 0 .. n - 1 : f[i] = g[i] => f[i + 1] = g[i + 1]
      BY <1>11
    <3> QED BY <2>1, <3>1, SameSteps, Zenon
<1>13. Memset(m, d, c, n) = f[n]
  BY <1>3 DEF f
<1> QED BY <1>2, <1>10, <1>12, <1>13 DEF w, v

-----------------------------------------------------------------------------
(* Loops that look for their end *)

\* Where such a loop ends: the first step in Stop.
IsEnd(Stop, i, e) == e \in Stop /\ \A j \in i .. e - 1 : j \notin Stop

\* What such a loop does at each of its steps, which gives v[i] when it ends at i.
Looping(lo, hi, Stop, v, f) == [i \in lo .. hi |-> IF i \in Stop THEN v[i] ELSE f[i + 1]]

LEMMA EndExists ==
  ASSUME NEW lo \in Int, NEW hi \in Int, NEW Stop, hi \in Stop, NEW i \in lo .. hi
  PROVE  \E e \in i .. hi : IsEnd(Stop, i, e)
<1> DEFINE T == {n \in Nat : i + n \in Stop /\ i + n <= hi}
<1>1. hi - i \in T /\ T \in SUBSET Nat
  OBVIOUS
<1>2. PICK n \in T : \A j \in T : n <= j
  BY <1>1, FirstNumber
<1>3. n \in Nat /\ i + n \in Stop /\ i + n <= hi
  BY <1>2
<1>4. ASSUME NEW j \in i .. (i + n) - 1 PROVE j \notin Stop
  <2>1. j - i \in Nat /\ i + (j - i) = j /\ j <= hi /\ ~(n <= j - i)
    BY <1>3
  <2> QED BY <1>2, <2>1
<1>5. i + n \in i .. hi
  BY <1>3
<1> QED BY <1>3, <1>4, <1>5 DEF IsEnd

\* There is a function that follows such a loop, and each gives what the loop
\* finds at its end.
LEMMA LoopDefined ==
  ASSUME NEW lo \in Int, NEW hi \in Int, NEW Stop, hi \in Stop, NEW v
  PROVE  \E f : f = Looping(lo, hi, Stop, v, f)
<1> DEFINE e(i) == CHOOSE x \in i .. hi : IsEnd(Stop, i, x)
           g == [i \in lo .. hi |-> v[e(i)]]
<1>1. ASSUME NEW i \in lo .. hi PROVE e(i) \in i .. hi /\ IsEnd(Stop, i, e(i))
  BY EndExists
<1> HIDE DEF e
<1>2. ASSUME NEW i \in lo .. hi
      PROVE  g[i] = IF i \in Stop THEN v[i] ELSE g[i + 1]
  <2>1. CASE i \in Stop
    <3>1. ~(i \in i .. e(i) - 1) /\ i \in Int /\ e(i) \in i .. hi
      BY <1>1, <2>1 DEF IsEnd
    <3>2. e(i) = i
      BY <3>1
    <3> QED BY <2>1, <3>2
  <2>2. CASE i \notin Stop
    <3>1. i # hi /\ i + 1 \in lo .. hi /\ i \in Int
      BY <2>2
    <3>2. /\ e(i) \in i .. hi /\ e(i) \in Stop /\ \A j \in i .. e(i) - 1 : j \notin Stop
          /\ e(i + 1) \in i + 1 .. hi /\ e(i + 1) \in Stop
          /\ \A j \in i + 1 .. e(i + 1) - 1 : j \notin Stop
      BY <1>1, <3>1 DEF IsEnd
    <3>3. ~(e(i) < e(i + 1))
      <4>1. e(i) # i
        BY <2>2, <3>2
      <4>2. e(i) < e(i + 1) => e(i) \in i + 1 .. e(i + 1) - 1
        BY <3>1, <3>2, <4>1
      <4> QED BY <3>2, <4>2
    <3>4. ~(e(i + 1) < e(i))
      <4>1. e(i + 1) < e(i) => e(i + 1) \in i .. e(i) - 1
        BY <3>1, <3>2
      <4> QED BY <3>2, <4>1
    <3>5. e(i) \in Int /\ e(i + 1) \in Int
      BY <3>1, <3>2
    <3>6. e(i) = e(i + 1)
      BY <3>3, <3>4, <3>5
    <3> QED BY <2>2, <3>1, <3>6
  <2> QED BY <2>1, <2>2
<1>3. g = Looping(lo, hi, Stop, v, g)
  BY <1>2 DEF Looping
<1> QED BY <1>3, Zenon

LEMMA LoopEnds ==
  ASSUME NEW lo \in Int, NEW hi \in Int, lo <= hi, NEW Stop, hi \in Stop, NEW v, NEW f,
         f = Looping(lo, hi, Stop, v, f)
  PROVE  \E e \in lo .. hi : IsEnd(Stop, lo, e) /\ f[lo] = v[e]
<1>1. PICK e \in lo .. hi : IsEnd(Stop, lo, e)
  BY EndExists
<1>2. e \in Int /\ e \in Stop /\ \A j \in lo .. e - 1 : j \notin Stop
  BY <1>1 DEF IsEnd
<1>3. \A i \in lo .. hi : f[i] = IF i \in Stop THEN v[i] ELSE f[i + 1]
  BY DEF Looping
<1> DEFINE S == {i \in lo .. e : f[i] = v[e]}
<1>4. e \in S
  BY <1>1, <1>2, <1>3
<1>5. ASSUME NEW i \in lo .. e - 1, i + 1 \in S PROVE i \in S
  <2>1. i \in lo .. hi /\ i \notin Stop /\ i \in lo .. e
    BY <1>1, <1>2
  <2> QED BY <1>3, <1>5, <2>1
<1>6. lo .. e \subseteq S
  <2> HIDE DEF S
  <2> QED BY <1>2, <1>4, <1>5, Downward
<1>7. lo \in S
  BY <1>1, <1>6
<1> QED BY <1>1, <1>7

-----------------------------------------------------------------------------
(* Comparisons *)

\* How two strings or areas compare is told by the first byte that differs.
LEMMA OrderAt ==
  ASSUME NEW m \in Memories, NEW a \in Addresses, NEW b \in Addresses, NEW n \in Nat,
         InMemory(a, n), InMemory(b, n), NEW e \in 0 .. n - 1,
         m[a + e] # m[b + e], \A j \in 0 .. e - 1 : m[a + j] = m[b + j]
  PROVE  Order(m, a, b, n) = Sign(m[a + e] - m[b + e])
<1> DEFINE first == {i \in 0 .. n - 1 : /\ m[a + i] # m[b + i]
                                        /\ \A j \in 0 .. i - 1 : m[a + j] = m[b + j]}
<1>1. e \in first
  OBVIOUS
<1>2. ASSUME NEW i \in first PROVE i = e
  <2>1. i \in 0 .. n - 1 /\ m[a + i] # m[b + i] /\ \A j \in 0 .. i - 1 : m[a + j] = m[b + j]
    BY <1>2
  <2>2. ~(i < e) /\ ~(e < i)
    <3>1. i < e => i \in 0 .. e - 1
      BY <2>1
    <3>2. e < i => e \in 0 .. i - 1
      BY <2>1
    <3> QED BY <2>1, <3>1, <3>2
  <2> QED BY <2>1, <2>2
<1>3. Order(m, a, b, n)
        = IF first = {} THEN 0 ELSE LET i == CHOOSE i \in first : TRUE IN Sign(m[a + i] - m[b + i])
  BY DEF Order
<1> HIDE DEF first
<1>4. (CHOOSE i \in first : TRUE) = e
  BY <1>1, <1>2
<1> QED BY <1>1, <1>3, <1>4

LEMMA OrderNone ==
  ASSUME NEW m \in Memories, NEW a \in Addresses, NEW b \in Addresses, NEW n \in Nat,
         \A j \in 0 .. n - 1 : m[a + j] = m[b + j]
  PROVE  Order(m, a, b, n) = 0
BY DEF Order

\* memcmp tells how two areas compare.
LEMMA MemcmpCompares ==
  ASSUME NEW m \in Memories, NEW a \in Addresses, NEW b \in Addresses, NEW n \in Nat,
         InMemory(a, n), InMemory(b, n)
  PROVE  Sign(Memcmp(m, a, b, n)) = Order(m, a, b, n)
<1> DEFINE Stop == {i \in 0 .. n : ~(i < n /\ m[a + i] = m[b + i])}
           v == [i \in 0 .. n |-> IF i < n THEN m[a + i] - m[b + i] ELSE 0]
           Body(f) == [i \in 0 .. n |->
                         IF i < n /\ m[a + i] = m[b + i]
                           THEN f[i + 1] ELSE IF i < n THEN m[a + i] - m[b + i] ELSE 0]
           Loop(f) == Looping(0, n, Stop, v, f)
<1>1. Memcmp(m, a, b, n) = (CHOOSE f : f = Body(f))[0]
  BY DEF Memcmp
<1>2. ASSUME NEW f PROVE Body(f) = Loop(f)
  BY DEF Looping
<1>3. n \in Stop /\ 0 <= n /\ n \in Int /\ 0 \in Int
  OBVIOUS
<1>4. /\ \A i \in 0 .. n : i \in Stop <=> ~(i < n /\ m[a + i] = m[b + i])
      /\ \A i \in 0 .. n - 1 : v[i] = m[a + i] - m[b + i]
      /\ v[n] = 0
  OBVIOUS
<1> HIDE DEF Stop, v
<1>5. \E f : f = Loop(f)
  BY <1>3, LoopDefined
<1> HIDE DEF Body, Loop
<1> DEFINE f == CHOOSE f : f = Body(f)
<1>6. f = Body(f)
  BY <1>2, <1>5, Zenon
<1> HIDE DEF f
<1>7. f = Loop(f)
  BY <1>2, <1>6
<1>8. PICK e \in 0 .. n : IsEnd(Stop, 0, e) /\ f[0] = v[e]
  BY <1>3, <1>7, LoopEnds DEF Loop
<1>9. \A j \in 0 .. e - 1 : m[a + j] = m[b + j]
  BY <1>4, <1>8 DEF IsEnd
<1>10. Memcmp(m, a, b, n) = v[e]
  BY <1>1, <1>8 DEF f
<1>11. CASE e = n
  BY <1>4, <1>9, <1>10, <1>11, OrderNone DEF Sign
<1>12. CASE e # n
  <2>1. e \in 0 .. n - 1 /\ m[a + e] # m[b + e]
    BY <1>4, <1>8, <1>12 DEF IsEnd
  <2> QED BY <1>4, <1>9, <1>10, <2>1, OrderAt
<1> QED BY <1>11, <1>12

\* Where strncmp ends: at a zero, at a difference, or at the last of n bytes.
StrncmpStops(m, a, b, n) ==
  {e \in 0 .. n - 1 : /\ Strncmp(m, a, b, n) = m[a + e] - m[b + e]
                      /\ \A j \in 0 .. e - 1 : m[a + j] # 0 /\ m[a + j] = m[b + j]
                      /\ e = n - 1 \/ m[a + e] = 0 \/ m[a + e] # m[b + e]}

LEMMA StrncmpEnds ==
  ASSUME NEW m \in Memories, NEW a \in Addresses, NEW b \in Addresses, NEW n \in Nat, n # 0
  PROVE  StrncmpStops(m, a, b, n) # {}
<1> DEFINE Stop == {i \in 0 .. n - 1 : ~(i < n - 1 /\ m[a + i] # 0 /\ m[a + i] = m[b + i])}
           v == [i \in 0 .. n - 1 |-> m[a + i] - m[b + i]]
           Body(f) == [i \in 0 .. n - 1 |->
                         IF i < n - 1 /\ m[a + i] # 0 /\ m[a + i] = m[b + i]
                           THEN f[i + 1] ELSE m[a + i] - m[b + i]]
           Loop(f) == Looping(0, n - 1, Stop, v, f)
<1>1. Strncmp(m, a, b, n) = (CHOOSE f : f = Body(f))[0]
  BY DEF Strncmp
<1>2. ASSUME NEW f PROVE Body(f) = Loop(f)
  BY DEF Looping
<1>3. n - 1 \in Stop /\ 0 <= n - 1 /\ n - 1 \in Int /\ 0 \in Int
  OBVIOUS
<1>4. /\ \A i \in 0 .. n - 1 : i \in Stop <=> ~(i < n - 1 /\ m[a + i] # 0 /\ m[a + i] = m[b + i])
      /\ \A i \in 0 .. n - 1 : v[i] = m[a + i] - m[b + i]
  OBVIOUS
<1> HIDE DEF Stop, v
<1>5. \E f : f = Loop(f)
  BY <1>3, LoopDefined
<1> HIDE DEF Body, Loop
<1> DEFINE f == CHOOSE f : f = Body(f)
<1>6. f = Body(f)
  BY <1>2, <1>5, Zenon
<1> HIDE DEF f
<1>7. f = Loop(f)
  BY <1>2, <1>6
<1>8. PICK e \in 0 .. n - 1 : IsEnd(Stop, 0, e) /\ f[0] = v[e]
  BY <1>3, <1>7, LoopEnds DEF Loop
<1>9. \A j \in 0 .. e - 1 : m[a + j] # 0 /\ m[a + j] = m[b + j]
  BY <1>4, <1>8 DEF IsEnd
<1>10. Strncmp(m, a, b, n) = v[e]
  BY <1>1, <1>8 DEF f
<1>11. e = n - 1 \/ m[a + e] = 0 \/ m[a + e] # m[b + e]
  BY <1>4, <1>8 DEF IsEnd
<1> QED BY <1>4, <1>9, <1>10, <1>11 DEF StrncmpStops

-----------------------------------------------------------------------------
(* Strings *)

\* A string's length: the place of its first zero.
LEMMA LengthOf ==
  ASSUME NEW m \in Memories, NEW s \in Addresses, IsString(m, s)
  PROVE  /\ Length(m, s) \in Nat
         /\ s + Length(m, s) \in Addresses
         /\ InMemory(s, Length(m, s) + 1)
         /\ m[s + Length(m, s)] = 0
         /\ \A j \in 0 .. Length(m, s) - 1 : m[s + j] # 0
<1>1. MemSize \in Nat
  BY CStringsAssumption
<1> DEFINE e == CHOOSE e \in Ends(m, s) : TRUE
<1>2. e \in Ends(m, s)
  BY DEF IsString
<1>3. Length(m, s) = e - s
  BY DEF Length
<1> HIDE DEF e
<1>4. e \in s .. MemSize - 1 /\ m[e] = 0 /\ \A i \in s .. e - 1 : m[i] # 0
  BY <1>2 DEF Ends
<1>5. e - s \in Nat /\ s + (e - s) = e /\ e \in Addresses /\ s + ((e - s) + 1) <= MemSize /\ s \in Nat
  BY <1>1, <1>4 DEF Addresses
<1>6. \A j \in 0 .. (e - s) - 1 : s + j \in s .. e - 1
  BY <1>5
<1> QED BY <1>3, <1>4, <1>5, <1>6 DEF InMemory

LEMMA StrlenMeasures ==
  ASSUME NEW m \in Memories, NEW s \in Addresses, IsString(m, s)
  PROVE  Strlen(m, s) = Length(m, s)
<1>1. MemSize \in Nat /\ s \in Nat /\ s < MemSize
  BY CStringsAssumption DEF Addresses
<1> DEFINE Stop == {i \in s .. MemSize : ~(i < MemSize /\ m[i] # 0)}
           v == [i \in s .. MemSize |-> i]
           Body(f) == [i \in s .. MemSize |-> IF i < MemSize /\ m[i] # 0 THEN f[i + 1] ELSE i]
           Loop(f) == Looping(s, MemSize, Stop, v, f)
<1>2. Strlen(m, s) = (CHOOSE f : f = Body(f))[s] - s
  BY DEF Strlen
<1>3. ASSUME NEW f PROVE Body(f) = Loop(f)
  BY DEF Looping
<1>4. MemSize \in Stop /\ s <= MemSize /\ MemSize \in Int /\ s \in Int
  BY <1>1
<1>5. /\ \A i \in s .. MemSize : i \in Stop <=> ~(i < MemSize /\ m[i] # 0)
      /\ \A i \in s .. MemSize : v[i] = i
  OBVIOUS
<1> HIDE DEF Stop, v
<1>6. \E f : f = Loop(f)
  BY <1>4, LoopDefined
<1> HIDE DEF Body, Loop
<1> DEFINE f == CHOOSE f : f = Body(f)
<1>7. f = Body(f)
  BY <1>3, <1>6, Zenon
<1> HIDE DEF f
<1>8. f = Loop(f)
  BY <1>3, <1>7
<1>9. PICK e \in s .. MemSize : IsEnd(Stop, s, e) /\ f[s] = v[e]
  BY <1>4, <1>8, LoopEnds DEF Loop
<1> DEFINE k == Length(m, s)
<1>10. k \in Nat /\ s + k < MemSize /\ m[s + k] = 0 /\ \A j \in 0 .. k - 1 : m[s + j] # 0
  BY <1>1, LengthOf DEF Addresses
<1> HIDE DEF k
<1>11. ~(s + k < e)
  <2>1. s + k < e => s + k \in s .. e - 1 /\ s + k \in s .. MemSize
    BY <1>1, <1>9, <1>10
  <2> QED BY <1>5, <1>9, <1>10, <2>1 DEF IsEnd
<1>12. ~(e < s + k)
  <2>1. e < s + k => e - s \in 0 .. k - 1 /\ s + (e - s) = e /\ e < MemSize
    BY <1>1, <1>9, <1>10
  <2> QED BY <1>5, <1>9, <1>10, <2>1 DEF IsEnd
<1>13. e = s + k
  BY <1>1, <1>9, <1>10, <1>11, <1>12
<1>14. Strlen(m, s) = e - s
  BY <1>2, <1>5, <1>9 DEF f
<1> QED BY <1>1, <1>10, <1>13, <1>14 DEF k

\* strncmp tells how the first n bytes of two strings compare, as far as both go.
LEMMA StrncmpCompares ==
  ASSUME NEW m \in Memories, NEW a \in Addresses, NEW b \in Addresses, NEW n \in Nat,
         IsString(m, a), IsString(m, b)
  PROVE  Sign(Strncmp(m, a, b, n))
           = Order(m, a, b, Least(n, Least(Length(m, a) + 1, Length(m, b) + 1)))
<1> DEFINE la == Length(m, a)
           lb == Length(m, b)
           k  == Least(n, Least(la + 1, lb + 1))
<1>1. /\ la \in Nat /\ InMemory(a, la + 1) /\ m[a + la] = 0
      /\ lb \in Nat /\ InMemory(b, lb + 1) /\ m[b + lb] = 0
      /\ \A j \in 0 .. la - 1 : m[a + j] # 0
      /\ \A j \in 0 .. lb - 1 : m[b + j] # 0
  BY LengthOf
<1> HIDE DEF la, lb
<1>2. k \in Nat /\ k <= n /\ k <= la + 1 /\ k <= lb + 1 /\ (k = n \/ k = la + 1 \/ k = lb + 1)
  BY <1>1 DEF Least
<1>3. InMemory(a, k) /\ InMemory(b, k)
  BY <1>1, <1>2, CStringsAssumption DEF InMemory, Addresses
<1> HIDE DEF k
<1>4. CASE n = 0
  <2>1. k = 0 /\ Strncmp(m, a, b, n) = 0
    BY <1>2, <1>4 DEF Strncmp
  <2>2. \A j \in 0 .. k - 1 : m[a + j] = m[b + j]
    BY <2>1
  <2>3. Order(m, a, b, k) = 0
    BY <1>2, <2>2, OrderNone
  <2> QED BY <2>1, <2>3 DEF Sign, k, la, lb
<1>5. CASE n # 0
  <2>1. PICK e \in 0 .. n - 1 :
           /\ Strncmp(m, a, b, n) = m[a + e] - m[b + e]
           /\ \A j \in 0 .. e - 1 : m[a + j] # 0 /\ m[a + j] = m[b + j]
           /\ e = n - 1 \/ m[a + e] = 0 \/ m[a + e] # m[b + e]
    BY <1>5, StrncmpEnds DEF StrncmpStops
  <2>2. ~(la < e)
    <3>1. la < e => la \in 0 .. e - 1
      BY <1>1, <2>1
    <3> QED BY <1>1, <2>1, <3>1
  <2>3. ~(lb < e)
    <3>1. lb < e => lb \in 0 .. e - 1
      BY <1>1, <2>1
    <3> QED BY <1>1, <2>1, <3>1
  <2>4. e \in 0 .. k - 1
    BY <1>1, <1>2, <2>1, <2>2, <2>3
  <2>5. CASE m[a + e] # m[b + e]
    <3>1. \A j \in 0 .. e - 1 : m[a + j] = m[b + j]
      BY <2>1
    <3>2. Order(m, a, b, k) = Sign(m[a + e] - m[b + e])
      BY <1>2, <1>3, <2>4, <2>5, <3>1, OrderAt
    <3> QED BY <2>1, <3>2 DEF k, la, lb
  <2>6. CASE m[a + e] = m[b + e]
    <3>1. e = n - 1 \/ e = la
      <4>1. m[a + e] = 0 => ~(e < la)
        BY <1>1, <2>1
      <4> QED BY <1>1, <2>1, <2>2, <2>6, <4>1
    <3>2. k - 1 = e
      BY <1>1, <1>2, <2>1, <2>4, <3>1
    <3>3. \A j \in 0 .. k - 1 : m[a + j] = m[b + j]
      <4>1. \A j \in 0 .. k - 1 : j \in 0 .. e - 1 \/ j = e
        BY <1>2, <2>1, <3>2
      <4> QED BY <2>1, <2>6, <4>1
    <3>4. Order(m, a, b, k) = 0
      BY <1>2, <3>3, OrderNone
    <3>5. a + e \in Addresses /\ b + e \in Addresses
      BY <1>3, <2>4, <1>2, CStringsAssumption DEF InMemory, Addresses
    <3>6. m[a + e] - m[b + e] = 0
      BY <2>6, <3>5, CStringsAssumption DEF Memories, Bytes
    <3> QED BY <2>1, <3>4, <3>6 DEF Sign, k, la, lb
  <2> QED BY <2>5, <2>6
<1> QED BY <1>4, <1>5

\* strcmp compares two strings to their ends.
LEMMA StrcmpCompares ==
  ASSUME NEW m \in Memories, NEW a \in Addresses, NEW b \in Addresses,
         IsString(m, a), IsString(m, b)
  PROVE  Sign(Strcmp(m, a, b)) = Order(m, a, b, Least(Length(m, a) + 1, Length(m, b) + 1))
<1>1. MemSize \in Nat
  BY CStringsAssumption
<1>2. /\ Length(m, a) \in Nat /\ a + (Length(m, a) + 1) <= MemSize /\ a \in Nat
      /\ Length(m, b) \in Nat /\ b + (Length(m, b) + 1) <= MemSize /\ b \in Nat
  BY LengthOf DEF InMemory, Addresses
<1>3. Least(MemSize, Least(Length(m, a) + 1, Length(m, b) + 1))
        = Least(Length(m, a) + 1, Length(m, b) + 1)
  BY <1>1, <1>2 DEF Least
<1>4. Sign(Strncmp(m, a, b, MemSize))
        = Order(m, a, b, Least(MemSize, Least(Length(m, a) + 1, Length(m, b) + 1)))
  BY <1>1, StrncmpCompares
<1> QED BY <1>3, <1>4 DEF Strcmp

\* strchr finds the first place of a character in a string, its zero included.
LEMMA StrchrFinds ==
  ASSUME NEW m \in Memories, NEW s \in Addresses, IsString(m, s), NEW c \in Bytes
  PROVE  LET found == {i \in s .. s + Length(m, s) : m[i] = c}
         IN  IF found = {} THEN Strchr(m, s, c) = NULL
             ELSE /\ Strchr(m, s, c) \in found
                  /\ \A i \in found : Strchr(m, s, c) <= i
<1>1. MemSize \in Nat /\ s \in Nat /\ s < MemSize
  BY CStringsAssumption DEF Addresses
<1> DEFINE Stop == {i \in s .. MemSize : ~(i < MemSize /\ m[i] # c /\ m[i] # 0)}
           v == [i \in s .. MemSize |-> IF i < MemSize /\ m[i] = c THEN i ELSE NULL]
           Body(f) == [i \in s .. MemSize |->
                         IF i < MemSize /\ m[i] # c /\ m[i] # 0
                           THEN f[i + 1] ELSE IF i < MemSize /\ m[i] = c THEN i ELSE NULL]
           Loop(f) == Looping(s, MemSize, Stop, v, f)
<1>2. Strchr(m, s, c) = (CHOOSE f : f = Body(f))[s]
  BY DEF Strchr
<1>3. ASSUME NEW f PROVE Body(f) = Loop(f)
  BY DEF Looping
<1>4. MemSize \in Stop /\ s <= MemSize /\ MemSize \in Int /\ s \in Int
  BY <1>1
<1>5. /\ \A i \in s .. MemSize : i \in Stop <=> ~(i < MemSize /\ m[i] # c /\ m[i] # 0)
      /\ \A i \in s .. MemSize : v[i] = IF i < MemSize /\ m[i] = c THEN i ELSE NULL
  OBVIOUS
<1> HIDE DEF Stop, v
<1>6. \E f : f = Loop(f)
  BY <1>4, LoopDefined
<1> HIDE DEF Body, Loop
<1> DEFINE f == CHOOSE f : f = Body(f)
<1>7. f = Body(f)
  BY <1>3, <1>6, Zenon
<1> HIDE DEF f
<1>8. f = Loop(f)
  BY <1>3, <1>7
<1>9. PICK e \in s .. MemSize : IsEnd(Stop, s, e) /\ f[s] = v[e]
  BY <1>4, <1>8, LoopEnds DEF Loop
<1> DEFINE z == s + Length(m, s)
           found == {i \in s .. z : m[i] = c}
<1>10. z \in s .. MemSize - 1 /\ m[z] = 0
  BY <1>1, LengthOf DEF Addresses
<1>11. \A j \in s .. z - 1 : m[j] # 0
  <2>1. \A j \in s .. z - 1 : j - s \in 0 .. Length(m, s) - 1 /\ s + (j - s) = j
    BY <1>1, LengthOf
  <2> QED BY <2>1, LengthOf
<1> HIDE DEF z
<1>12. Strchr(m, s, c) = v[e]
  BY <1>2, <1>9 DEF f
<1>13. ~(z < e)
  <2>1. z < e => z \in s .. e - 1 /\ z \in s .. MemSize
    BY <1>1, <1>9, <1>10
  <2> QED BY <1>5, <1>9, <1>10, <2>1 DEF IsEnd
<1>14. e \in s .. z /\ e < MemSize
  BY <1>1, <1>9, <1>10, <1>13
<1>15. \A j \in s .. e - 1 : m[j] # c
  <2>1. \A j \in s .. e - 1 : j \in s .. MemSize /\ j \notin Stop
    BY <1>1, <1>9 DEF IsEnd
  <2> QED BY <1>5, <2>1
<1>16. CASE m[e] = c
  <2>1. v[e] = e /\ e \in found
    BY <1>5, <1>14, <1>16, <1>9
  <2>2. ASSUME NEW i \in found PROVE e <= i
    <3>1. i < e => i \in s .. e - 1
      BY <1>14
    <3> QED BY <1>15, <3>1, <1>14
  <2> QED BY <1>12, <2>1, <2>2 DEF z
<1>17. CASE m[e] # c
  <2>1. m[e] = 0 /\ v[e] = NULL
    BY <1>5, <1>9, <1>14, <1>17 DEF IsEnd
  <2>2. e = z
    <3>1. e # z => e \in s .. z - 1
      BY <1>14, <1>10
    <3> QED BY <1>11, <2>1, <3>1
  <2>3. \A i \in s .. z : i \in s .. e - 1 \/ i = e
    BY <2>2, <1>10
  <2>4. found = {}
    BY <1>15, <1>17, <2>3
  <2> QED BY <1>12, <2>1, <2>4 DEF z
<1> QED BY <1>16, <1>17

-----------------------------------------------------------------------------
(* Functions that write strings *)

LEMMA StrcpyCopies ==
  ASSUME NEW m \in Memories, NEW d \in Addresses, NEW s \in Addresses, IsString(m, s),
         Apart(d, s, Length(m, s) + 1)
  PROVE  Strcpy(m, d, s) = With(m, d, Str(m, s)) /\ Strcpy(m, d, s) \in Memories
<1> DEFINE n == Length(m, s) + 1
<1>1. n \in Nat
  BY LengthOf
<1>2. InMemory(d, n) /\ InMemory(s, n) /\ (d <= s \/ s + n <= d)
  BY <1>1, CStringsAssumption DEF Apart, Addresses, InMemory
<1>3. /\ n >= 1 /\ m[s + (n - 1)] = 0
      /\ \A j \in 0 .. n - 2 : m[s + j] # 0
  BY LengthOf
<1>4. Str(m, s) = Slice(m, s, n)
  BY DEF Str
<1> HIDE DEF n
<1>5. d \in Nat /\ s \in Nat /\ MemSize \in Nat /\ d + n <= MemSize /\ s + n <= MemSize
  BY <1>2, CStringsAssumption DEF Addresses, InMemory
<1>6. ASSUME NEW k \in 1 .. n PROVE CopiesZero(m, d, s, k) <=> m[s + (k - 1)] = 0
  <2>1. k \in Nat /\ InMemory(d, k) /\ InMemory(s, k) /\ (d <= s \/ s + k <= d)
    BY <1>1, <1>2, <1>5 DEF InMemory
  <2>2. d + k - 1 \in Addresses /\ d + k - 1 \in d .. d + k - 1 /\ (d + k - 1) - d = k - 1
    BY <1>1, <1>5 DEF Addresses
  <2>3. Memcpy(m, d, s, k)[d + k - 1] = m[s + ((d + k - 1) - d)]
    BY <2>1, <2>2, MemcpyCopies, WithSlice
  <2> QED BY <2>2, <2>3 DEF CopiesZero
<1> DEFINE IsLast(x) == /\ CopiesZero(m, d, s, x)
                        /\ \A k \in 1 .. x - 1 : ~CopiesZero(m, d, s, k)
<1>7. n \in 1 .. MemSize - d /\ IsLast(n)
  <2>1. n \in 1 .. MemSize - d /\ n \in 1 .. n
    BY <1>1, <1>3, <1>5
  <2>2. \A k \in 1 .. n - 1 : k \in 1 .. n /\ k - 1 \in 0 .. n - 2
    BY <1>1
  <2> QED BY <1>3, <1>6, <2>1, <2>2
<1>8. ASSUME NEW x \in 1 .. MemSize - d, IsLast(x) PROVE x = n
  <2>1. x < n => x \in 1 .. n - 1
    BY <1>1
  <2>2. n < x => n \in 1 .. x - 1
    BY <1>1, <1>3
  <2> QED BY <1>1, <1>5, <1>7, <1>8, <2>1, <2>2
<1>9. Strcpy(m, d, s) = Memcpy(m, d, s, CHOOSE x \in 1 .. MemSize - d : IsLast(x))
  BY DEF Strcpy
<1> HIDE DEF IsLast
<1>10. (CHOOSE x \in 1 .. MemSize - d : IsLast(x)) = n
  BY <1>7, <1>8
<1> HIDE DEF IsLast
<1>11. Strcpy(m, d, s) = Memcpy(m, d, s, n)
  BY ONLY <1>9, <1>10
<1> QED BY <1>1, <1>2, <1>4, <1>11, MemcpyCopies, WithSlice

LEMMA StrcatAppends ==
  ASSUME NEW m \in Memories, NEW d \in Addresses, NEW s \in Addresses,
         IsString(m, s), IsString(m, d), Apart(d, s, Length(m, d) + (Length(m, s) + 1))
  PROVE  /\ Strcat(m, d, s) = With(m, d + Length(m, d), Str(m, s))
         /\ Strcat(m, d, s) \in Memories
<1>1. /\ Length(m, s) \in Nat /\ Length(m, d) \in Nat /\ d + Length(m, d) \in Addresses
      /\ d \in Nat /\ s \in Nat /\ MemSize \in Nat
  BY LengthOf, CStringsAssumption DEF Addresses
<1>2. Apart(d + Length(m, d), s, Length(m, s) + 1)
  BY <1>1 DEF Apart, InMemory
<1>3. Strcat(m, d, s) = Strcpy(m, d + Length(m, d), s)
  BY StrlenMeasures DEF Strcat
<1> QED BY <1>1, <1>2, <1>3, StrcpyCopies

LEMMA StrncpyCopies ==
  ASSUME NEW m \in Memories, NEW d \in Addresses, NEW s \in Addresses, NEW n \in Nat,
         IsString(m, s), Apart(d, s, n), Apart(d, s, Length(m, s) + 1)
  PROVE  /\ Strncpy(m, d, s, n)
              = With(m, d, [i \in 0 .. n - 1 |-> IF i < Length(m, s) + 1 THEN m[s + i] ELSE 0])
         /\ Strncpy(m, d, s, n) \in Memories
<1> DEFINE l == Length(m, s)
           cnt == IF l < n THEN l ELSE n
           c == Memcpy(m, d, s, cnt)
           f == [i \in 0 .. n - 1 |-> IF i < l + 1 THEN m[s + i] ELSE 0]
<1>1. /\ l \in Nat /\ s + (l + 1) <= MemSize /\ m[s + l] = 0
      /\ d \in Nat /\ s \in Nat /\ MemSize \in Nat /\ d + n <= MemSize /\ s + n <= MemSize
      /\ d + n <= s \/ s + n <= d
  BY LengthOf, CStringsAssumption DEF Addresses, InMemory, Apart
<1>2. Strncpy(m, d, s, n) = Memset(c, d + cnt, 0, n - cnt)
  BY StrlenMeasures DEF Strncpy
<1> HIDE DEF l
<1>3. cnt \in Nat /\ cnt <= n /\ cnt <= l /\ (cnt = l \/ cnt = n)
  BY <1>1
<1> HIDE DEF cnt
<1>4. InMemory(d, cnt) /\ InMemory(s, cnt) /\ (d <= s \/ s + cnt <= d)
  BY <1>1, <1>3 DEF InMemory
<1>5. c = With(m, d, Slice(m, s, cnt))
  BY <1>3, <1>4, MemcpyCopies
<1>6. /\ c \in Memories
      /\ \A a \in Addresses : c[a] = IF a \in d .. d + cnt - 1 THEN m[s + (a - d)] ELSE m[a]
  BY <1>3, <1>4, <1>5, WithSlice
<1> HIDE DEF c
<1>7. d + cnt \in Nat /\ n - cnt \in Nat /\ InMemory(d + cnt, n - cnt) /\ 0 \in Nat
  BY <1>1, <1>3 DEF InMemory
<1>8. 0 % (MaxByte + 1) = 0 /\ 0 \in Bytes
  <2>1. \A b \in Nat : 0 % (b + 1) = 0 /\ 0 \in 0 .. b
    OBVIOUS
  <2> QED BY <2>1, CStringsAssumption DEF Bytes
<1>9. Strncpy(m, d, s, n) = Filled(c, d + cnt, 0, n - cnt)
  BY <1>2, <1>6, <1>7, <1>8, MemsetFills
<1>10. /\ Filled(c, d + cnt, 0, n - cnt) \in Memories
       /\ \A a \in Addresses : Filled(c, d + cnt, 0, n - cnt)[a]
                                 = IF a \in d + cnt .. d + n - 1 THEN 0 ELSE c[a]
  <2>1. (d + cnt) + (n - cnt) - 1 = d + n - 1
    BY <1>1, <1>3
  <2> QED BY <1>6, <1>8, <2>1 DEF Filled, Memories
<1>11. DOMAIN f = 0 .. n - 1 /\ \A i \in 0 .. n - 1 : f[i] = IF i < l + 1 THEN m[s + i] ELSE 0
  OBVIOUS
<1>12. \A i \in 0 .. n - 1 : f[i] \in Bytes
  <2>1. \A i \in 0 .. n - 1 : i < l + 1 => s + i \in Addresses
    BY <1>1 DEF Addresses
  <2> QED BY <1>8, <1>11, <2>1 DEF Memories
<1> HIDE DEF f
<1>13. /\ With(m, d, f) \in Memories
       /\ \A a \in Addresses : With(m, d, f)[a] = IF a - d \in 0 .. n - 1 THEN f[a - d] ELSE m[a]
  BY <1>11, <1>12 DEF With, Memories
<1>14. ASSUME NEW a \in Addresses
       PROVE  Filled(c, d + cnt, 0, n - cnt)[a] = With(m, d, f)[a]
  <2>1. a \in Int
    BY CStringsAssumption DEF Addresses
  <2>2. CASE a \in d .. d + cnt - 1
    <3>1. a \notin d + cnt .. d + n - 1 /\ a - d \in 0 .. n - 1 /\ a - d < l + 1
      BY <1>1, <1>3, <2>1, <2>2
    <3> QED BY <1>6, <1>10, <1>11, <1>13, <2>2, <3>1
  <2>3. CASE a \in d + cnt .. d + n - 1
    <3>1. a - d \in 0 .. n - 1 /\ cnt = l /\ (a - d < l + 1 => a - d = l)
      BY <1>1, <1>3, <2>1, <2>3
    <3>2. f[a - d] = 0
      BY <1>1, <1>11, <3>1
    <3> QED BY <1>10, <1>13, <2>3, <3>1, <3>2
  <2>4. CASE a \notin d .. d + cnt - 1 /\ a \notin d + cnt .. d + n - 1
    <3>1. a - d \notin 0 .. n - 1
      BY <1>1, <1>3, <2>1, <2>4
    <3> QED BY <1>6, <1>10, <1>13, <2>4, <3>1
  <2> QED BY <2>2, <2>3, <2>4
<1>15. Filled(c, d + cnt, 0, n - cnt) = With(m, d, f)
  BY <1>10, <1>13, <1>14, SameBytes
<1> QED BY <1>9, <1>13, <1>15 DEF f, l

-----------------------------------------------------------------------------

\* memset sets each byte of an area.
LEMMA MemsetIsWith ==
  ASSUME NEW m \in Memories, NEW d \in Addresses, NEW c \in Nat, NEW n \in Nat, InMemory(d, n)
  PROVE  /\ Memset(m, d, c, n) = With(m, d, [i \in 0 .. n - 1 |-> c % (MaxByte + 1)])
         /\ Memset(m, d, c, n) \in Memories
<1>1. d \in Nat /\ Addresses \subseteq Nat
  BY CStringsAssumption DEF Addresses
<1>2. c % (MaxByte + 1) \in Bytes /\ Memset(m, d, c, n) = Filled(m, d, c % (MaxByte + 1), n)
  BY <1>1, MemsetFills
<1> DEFINE v == c % (MaxByte + 1)
           f == [i \in 0 .. n - 1 |-> v]
<1> HIDE DEF v
<1>3. Filled(m, d, v, n) = With(m, d, f)
  <2>1. \A a \in Addresses : a \in d .. d + n - 1 <=> a - d \in 0 .. n - 1
    BY <1>1
  <2>2. DOMAIN f = 0 .. n - 1 /\ \A i \in 0 .. n - 1 : f[i] = v
    OBVIOUS
  <2> HIDE DEF f
  <2> QED BY <2>1, <2>2 DEF Filled, With
<1>4. Filled(m, d, v, n) \in Memories
  BY <1>2 DEF Filled, Memories, v
<1> QED BY <1>2, <1>3, <1>4 DEF v

\* A program's memory keeps its size and its bytes stay bytes.
MemoryTyped == mem \in Memories

LEMMA MemoryStays ==
  StringsSpec => []MemoryTyped
<1>1. StringsInit => MemoryTyped
  BY CStringsAssumption DEF StringsInit, Memories, Bytes, MemoryTyped
<1>2. MemoryTyped /\ [StringsNext]_mem => MemoryTyped'
  <2> SUFFICES ASSUME mem \in Memories, [StringsNext]_mem PROVE mem' \in Memories
    BY DEF MemoryTyped
  <2>0. mem \in Memories
    OBVIOUS
  <2>1. CASE UNCHANGED mem
    BY <2>0, <2>1
  <2>2. ASSUME NEW d \in Addresses, NEW s \in Addresses, NEW n \in 0 .. MemSize,
               CallOnAreas(d, s, n)
        PROVE  mem' \in Memories
    <3>1. n \in Nat /\ s \in Nat /\ d \in Nat
      BY CStringsAssumption DEF Addresses
    <3>2. CASE InMemory(d, n) /\ InMemory(s, n) /\ mem' = Memmove(mem, d, s, n)
      BY <2>0, <3>1, <3>2, MemmoveCopies, WithSlice
    <3>3. CASE Apart(d, s, n) /\ mem' = Memcpy(mem, d, s, n)
      <4>1. InMemory(d, n) /\ InMemory(s, n) /\ (d <= s \/ s + n <= d)
        BY <3>1, <3>3 DEF Apart
      <4> QED BY <2>0, <3>1, <3>3, <4>1, MemcpyCopies, WithSlice
    <3>4. CASE InMemory(d, n) /\ mem' = Memset(mem, d, s, n)
      BY <2>0, <3>1, <3>4, MemsetIsWith
    <3> QED BY <2>2, <3>2, <3>3, <3>4 DEF CallOnAreas
  <2>3. ASSUME NEW d \in Addresses, NEW s \in Addresses, NEW n \in 0 .. MemSize,
               CallOnStrings(d, s, n)
        PROVE  mem' \in Memories
    <3>1. n \in Nat /\ IsString(mem, s)
      BY <2>3 DEF CallOnStrings
    <3>2. CASE Apart(d, s, Size(s)) /\ mem' = Strcpy(mem, d, s)
      BY <2>0, <3>1, <3>2, StrcpyCopies DEF Size
    <3>3. CASE IsString(mem, d) /\ Apart(d, s, Length(mem, d) + Size(s)) /\ mem' = Strcat(mem, d, s)
      BY <2>0, <3>1, <3>3, StrcatAppends DEF Size
    <3>4. CASE Apart(d, s, n) /\ Apart(d, s, Size(s)) /\ mem' = Strncpy(mem, d, s, n)
      BY <2>0, <3>1, <3>4, StrncpyCopies DEF Size
    <3> QED BY <2>3, <3>2, <3>3, <3>4 DEF CallOnStrings
  <2> QED BY <2>1, <2>2, <2>3 DEF StringsNext
<1> QED BY <1>1, <1>2, PTL DEF StringsSpec

\* Each function of string.c, called as the C standard allows, does what it is for, for
\* every size of memory, every width of byte and whatever a program has made of its
\* memory.
THEOREM StringFunctionsAreRight ==
  StringsSpec => []StringsRight
<1>1. MemoryTyped => StringsRight
  <2> SUFFICES ASSUME MemoryTyped PROVE StringsRight
    OBVIOUS
  <2>0. mem \in Memories
    BY DEF MemoryTyped
  <2> SUFFICES ASSUME NEW a \in Addresses, NEW b \in Addresses, NEW n \in 0 .. MemSize
               PROVE  /\ InMemory(a, n) /\ InMemory(b, n) => AreasRight(a, b, n)
                      /\ IsString(mem, a) /\ IsString(mem, b) => ReadsRight(a, b, n)
                      /\ IsString(mem, b) => WritesRight(a, b, n)
    BY <2>0 DEF StringsRight, Memories
  <2>1. n \in Nat /\ a \in Nat /\ b \in Nat /\ MemSize \in Nat
    BY CStringsAssumption DEF Addresses
  <2>2. ASSUME InMemory(a, n), InMemory(b, n) PROVE AreasRight(a, b, n)
    <3>1. Memmove(mem, a, b, n) = With(mem, a, Slice(mem, b, n))
      BY <2>0, <2>1, <2>2, MemmoveCopies
    <3>2. Apart(a, b, n) => Memcpy(mem, a, b, n) = With(mem, a, Slice(mem, b, n))
      <4>1. Apart(a, b, n) => a <= b \/ b + n <= a
        BY <2>1 DEF Apart
      <4> QED BY <2>0, <2>1, <2>2, <4>1, MemcpyCopies
    <3>3. Sign(Memcmp(mem, a, b, n)) = Order(mem, a, b, n)
      BY <2>0, <2>1, <2>2, MemcmpCompares
    <3>4. Memset(mem, a, b, n) = With(mem, a, [i \in 0 .. n - 1 |-> b % (MaxByte + 1)])
      BY <2>0, <2>1, <2>2, MemsetIsWith
    <3> QED BY <3>1, <3>2, <3>3, <3>4 DEF AreasRight
  <2>3. ASSUME IsString(mem, a), IsString(mem, b) PROVE ReadsRight(a, b, n)
    <3> DEFINE c == n % (MaxByte + 1)
    <3>1. c \in Bytes
      <4>1. \A k \in Nat : n % (k + 1) \in 0 .. k
        BY <2>1
      <4> QED BY <4>1, CStringsAssumption DEF Bytes
    <3>2. Strlen(mem, a) = Length(mem, a)
      BY <2>0, <2>3, StrlenMeasures
    <3>3. Sign(Strcmp(mem, a, b)) = Order(mem, a, b, Least(Size(a), Size(b)))
      BY <2>0, <2>3, StrcmpCompares DEF Size
    <3>4. Sign(Strncmp(mem, a, b, n)) = Order(mem, a, b, Least(n, Least(Size(a), Size(b))))
      BY <2>0, <2>1, <2>3, StrncmpCompares DEF Size
    <3> HIDE DEF c
    <3>5. LET found == {i \in a .. a + Length(mem, a) : mem[i] = c}
          IN  IF found = {} THEN Strchr(mem, a, c) = NULL
              ELSE /\ Strchr(mem, a, c) \in found
                   /\ \A i \in found : Strchr(mem, a, c) <= i
      BY <2>0, <2>3, <3>1, StrchrFinds
    <3> QED BY <3>2, <3>3, <3>4, <3>5, Zenon DEF ReadsRight, c
  <2>4. ASSUME IsString(mem, b) PROVE WritesRight(a, b, n)
    <3>1. Apart(a, b, Size(b)) => Strcpy(mem, a, b) = With(mem, a, Str(mem, b))
      BY <2>0, <2>4, StrcpyCopies DEF Size
    <3>2. IsString(mem, a) /\ Apart(a, b, Length(mem, a) + Size(b)) =>
            Strcat(mem, a, b) = With(mem, a + Length(mem, a), Str(mem, b))
      BY <2>0, <2>4, StrcatAppends DEF Size
    <3>3. Apart(a, b, n) /\ Apart(a, b, Size(b)) =>
            Strncpy(mem, a, b, n)
              = With(mem, a, [i \in 0 .. n - 1 |-> IF i < Size(b) THEN mem[b + i] ELSE 0])
      BY <2>0, <2>1, <2>4, StrncpyCopies DEF Size
    <3> QED BY <3>1, <3>2, <3>3 DEF WritesRight
  <2> QED BY <2>2, <2>3, <2>4
<1> QED BY <1>1, MemoryStays, PTL

-----------------------------------------------------------------------------
(* Numbers that are printed and read back *)

Bases == {10, 16}

\* The digits are told apart, and no sign is one of them.
LEMMA DigitsDiffer ==
  /\ \A d, e \in 0 .. 15 : Digit[d + 1] = Digit[e + 1] => d = e
  /\ "-" \notin ToSet(Digit) /\ "+" \notin ToSet(Digit)
<1>1. Digit = [i \in 1 .. 16 |-> Digit[i]]
  BY DEF Digit
<1>2. ASSUME NEW d \in 0 .. 15, NEW e \in 0 .. 15, Digit[d + 1] = Digit[e + 1] PROVE d = e
  BY <1>2 DEF Digit
<1>3. \A i \in 1 .. 16 : Digit[i] # "-" /\ Digit[i] # "+"
  BY DEF Digit
<1>4. DOMAIN Digit = 1 .. 16
  BY <1>1
<1>5. "-" \notin ToSet(Digit) /\ "+" \notin ToSet(Digit)
  BY <1>3, <1>4 DEF ToSet
<1> QED BY <1>2, <1>5

LEMMA DigitsValued ==
  ASSUME NEW base \in Bases
  PROVE  /\ Digits(base) \subseteq ToSet(Digit)
         /\ \A d \in 0 .. base - 1 : /\ Digit[d + 1] \in Digits(base)
                                     /\ ValueOf(Digit[d + 1]) = d
<1>1. base \in Nat /\ base <= 16
  BY DEF Bases
<1>2. DOMAIN Digit = 1 .. 16
  BY DEF Digit
<1>3. ASSUME NEW d \in 0 .. base - 1 PROVE ValueOf(Digit[d + 1]) = d
  <2>1. d \in 0 .. 15
    BY <1>1
  <2> QED BY <2>1, DigitsDiffer DEF ValueOf
<1>4. ASSUME NEW d \in 0 .. base - 1 PROVE Digit[d + 1] \in ToSet(Digit)
  <2>1. d + 1 \in 1 .. 16
    BY <1>1
  <2> QED BY <2>1, <1>2 DEF ToSet
<1> QED BY <1>3, <1>4 DEF Digits

\* A number is less than itself without its last digit, and made of both.
LEMMA LastDigit ==
  ASSUME NEW base \in Bases, NEW m \in Nat \ {0}
  PROVE  /\ m \div base \in 0 .. m - 1 /\ m % base \in 0 .. base - 1
         /\ (m \div base) * base + (m % base) = m
<1>1. m \div 10 \in 0 .. m - 1 /\ m % 10 \in 0 .. 9 /\ (m \div 10) * 10 + (m % 10) = m
  <2>1. m \div 10 \in 0 .. m - 1
    OBVIOUS
  <2>2. m % 10 \in 0 .. 9
    OBVIOUS
  <2>3. (m \div 10) * 10 + (m % 10) = m
    OBVIOUS
  <2> QED BY <2>1, <2>2, <2>3
<1>2. m \div 16 \in 0 .. m - 1 /\ m % 16 \in 0 .. 15 /\ (m \div 16) * 16 + (m % 16) = m
  <2>1. m \div 16 \in 0 .. m - 1
    OBVIOUS
  <2>2. m % 16 \in 0 .. 15
    OBVIOUS
  <2>3. (m \div 16) * 16 + (m % 16) = m
    OBVIOUS
  <2> QED BY <2>1, <2>2, <2>3
<1>3. 0 .. 10 - 1 = 0 .. 9 /\ 0 .. 16 - 1 = 0 .. 15
  OBVIOUS
<1> QED BY <1>1, <1>2, <1>3 DEF Bases

\* The recursion of fmt_uint.
More(v, base, more) ==
  [m \in 0 .. v |-> IF m = 0 THEN <<>> ELSE Append(more[m \div base], Digit[(m % base) + 1])]

LEMMA DigitsEnding ==
  ASSUME NEW v \in Nat, NEW base \in Bases
  PROVE  \E more : more = More(v, base, more)
<1> DEFINE B(g, m) == IF m = 0 THEN <<>> ELSE Append(g[m \div base], Digit[(m % base) + 1])
           Solves(g, n) == g = [m \in 0 .. v |-> g[m]] /\ \A m \in 0 .. n : g[m] = B(g, m)
           S == {n \in 0 .. v : \E g : Solves(g, n)}
<1>1. 0 \in S
  <2> DEFINE g == [m \in 0 .. v |-> <<>>]
  <2>1. Solves(g, 0)
    OBVIOUS
  <2> HIDE DEF g
  <2> QED BY <2>1
<1>2. \A n \in 0 .. v - 1 : n \in S => n + 1 \in S
  <2> SUFFICES ASSUME NEW n \in 0 .. v - 1, n \in S PROVE n + 1 \in S
    OBVIOUS
  <2>1. PICK g : Solves(g, n)
    OBVIOUS
  <2> DEFINE h == [m \in 0 .. v |-> IF m = n + 1 THEN B(g, m) ELSE g[m]]
  <2>2. h = [m \in 0 .. v |-> h[m]]
    OBVIOUS
  <2>3. ASSUME NEW m \in 0 .. n + 1 PROVE h[m] = B(h, m)
    <3>1. m \in 0 .. v
      OBVIOUS
    <3>2. m # 0 => h[m \div base] = g[m \div base]
      <4> SUFFICES ASSUME m # 0 PROVE h[m \div base] = g[m \div base]
        OBVIOUS
      <4>1. m \div base \in 0 .. m - 1
        BY <3>1, LastDigit
      <4>2. m \div base \in 0 .. v /\ m \div base # n + 1
        BY <4>1
      <4> QED BY <4>2
    <3>3. B(h, m) = B(g, m)
      <4> HIDE DEF h
      <4> QED BY <3>2
    <3>4. h[m] = B(g, m)
      <4>1. CASE m = n + 1
        BY <3>1, <4>1
      <4>2. CASE m # n + 1
        <5>1. m \in 0 .. n /\ h[m] = g[m]
          BY <3>1, <4>2
        <5> QED BY <2>1, <5>1
      <4> QED BY <4>1, <4>2
    <3> QED BY <3>3, <3>4
  <2> HIDE DEF h, B
  <2>4. Solves(h, n + 1)
    BY <2>2, <2>3
  <2>5. n + 1 \in 0 .. v
    OBVIOUS
  <2> QED BY <2>4, <2>5
<1>3. v \in S
  <2> HIDE DEF S
  <2>1. 0 .. v \subseteq S
    BY <1>1, <1>2, Upward
  <2> QED BY <2>1
<1>4. PICK g : Solves(g, v)
  BY <1>3
<1>5. g = [m \in 0 .. v |-> B(g, m)]
  <2> HIDE DEF B
  <2> QED BY <1>4
<1> QED BY <1>5 DEF More

\* A text of digits has the value of a number.
HasValue(text, base, v) ==
  \E g \in [0 .. Len(text) -> Nat] :
    /\ g[0] = 0 /\ g[Len(text)] = v
    /\ \A k \in 1 .. Len(text) : g[k] = g[k - 1] * base + ValueOf(text[k])

\* fmt_uint writes digits, and at least one, and their value is the number.
LEMMA UnsignedWrites ==
  ASSUME NEW v \in Nat, NEW base \in Bases
  PROVE  /\ Unsigned(v, base) \in Seq(Digits(base))
         /\ Len(Unsigned(v, base)) \in Nat \ {0}
         /\ HasValue(Unsigned(v, base), base, v)
<1>0. base \in Nat /\ 0 \in 0 .. base - 1 /\ Digit[0 + 1] = "0"
  BY DEF Bases, Digit
<1> DEFINE more == CHOOSE f : f = More(v, base, f)
<1>1. more = More(v, base, more)
  BY DigitsEnding, Zenon
<1>2. Unsigned(v, base) = IF v = 0 THEN <<"0">> ELSE more[v]
  BY DEF Unsigned, More
<1> HIDE DEF more
<1>3. \A m \in 0 .. v : more[m] = IF m = 0 THEN <<>> ELSE Append(more[m \div base], Digit[(m % base) + 1])
  BY <1>1 DEF More
<1> DEFINE Good(m) == /\ more[m] \in Seq(Digits(base)) /\ Len(more[m]) \in Nat
                      /\ m # 0 => Len(more[m]) # 0
                      /\ HasValue(more[m], base, m)
           S == {m \in 0 .. v : Good(m)}
<1>4. ASSUME NEW m \in 0 .. v, \A l \in 0 .. m - 1 : l \in S PROVE m \in S
  <2>1. CASE m = 0
    <3>1. more[m] = <<>> 
      BY <1>3, <2>1
    <3>2. HasValue(<<>>, base, 0)
      <4> DEFINE g == [k \in 0 .. 0 |-> 0]
      <4>1. g \in [0 .. Len(<<>>) -> Nat] /\ g[0] = 0 /\ g[Len(<<>>)] = 0
        OBVIOUS
      <4>2. \A k \in 1 .. Len(<<>>) : g[k] = g[k - 1] * base + ValueOf(<<>>[k])
        OBVIOUS
      <4> HIDE DEF g
      <4> QED BY <4>1, <4>2 DEF HasValue
    <3>3. <<>> \in Seq(Digits(base)) /\ Len(<<>>) \in Nat
      OBVIOUS
    <3> QED BY <2>1, <3>1, <3>2, <3>3
  <2>2. CASE m # 0
    <3> DEFINE l == m \div base
               d == m % base
               s == more[l]
    <3>1. l \in 0 .. m - 1 /\ d \in 0 .. base - 1 /\ l * base + d = m
      <4>1. m \in Nat \ {0}
        BY <2>2
      <4> QED BY <4>1, LastDigit, Zenon
    <3>2. s \in Seq(Digits(base)) /\ Len(s) \in Nat /\ HasValue(s, base, l)
      BY <1>4, <3>1
    <3>3. more[m] = Append(s, Digit[d + 1])
      BY <1>3, <2>2
    <3>4. Digit[d + 1] \in Digits(base) /\ ValueOf(Digit[d + 1]) = d
      BY <3>1, DigitsValued
    <3> HIDE DEF l, d, s
    <3> DEFINE t == Append(s, Digit[d + 1])
    <3>5. /\ t \in Seq(Digits(base)) /\ Len(t) = Len(s) + 1 /\ t[Len(s) + 1] = Digit[d + 1]
          /\ \A k \in 1 .. Len(s) : t[k] = s[k]
      BY <3>2, <3>4
    <3> HIDE DEF t
    <3>6. HasValue(t, base, m)
      <4>1. PICK g \in [0 .. Len(s) -> Nat] :
              /\ g[0] = 0 /\ g[Len(s)] = l
              /\ \A k \in 1 .. Len(s) : g[k] = g[k - 1] * base + ValueOf(s[k])
        BY <3>2 DEF HasValue
      <4> DEFINE h == [k \in 0 .. Len(t) |-> IF k = Len(t) THEN m ELSE g[k]]
      <4>2. h \in [0 .. Len(t) -> Nat] /\ h[0] = 0 /\ h[Len(t)] = m
        BY <3>2, <3>5, <4>1
      <4>3. ASSUME NEW k \in 1 .. Len(t) PROVE h[k] = h[k - 1] * base + ValueOf(t[k])
        <5>1. CASE k = Len(t)
          <6>1. k - 1 = Len(s) /\ k - 1 \in 0 .. Len(t) /\ k - 1 # Len(t)
            BY <3>2, <3>5, <5>1
          <6>2. ValueOf(t[k]) = d
            BY <5>1, <3>4, <3>5
          <6>3. h[k - 1] = l
            BY <6>1, <4>1
          <6>4. h[k] = m
            BY <4>2, <5>1
          <6> QED BY <6>2, <6>3, <6>4, <3>1
        <5>2. CASE k # Len(t)
          <6>1. k \in 1 .. Len(s) /\ k - 1 \in 0 .. Len(t) /\ k - 1 # Len(t) /\ k \in 0 .. Len(t)
            BY <3>2, <3>5, <5>2
          <6>2. h[k - 1] = g[k - 1] /\ h[k] = g[k] /\ t[k] = s[k]
            BY <6>1, <5>2, <3>5
          <6> QED BY <6>1, <6>2, <4>1
        <5> QED BY <5>1, <5>2
      <4> HIDE DEF h
      <4> QED BY <4>2, <4>3 DEF HasValue
    <3>7. more[m] = t
      BY <3>3 DEF t
    <3>8. Len(t) \in Nat /\ Len(t) # 0
      BY <3>2, <3>5
    <3> QED BY <3>5, <3>6, <3>7, <3>8
  <2> QED BY <2>1, <2>2
<1>5. v \in S
  <2> HIDE DEF S
  <2> QED BY <1>4, FromTheStart
<1>6. CASE v = 0
  <2> DEFINE z == <<"0">>
             g == [k \in 0 .. 1 |-> 0]
  <2>1. "0" \in Digits(base) /\ ValueOf("0") = 0
    BY <1>0, DigitsValued
  <2>2. z \in Seq(Digits(base)) /\ Len(z) = 1 /\ z[1] = "0"
    BY <2>1
  <2> HIDE DEF z
  <2>3. g \in [0 .. Len(z) -> Nat] /\ g[0] = 0 /\ g[Len(z)] = 0
    BY <2>2
  <2>4. \A k \in 1 .. Len(z) : g[k] = g[k - 1] * base + ValueOf(z[k])
    BY <1>0, <2>1, <2>2
  <2> HIDE DEF g
  <2>5. HasValue(z, base, 0)
    BY <2>3, <2>4 DEF HasValue
  <2> QED BY <1>2, <1>6, <2>2, <2>5 DEF z
<1>7. CASE v # 0
  BY <1>2, <1>5, <1>7
<1> QED BY <1>6, <1>7

\* atoi and strtol read as many digits as there are, and their value.
LEMMA NumberReads ==
  ASSUME NEW base \in Bases, NEW v \in Nat,
         NEW s, s \in Seq(Digits(base)), Len(s) \in Nat, HasValue(s, base, v),
         NEW text, NEW i \in Nat \ {0}, Len(text) = (i - 1) + Len(s),
         \A k \in 1 .. Len(s) : text[(i - 1) + k] = s[k]
  PROVE  Number(text, base, i) = v
<1> DEFINE end == DigitsEnd(text, base, i)
           n   == Len(s)
<1>1. end = i + n
  <2>1. \A j \in i .. Len(text) : text[j] \in Digits(base)
    <3> SUFFICES ASSUME NEW j \in i .. Len(text) PROVE text[j] \in Digits(base)
      OBVIOUS
    <3>1. (j - i) + 1 \in 1 .. n /\ (i - 1) + ((j - i) + 1) = j
      OBVIOUS
    <3>2. text[j] = s[(j - i) + 1]
      BY <3>1
    <3> QED BY <3>1, <3>2
  <2> DEFINE Stops(j) == /\ \A k \in i .. j - 1 : text[k] \in Digits(base)
                         /\ j <= Len(text) => text[j] \notin Digits(base)
  <2>2. i + n \in i .. Len(text) + 1 /\ i + n = Len(text) + 1 /\ Len(text) \in Nat
    OBVIOUS
  <2>3. Stops(i + n)
    BY <2>1, <2>2
  <2>4. ASSUME NEW j \in i .. Len(text) + 1, Stops(j) PROVE j = i + n
    BY <2>1, <2>2, <2>4
  <2>5. end \in i .. Len(text) + 1 /\ Stops(end)
    <3>1. end = CHOOSE j \in i .. Len(text) + 1 : Stops(j)
      BY DEF DigitsEnd
    <3> HIDE DEF Stops, end
    <3>2. \E j \in i .. Len(text) + 1 : Stops(j)
      BY <2>2, <2>3
    <3> QED BY <3>1, <3>2
  <2> HIDE DEF end, Stops
  <2> QED BY <2>4, <2>5
<1> HIDE DEF end
<1>2. PICK g \in [0 .. n -> Nat] : /\ g[0] = 0 /\ g[n] = v
                                   /\ \A k \in 1 .. n : g[k] = g[k - 1] * base + ValueOf(s[k])
  BY DEF HasValue
<1> DEFINE Body(f) == [j \in i .. end |->
                         IF j = i THEN 0 ELSE f[j - 1] * base + ValueOf(text[j - 1])]
           f == CHOOSE f : f = Body(f)
           h == [j \in i .. end |-> g[j - i]]
<1>3. Number(text, base, i) = f[end]
  BY DEF Number, end
<1> HIDE DEF n
<1>4. n \in Nat
  BY DEF n
<1>5. h = Body(h)
  <2>1. ASSUME NEW j \in i .. end
        PROVE  h[j] = IF j = i THEN 0 ELSE h[j - 1] * base + ValueOf(text[j - 1])
    <3>1. CASE j = i
      <4>1. i - i = 0
        OBVIOUS
      <4> QED BY <3>1, <4>1, <1>2
    <3>2. CASE j # i
      <4>1. /\ j - i \in 1 .. n /\ (j - i) - 1 = (j - 1) - i /\ j - 1 \in i .. end
            /\ (i - 1) + (j - i) = j - 1
        BY <1>1, <1>4, <3>2
      <4>2. text[j - 1] = s[j - i]
        BY <4>1 DEF n
      <4>3. g[j - i] = g[(j - i) - 1] * base + ValueOf(s[j - i])
        BY <1>2, <4>1
      <4>4. h[j] = g[j - i] /\ h[j - 1] = g[(j - i) - 1]
        BY <4>1
      <4> HIDE DEF h
      <4> QED BY <3>2, <4>2, <4>3, <4>4
    <3> QED BY <3>1, <3>2
  <2> QED BY <2>1
<1>6. f = Body(f)
  BY <1>5, Zenon
<1> HIDE DEF f
<1>7. \A j \in i .. end : f[j] = IF j = i THEN 0 ELSE f[j - 1] * base + ValueOf(text[j - 1])
  BY <1>6
<1>8. \A j \in i .. end : h[j] = IF j = i THEN 0 ELSE h[j - 1] * base + ValueOf(text[j - 1])
  <2> HIDE DEF h
  <2> QED BY <1>5
<1>9. h[end] = v
  <2>1. end - i = n /\ end \in i .. end
    BY <1>1, <1>4
  <2> QED BY <2>1, <1>2
<1> DEFINE S == {j \in i .. end : f[j] = h[j]}
<1>10. i \in S
  <2>1. i \in i .. end
    BY <1>1, <1>4
  <2> HIDE DEF h
  <2> QED BY <2>1, <1>7, <1>8
<1>11. \A j \in i .. end - 1 : j \in S => j + 1 \in S
  <2> SUFFICES ASSUME NEW j \in i .. end - 1, f[j] = h[j] PROVE j + 1 \in S
    OBVIOUS
  <2>1. j + 1 \in i .. end /\ j + 1 # i /\ (j + 1) - 1 = j
    BY <1>1, <1>4
  <2> HIDE DEF h
  <2>2. f[j + 1] = h[j + 1]
    BY <2>1, <1>7, <1>8
  <2> QED BY <2>1, <2>2
<1>12. i .. end \subseteq S
  <2>1. i \in Int /\ end \in Int
    BY <1>1, <1>4
  <2> HIDE DEF S
  <2> QED BY <2>1, <1>10, <1>11, Upward
<1>13. end \in i .. end
  BY <1>1, <1>4
<1> HIDE DEF h
<1> QED BY <1>3, <1>9, <1>12, <1>13

\* What is written backwards and then backwards again is as it was.
LEMMA ReverseOfAppend ==
  ASSUME NEW S, NEW s \in Seq(S), NEW x \in S
  PROVE  /\ Reverse(Append(s, x)) = <<x>> \o Reverse(s)
         /\ Reverse(s) \in Seq(S)
         /\ Reverse(Reverse(s)) = s
<1> DEFINE n == Len(s)
<1>1. n \in Nat
  OBVIOUS
<1>2. Reverse(s) = [i \in 1 .. n |-> s[(n - i) + 1]]
  BY DEF Reverse
<1>3. \A i \in 1 .. n : (n - i) + 1 \in 1 .. n
  BY <1>1
<1>4. /\ Reverse(s) \in Seq(S) /\ Len(Reverse(s)) = n
      /\ \A i \in 1 .. n : Reverse(s)[i] = s[(n - i) + 1]
  <2> DEFINE r == [i \in 1 .. n |-> s[(n - i) + 1]]
  <2>1. \A i \in 1 .. n : s[(n - i) + 1] \in S
    BY <1>3
  <2>2. r \in Seq(S) /\ Len(r) = n /\ \A i \in 1 .. n : r[i] = s[(n - i) + 1]
    <3> HIDE DEF n
    <3> QED BY <1>1, <2>1
  <2> QED BY <1>2, <2>2
<1>5. Reverse(Reverse(s)) = s
  <2> DEFINE r == Reverse(s)
             q == [i \in 1 .. Len(r) |-> r[(Len(r) - i) + 1]]
  <2>1. Reverse(r) = q
    BY DEF Reverse
  <2> HIDE DEF r
  <2>2. Len(r) = n /\ \A i \in 1 .. n : r[i] = s[(n - i) + 1]
    BY <1>4 DEF r
  <2>3. ASSUME NEW i \in 1 .. n PROVE q[i] = s[i]
    <3>1. (n - i) + 1 \in 1 .. n /\ (n - ((n - i) + 1)) + 1 = i
      BY <1>1
    <3> QED BY <2>2, <3>1
  <2>4. q = [i \in 1 .. n |-> s[i]]
    BY <2>2, <2>3
  <2>5. s = [i \in 1 .. n |-> s[i]]
    OBVIOUS
  <2> QED BY <2>1, <2>4, <2>5 DEF r
<1>6. Reverse(Append(s, x)) = <<x>> \o Reverse(s)
  <2> DEFINE t == Append(s, x)
             u == <<x>> \o Reverse(s)
             q == [i \in 1 .. Len(t) |-> t[(Len(t) - i) + 1]]
  <2>1. Len(t) = n + 1 /\ t[n + 1] = x /\ \A i \in 1 .. n : t[i] = s[i]
    OBVIOUS
  <2>2. Reverse(t) = q
    BY DEF Reverse
  <2>3. <<x>> \in Seq(S) /\ Len(<<x>>) = 1 /\ <<x>>[1] = x
    OBVIOUS
  <2>4. /\ u \in Seq(S) /\ Len(u) = 1 + n
        /\ \A i \in 1 .. 1 + n : u[i] = IF i <= 1 THEN <<x>>[i] ELSE Reverse(s)[i - 1]
    <3> DEFINE a == <<x>>
               r == Reverse(s)
    <3>1. a \in Seq(S) /\ r \in Seq(S) /\ Len(a) = 1 /\ Len(r) = n
      BY <1>4, <2>3
    <3> HIDE DEF a, r, n
    <3>2. /\ a \o r \in Seq(S) /\ Len(a \o r) = Len(a) + Len(r)
          /\ \A i \in 1 .. Len(a) + Len(r) :
               (a \o r)[i] = IF i <= Len(a) THEN a[i] ELSE r[i - Len(a)]
      BY <3>1, ConcatProperties, Zenon
    <3> QED BY <3>1, <3>2 DEF a, r
  <2> HIDE DEF t, u
  <2>5. ASSUME NEW i \in 1 .. n + 1 PROVE q[i] = u[i]
    <3>1. CASE i = 1
      <4>1. ((n + 1) - 1) + 1 = n + 1 /\ 1 \in 1 .. n + 1
        BY <1>1
      <4>2. q[i] = t[n + 1]
        BY <2>1, <3>1, <4>1
      <4>3. u[i] = <<x>>[1]
        BY <1>1, <1>4, <2>3, <2>4, <3>1
      <4> QED BY <2>1, <2>3, <4>2, <4>3
    <3>2. CASE i # 1
      <4>1. /\ i - 1 \in 1 .. n /\ ((n + 1) - i) + 1 \in 1 .. n
            /\ ((n + 1) - i) + 1 = (n - (i - 1)) + 1 /\ ~(i <= 1)
        BY <1>1, <3>2
      <4>2. q[i] = s[(n - (i - 1)) + 1]
        BY <2>1, <4>1
      <4>3. u[i] = Reverse(s)[i - 1]
        <5>1. i \in 1 .. 1 + n
          BY <1>1
        <5>2. u[i] = IF i <= 1 THEN <<x>>[i] ELSE Reverse(s)[i - 1]
          BY <2>4, <5>1
        <5> QED BY ONLY <4>1, <5>2
      <4> QED BY <1>4, <4>1, <4>2, <4>3
    <3> QED BY <3>1, <3>2
  <2>6. u = [i \in 1 .. n + 1 |-> u[i]]
    <3>1. Len(u) = n + 1
      BY <1>1, <1>4, <2>3, <2>4
    <3> QED BY <2>4, <3>1
  <2>7. q = [i \in 1 .. n + 1 |-> u[i]]
    BY <2>1, <2>5
  <2> QED BY <2>2, <2>6, <2>7 DEF t, u
<1> QED BY <1>4, <1>5, <1>6

\* render_uint, which takes the last digit first and prints backwards, prints what
\* fmt_uint writes.
LEMMA RenderUintWrites ==
  ASSUME NEW v \in Nat, NEW base \in Bases
  PROVE  RenderUint(v, base) = Unsigned(v, base)
<1> DEFINE more == CHOOSE f : f = More(v, base, f)
           Body(f) == [m \in 0 .. v |-> IF m = 0 THEN <<>>
                                        ELSE <<Digit[(m % base) + 1]>> \o f[m \div base]]
           f == CHOOSE f : f = Body(f)
           h == [m \in 0 .. v |-> Reverse(more[m])]
<1>1. more = More(v, base, more)
  BY DigitsEnding, Zenon
<1>2. Unsigned(v, base) = IF v = 0 THEN <<"0">> ELSE more[v]
  BY DEF Unsigned, More
<1>3. RenderUint(v, base) = IF v = 0 THEN <<"0">> ELSE Reverse(f[v])
  BY DEF RenderUint
<1> HIDE DEF more
<1>4. \A m \in 0 .. v : more[m] = IF m = 0 THEN <<>> ELSE Append(more[m \div base], Digit[(m % base) + 1])
  BY <1>1 DEF More
<1> DEFINE D == Digits(base)
<1>5. ASSUME NEW m \in 1 .. v
      PROVE  m \div base \in 0 .. m - 1 /\ m \div base \in 0 .. v /\ Digit[(m % base) + 1] \in D
  <2>1. m \in Nat \ {0}
    OBVIOUS
  <2>2. m \div base \in 0 .. m - 1 /\ m % base \in 0 .. base - 1
    BY <2>1, LastDigit, Zenon
  <2>3. Digit[(m % base) + 1] \in D
    BY <2>2, DigitsValued
  <2>4. m \div base \in 0 .. v
    BY <2>2
  <2> QED BY <2>2, <2>3, <2>4
<1> HIDE DEF D
<1>6. ASSUME NEW m \in 0 .. v PROVE more[m] \in Seq(D)
  <2> DEFINE S == {l \in 0 .. v : more[l] \in Seq(D)}
  <2>1. ASSUME NEW l \in 0 .. v, \A j \in 0 .. l - 1 : j \in S PROVE l \in S
    <3>1. CASE l = 0
      <4>1. more[l] = <<>> /\ <<>> \in Seq(D)
        BY <1>4, <3>1
      <4> QED BY <4>1
    <3>2. CASE l # 0
      <4>1. l \in 1 .. v
        BY <3>2
      <4>2. more[l \div base] \in Seq(D) /\ Digit[(l % base) + 1] \in D
        BY <2>1, <1>5, <4>1
      <4>3. more[l] = Append(more[l \div base], Digit[(l % base) + 1])
        BY <1>4, <3>2
      <4>4. more[l] \in Seq(D)
        BY <4>2, <4>3
      <4> QED BY <4>4
    <3> QED BY <3>1, <3>2
  <2>2. m \in S
    <3> HIDE DEF S
    <3> QED BY <2>1, FromTheStart
  <2> QED BY <2>2
<1>7. h = Body(h)
  <2>1. ASSUME NEW m \in 0 .. v
        PROVE  h[m] = IF m = 0 THEN <<>> ELSE <<Digit[(m % base) + 1]>> \o h[m \div base]
    <3>1. CASE m = 0
      <4>1. more[m] = <<>>
        BY <1>4, <3>1
      <4>2. Reverse(<<>>) = <<>>
        BY DEF Reverse
      <4> QED BY <3>1, <4>1, <4>2
    <3>2. CASE m # 0
      <4>1. m \in 1 .. v
        BY <3>2
      <4>2. m \div base \in 0 .. v /\ Digit[(m % base) + 1] \in D
        BY <4>1, <1>5
      <4>3. more[m \div base] \in Seq(D)
        BY <4>2, <1>6
      <4>4. Reverse(Append(more[m \div base], Digit[(m % base) + 1]))
              = <<Digit[(m % base) + 1]>> \o Reverse(more[m \div base])
        BY <4>2, <4>3, ReverseOfAppend
      <4>5. more[m] = Append(more[m \div base], Digit[(m % base) + 1])
        BY <1>4, <3>2
      <4>6. h[m] = Reverse(more[m]) /\ h[m \div base] = Reverse(more[m \div base])
        BY <4>2
      <4> HIDE DEF h
      <4> QED BY <3>2, <4>4, <4>5, <4>6
    <3> QED BY <3>1, <3>2
  <2> HIDE DEF h
  <2>2. h = [m \in 0 .. v |-> h[m]]
    BY DEF h
  <2> QED BY <2>1, <2>2
<1>8. f = Body(f)
  BY <1>7, Zenon
<1> HIDE DEF f
<1>9. \A m \in 0 .. v : f[m] = IF m = 0 THEN <<>> ELSE <<Digit[(m % base) + 1]>> \o f[m \div base]
  BY <1>8
<1>10. \A m \in 0 .. v : h[m] = IF m = 0 THEN <<>> ELSE <<Digit[(m % base) + 1]>> \o h[m \div base]
  <2> HIDE DEF h
  <2> QED BY <1>7
<1> DEFINE S == {m \in 0 .. v : f[m] = h[m]}
<1>11. ASSUME NEW m \in 0 .. v, \A l \in 0 .. m - 1 : l \in S PROVE m \in S
  <2> HIDE DEF h
  <2>1. m # 0 => f[m \div base] = h[m \div base]
    <3> SUFFICES ASSUME m # 0 PROVE f[m \div base] = h[m \div base]
      OBVIOUS
    <3>1. m \in 1 .. v
      OBVIOUS
    <3>2. m \div base \in 0 .. m - 1
      BY <3>1, <1>5
    <3> QED BY <3>2, <1>11
  <2>2. f[m] = h[m]
    BY <1>9, <1>10, <2>1
  <2> QED BY <2>2
<1>12. v \in S
  <2> HIDE DEF S
  <2> QED BY <1>11, FromTheStart
<1>13. Reverse(f[v]) = more[v]
  <2>1. more[v] \in Seq(D)
    BY <1>6
  <2>2. f[v] = Reverse(more[v])
    BY <1>12
  <2>3. CASE v = 0
    <3>1. more[v] = <<>>
      BY <1>4, <2>3
    <3>2. Reverse(<<>>) = <<>>
      BY DEF Reverse
    <3> QED BY <2>2, <3>1, <3>2
  <2>4. CASE v # 0
    <3>1. v \in 1 .. v
      BY <2>4
    <3>2. Digit[(v % base) + 1] \in D
      BY <3>1, <1>5
    <3> QED BY <2>1, <2>2, <3>2, ReverseOfAppend
  <2> QED BY <2>3, <2>4
<1> QED BY <1>2, <1>3, <1>13

-----------------------------------------------------------------------------
(* Pieces of a format and their texts *)

\* All characters a piece can stand for.
Symbols ==
  (UNION {ToSet(w) : w \in Words}) \cup ToSet(Digit) \cup 
    {"a", "b", "z", "p", "%", "-", "+", "x", "0", "(", "n", "u", "l", ")"}

LEMMA UnsignedTyped ==
  ASSUME NEW v \in Nat, NEW base \in Bases
  PROVE  Unsigned(v, base) \in Seq(Symbols) /\ Len(Unsigned(v, base)) \in Nat \ {0}
<1>0. ToSet(Digit) \subseteq Symbols
  BY Zenon DEF Symbols
<1>1. Digits(base) \subseteq Symbols
  <2>1. Digits(base) \subseteq ToSet(Digit)
    BY DigitsValued
  <2> QED BY <1>0, <2>1
<1>2. Unsigned(v, base) \in Seq(Digits(base)) /\ Len(Unsigned(v, base)) \in Nat \ {0}
  BY UnsignedWrites
<1> QED BY <1>1, <1>2

\* Texts of one character and of two.
LEMMA ShortTexts ==
  ASSUME NEW S, NEW x \in S, NEW y \in S
  PROVE  /\ <<x>> \in Seq(S) /\ Len(<<x>>) = 1 /\ <<x>>[1] = x
         /\ <<x, y>> \in Seq(S) /\ Len(<<x, y>>) = 2
OBVIOUS

LEMMA NullText ==
  ASSUME NEW S, NEW x \in S, NEW n \in S, NEW u \in S, NEW y \in S, NEW z \in S
  PROVE  <<x, n, u, y, y, z>> \in Seq(S)
OBVIOUS

LEMMA SomeSymbols ==
  {"a", "b", "z", "%", "-", "+", "x", "0", "(", "n", "u", "l", ")"} \subseteq Symbols
BY DEF Symbols

\* One text behind another.
LEMMA Joined ==
  ASSUME NEW S, NEW s \in Seq(S), NEW t \in Seq(S)
  PROVE  /\ s \o t \in Seq(S) /\ Len(s \o t) = Len(s) + Len(t) /\ Len(s) \in Nat /\ Len(t) \in Nat
         /\ \A i \in 1 .. Len(s) : (s \o t)[i] = s[i]
         /\ \A i \in 1 .. Len(t) : (s \o t)[Len(s) + i] = t[i]
<1>1. Len(s) \in Nat /\ Len(t) \in Nat
  OBVIOUS
<1>2. /\ s \o t \in Seq(S)
      /\ Len(s \o t) = Len(s) + Len(t)
      /\ \A i \in 1 .. Len(s) + Len(t) : (s \o t)[i] = IF i <= Len(s) THEN s[i] ELSE t[i - Len(s)]
  BY ConcatProperties, Zenon
<1>3. ASSUME NEW i \in 1 .. Len(s) PROVE (s \o t)[i] = s[i]
  <2>1. i \in 1 .. Len(s) + Len(t) /\ i <= Len(s)
    BY <1>1
  <2> QED BY <1>2, <2>1
<1>4. ASSUME NEW i \in 1 .. Len(t) PROVE (s \o t)[Len(s) + i] = t[i]
  <2>1. Len(s) + i \in 1 .. Len(s) + Len(t) /\ ~(Len(s) + i <= Len(s)) /\ (Len(s) + i) - Len(s) = i
    BY <1>1
  <2> QED BY <1>2, <2>1
<1> QED BY <1>1, <1>2, <1>3, <1>4

\* The pieces without an argument to choose.
PlainPieces ==
  {Piece("text", "a"), Piece("%", ""), Piece("c", "b"), Piece("unknown", "z"), Piece("null", "")}

\* What a piece is.
LEMMA PieceCases ==
  ASSUME NEW p \in Pieces
  PROVE  \/ p \in PlainPieces
         \/ \E w \in Words : p = Piece("s", w)
         \/ \E v \in Numbers : p = Piece("d", v)
         \/ \E kind \in {"u", "x", "p"}, v \in Numbers \cap Nat : p = Piece(kind, v)
<1>1. \/ p \in PlainPieces
      \/ p \in [kind : {"s"}, arg : Words]
      \/ p \in [kind : {"d"}, arg : Numbers]
      \/ p \in [kind : {"u", "x", "p"}, arg : Numbers \cap Nat]
  BY DEF Pieces, PlainPieces
<1>2. CASE p \in [kind : {"s"}, arg : Words]
  <2>1. PICK kind \in {"s"}, a \in Words : p = Piece(kind, a)
    BY <1>2 DEF Piece
  <2> QED BY <2>1
<1>3. CASE p \in [kind : {"d"}, arg : Numbers]
  <2>1. PICK kind \in {"d"}, a \in Numbers : p = Piece(kind, a)
    BY <1>3 DEF Piece
  <2> QED BY <2>1
<1>4. CASE p \in [kind : {"u", "x", "p"}, arg : Numbers \cap Nat]
  BY <1>4 DEF Piece
<1> QED BY <1>1, <1>2, <1>3, <1>4

\* The arguments of conversions of numbers are numbers.
LEMMA NumberPieces ==
  ASSUME NEW p \in Pieces
  PROVE  /\ p.kind \in {"text", "%", "c", "s", "null", "d", "u", "x", "p", "unknown"}
         /\ p.kind = "d" => p.arg \in Int
         /\ p.kind \in {"u", "x", "p"} => p.arg \in Nat
<1>1. CASE p \in PlainPieces
  <2>1. p.kind \in {"text", "%", "c", "unknown", "null"}
    <3>1. CASE p = Piece("text", "a")
      BY <3>1 DEF Piece
    <3>2. CASE p = Piece("%", "")
      BY <3>2 DEF Piece
    <3>3. CASE p = Piece("c", "b")
      BY <3>3 DEF Piece
    <3>4. CASE p = Piece("unknown", "z")
      BY <3>4 DEF Piece
    <3>5. CASE p = Piece("null", "")
      BY <3>5 DEF Piece
    <3> QED BY <1>1, <3>1, <3>2, <3>3, <3>4, <3>5 DEF PlainPieces
  <2> QED BY ONLY <2>1
<1>2. CASE \E w \in Words : p = Piece("s", w)
  BY <1>2 DEF Piece
<1>3. CASE \E v \in Numbers : p = Piece("d", v)
  BY <1>3, FormatAssumption DEF Piece
<1>4. CASE \E kind \in {"u", "x", "p"}, v \in Numbers \cap Nat : p = Piece(kind, v)
  BY <1>4 DEF Piece
<1> QED BY <1>1, <1>2, <1>3, <1>4, PieceCases

\* A sign or a prefix in front of digits.
LEMMA PieceTyped ==
  ASSUME NEW p \in Pieces
  PROVE  /\ Rendered(p) \in Seq(Symbols) /\ Len(Rendered(p)) \in Nat
         /\ p.kind = "s" => Rendered(p) = p.arg
         /\ p.kind \in {"text", "%", "c"} => Len(Rendered(p)) = 1
<1>1. CASE p \in PlainPieces
  <2>1. \/ p.kind \in {"text", "%", "c"} /\ Rendered(p) \in {<<"a">>, <<"b">>, <<"%">>}
        \/ p.kind = "unknown" /\ Rendered(p) = <<"%", "z">>
        \/ p.kind = "null" /\ Rendered(p) = <<"(", "n", "u", "l", "l", ")">>
    <3>1. CASE p = Piece("text", "a")
      BY <3>1 DEF Piece, Rendered
    <3>2. CASE p = Piece("%", "")
      BY <3>2 DEF Piece, Rendered
    <3>3. CASE p = Piece("c", "b")
      BY <3>3 DEF Piece, Rendered
    <3>4. CASE p = Piece("unknown", "z")
      BY <3>4 DEF Piece, Rendered
    <3>5. CASE p = Piece("null", "")
      BY <3>5 DEF Piece, Rendered
    <3> QED BY <1>1, <3>1, <3>2, <3>3, <3>4, <3>5 DEF PlainPieces
  <2>2. /\ \A x \in {"a", "b", "%"} : <<x>> \in Seq(Symbols) /\ Len(<<x>>) = 1
        /\ <<"%", "z">> \in Seq(Symbols) /\ Len(<<"%", "z">>) = 2
    <3>1. ASSUME NEW x \in {"a", "b", "%"} PROVE <<x>> \in Seq(Symbols) /\ Len(<<x>>) = 1
      <4>1. x \in Symbols
        BY SomeSymbols
      <4> QED BY <4>1, ShortTexts, Zenon
    <3>2. "%" \in Symbols /\ "z" \in Symbols
      BY SomeSymbols
    <3>3. <<"%", "z">> \in Seq(Symbols) /\ Len(<<"%", "z">>) = 2
      BY <3>2, ShortTexts, Zenon
    <3> QED BY <3>1, <3>3
  <2>3. CASE p.kind \in {"text", "%", "c"} /\ Rendered(p) \in {<<"a">>, <<"b">>, <<"%">>}
    <3>1. PICK x \in {"a", "b", "%"} : Rendered(p) = <<x>>
      BY <2>3, Zenon
    <3>2. Rendered(p) \in Seq(Symbols) /\ Len(Rendered(p)) = 1
      BY <2>2, <3>1, Zenon
    <3>3. p.kind # "s"
      BY <2>3
    <3> QED BY <3>2, <3>3
  <2>4. CASE p.kind = "unknown" /\ Rendered(p) = <<"%", "z">>
    <3>1. Rendered(p) \in Seq(Symbols) /\ Len(Rendered(p)) = 2
      <4>1. Rendered(p) = <<"%", "z">>
        BY <2>4
      <4>2. <<"%", "z">> \in Seq(Symbols) /\ Len(<<"%", "z">>) = 2
        BY <2>2
      <4> QED BY ONLY <4>1, <4>2, Zenon
    <3>2. p.kind # "s" /\ p.kind \notin {"text", "%", "c"}
      BY <2>4
    <3> QED BY <3>1, <3>2
  <2>5. CASE p.kind = "null" /\ Rendered(p) = <<"(", "n", "u", "l", "l", ")">>
    <3>1. Rendered(p) \in Seq(Symbols) /\ Len(Rendered(p)) \in Nat
      <4>1. Rendered(p) = <<"(", "n", "u", "l", "l", ")">>
        BY <2>5
      <4> HIDE DEF Rendered
      <4>2. "(" \in Symbols /\ "n" \in Symbols /\ "u" \in Symbols /\ "l" \in Symbols /\ ")" \in Symbols
        BY SomeSymbols
      <4>3. <<"(", "n", "u", "l", "l", ")">> \in Seq(Symbols)
        BY <4>2, NullText, Zenon
      <4>4. Rendered(p) \in Seq(Symbols)
        BY ONLY <4>1, <4>3, Zenon
      <4> QED BY ONLY <4>4
    <3>2. p.kind # "s" /\ p.kind \notin {"text", "%", "c"}
      BY <2>5
    <3> QED BY <3>1, <3>2
  <2> QED BY <2>1, <2>3, <2>4, <2>5
<1>2. CASE \E w \in Words : p = Piece("s", w)
  <2>1. PICK w \in Words : p = Piece("s", w)
    BY <1>2
  <2>2. w \in Seq(ToSet(w)) /\ ToSet(w) \subseteq Symbols
    BY FormatAssumption DEF Symbols
  <2>3. w \in Seq(Symbols) /\ Len(w) \in Nat
    BY <2>2
  <2> QED BY <2>1, <2>3 DEF Piece, Rendered
<1>3. CASE \E v \in Numbers : p = Piece("d", v)
  <2>1. PICK v \in Numbers : p = Piece("d", v)
    BY <1>3
  <2>2. Rendered(p) = Signed(v) /\ p.kind = "d"
    BY <2>1 DEF Piece, Rendered
  <2>3. v \in Int /\ 10 \in Bases
    BY FormatAssumption DEF Bases
  <2>4. CASE v < 0
    <3>1. -v \in Nat
      BY <2>3, <2>4
    <3>2. Unsigned(-v, 10) \in Seq(Symbols)
      BY <2>3, <3>1, UnsignedTyped
    <3>3. <<"-">> \in Seq(Symbols)
      BY SomeSymbols, ShortTexts
    <3>4. <<"-">> \o Unsigned(-v, 10) \in Seq(Symbols) /\ Len(<<"-">> \o Unsigned(-v, 10)) \in Nat
      BY <3>2, <3>3
    <3> QED BY <2>2, <2>4, <3>4 DEF Signed
  <2>5. CASE ~(v < 0)
    <3>1. v \in Nat
      BY <2>3, <2>5
    <3> QED BY <2>2, <2>3, <2>5, <3>1, UnsignedTyped DEF Signed
  <2> QED BY <2>4, <2>5
<1>4. CASE \E kind \in {"u", "x", "p"}, v \in Numbers \cap Nat : p = Piece(kind, v)
  <2>1. PICK kind \in {"u", "x", "p"}, v \in Numbers \cap Nat : p = Piece(kind, v)
    BY <1>4
  <2>2. 10 \in Bases /\ 16 \in Bases /\ v \in Nat
    BY DEF Bases
  <2>3. Unsigned(v, 10) \in Seq(Symbols) /\ Unsigned(v, 16) \in Seq(Symbols)
        /\ Len(Unsigned(v, 10)) \in Nat /\ Len(Unsigned(v, 16)) \in Nat
    BY <2>2, UnsignedTyped
  <2>4. <<"0", "x">> \in Seq(Symbols)
    BY SomeSymbols, ShortTexts
  <2>5. <<"0", "x">> \o Unsigned(v, 16) \in Seq(Symbols) /\ Len(<<"0", "x">> \o Unsigned(v, 16)) \in Nat
    BY <2>3, <2>4
  <2>6. p.kind = kind /\ p.arg = v
    BY <2>1 DEF Piece
  <2>7. Rendered(p) \in {Unsigned(v, 10), Unsigned(v, 16), <<"0", "x">> \o Unsigned(v, 16)}
    BY <2>1, <2>6 DEF Rendered
  <2>8. p.kind \notin {"text", "%", "c", "s"}
    BY <2>1, <2>6
  <2> QED BY <2>3, <2>5, <2>7, <2>8
<1>5. \/ p \in PlainPieces
      \/ \E w \in Words : p = Piece("s", w)
      \/ \E v \in Numbers : p = Piece("d", v)
      \/ \E kind \in {"u", "x", "p"}, v \in Numbers \cap Nat : p = Piece(kind, v)
  BY PieceCases
<1> QED BY <1>1, <1>2, <1>3, <1>4, <1>5, Zenon

\* The first characters of a text.
LEMMA FirstIs ==
  ASSUME NEW S, NEW text \in Seq(S), NEW n \in Nat
  PROVE  /\ First(text, n) \in Seq(S)
         /\ Len(text) <= n => First(text, n) = text
         /\ Len(First(text, n)) = IF Len(text) < n THEN Len(text) ELSE n
         /\ \A i \in 1 .. Len(First(text, n)) : First(text, n)[i] = text[i]
<1>1. Len(text) \in Nat
  OBVIOUS
<1>2. CASE Len(text) < n
  BY <1>1, <1>2 DEF First
<1>3. CASE ~(Len(text) < n)
  <2>1. First(text, n) = SubSeq(text, 1, n) /\ n <= Len(text)
    BY <1>1, <1>3 DEF First
  <2>2. /\ SubSeq(text, 1, n) \in Seq(S) /\ Len(SubSeq(text, 1, n)) = n
        /\ \A i \in 1 .. n : SubSeq(text, 1, n)[i] = text[i]
    BY <2>1
  <2>3. n = Len(text) => SubSeq(text, 1, n) = text
    BY SubSeqFull
  <2> QED BY <1>1, <1>3, <2>1, <2>2, <2>3
<1> QED BY <1>2, <1>3

\* Two texts of a length with the same characters are the same.
LEMMA FirstOfJoined ==
  ASSUME NEW S, NEW s \in Seq(S), NEW t \in Seq(S), NEW n \in Nat
  PROVE  /\ Len(s) >= n => First(s \o t, n) = First(s, n)
         /\ Len(s) < n => First(s \o t, n) = s \o First(t, n - Len(s))
<1>0. Len(s) \in Nat /\ Len(t) \in Nat
  OBVIOUS
<1> DEFINE u == s \o t
<1>1. /\ u \in Seq(S) /\ Len(u) = Len(s) + Len(t)
      /\ \A i \in 1 .. Len(s) : u[i] = s[i]
      /\ \A i \in 1 .. Len(t) : u[Len(s) + i] = t[i]
  <2>1. s \in Seq(S) /\ t \in Seq(S)
    OBVIOUS
  <2> QED BY ONLY <2>1, Joined
<1> HIDE DEF u
<1>2. /\ First(u, n) \in Seq(S) /\ Len(First(u, n)) = IF Len(u) < n THEN Len(u) ELSE n
      /\ \A i \in 1 .. Len(First(u, n)) : First(u, n)[i] = u[i]
  BY <1>1, FirstIs
<1>3. ASSUME Len(s) >= n PROVE First(u, n) = First(s, n)
  <2>1. /\ First(s, n) \in Seq(S) /\ Len(First(s, n)) = IF Len(s) < n THEN Len(s) ELSE n
        /\ \A i \in 1 .. Len(First(s, n)) : First(s, n)[i] = s[i]
    BY FirstIs
  <2>2. Len(First(s, n)) = n /\ Len(First(u, n)) = n
    BY <1>0, <1>1, <1>2, <1>3, <2>1
  <2>3. \A i \in 1 .. n : i \in 1 .. Len(s)
    BY <1>0, <1>3
  <2>4. \A i \in 1 .. n : First(u, n)[i] = First(s, n)[i]
    BY <1>1, <1>2, <2>1, <2>2, <2>3
  <2> QED BY <1>2, <2>1, <2>2, <2>4, SeqEqual
<1>4. ASSUME Len(s) < n PROVE First(u, n) = s \o First(t, n - Len(s))
  <2> DEFINE m == n - Len(s)
             v == First(t, m)
  <2>1. m \in Nat
    BY <1>0, <1>4
  <2>2. /\ v \in Seq(S) /\ Len(v) = IF Len(t) < m THEN Len(t) ELSE m
        /\ \A i \in 1 .. Len(v) : v[i] = t[i]
    BY <2>1, FirstIs
  <2> HIDE DEF v
  <2>3. /\ s \o v \in Seq(S) /\ Len(s \o v) = Len(s) + Len(v)
        /\ \A i \in 1 .. Len(s) : (s \o v)[i] = s[i]
        /\ \A i \in 1 .. Len(v) : (s \o v)[Len(s) + i] = v[i]
    <3>1. s \in Seq(S) /\ v \in Seq(S)
      BY <2>2
    <3> QED BY ONLY <3>1, Joined
  <2>4. Len(First(u, n)) = Len(s \o v) /\ Len(v) \in Nat
    BY <1>0, <1>1, <1>2, <1>4, <2>2, <2>3
  <2>5. ASSUME NEW i \in 1 .. Len(First(u, n)) PROVE First(u, n)[i] = (s \o v)[i]
    <3>1. First(u, n)[i] = u[i]
      BY <1>2
    <3>2. CASE i \in 1 .. Len(s)
      BY <1>1, <2>3, <3>1, <3>2
    <3>3. CASE i \notin 1 .. Len(s)
      <4> DEFINE k == i - Len(s)
      <4>1. k \in 1 .. Len(v) /\ k \in 1 .. Len(t) /\ Len(s) + k = i
        BY <1>0, <2>2, <2>3, <2>4, <3>3
      <4> HIDE DEF k
      <4> QED BY <1>1, <2>2, <2>3, <3>1, <4>1
    <3> QED BY <3>2, <3>3
  <2>6. First(u, n) = s \o v
    BY <1>2, <2>3, <2>4, <2>5, SeqEqual
  <2> QED BY <2>6 DEF v
<1> QED BY <1>3, <1>4 DEF u

-----------------------------------------------------------------------------
(* What is written of a format, and where it is cut *)

\* What a loop of n steps made: x at first, and at each step a value of the last one.
History(n, T, x, next, g) ==
  g \in [0 .. n -> T] /\ g[0] = x /\ \A i \in 1 .. n : g[i] = next[i][g[i - 1]]

LEMMA HistoryExists ==
  ASSUME NEW n \in Nat, NEW T, NEW x \in T, NEW next \in [1 .. n -> [T -> T]]
  PROVE  \E g : History(n, T, x, next, g)
<1> DEFINE Solves(g, k) == g[0] = x /\ \A i \in 1 .. k : g[i] = next[i][g[i - 1]]
           S == {k \in 0 .. n : \E g \in [0 .. n -> T] : Solves(g, k)}
<1>1. 0 \in S
  <2> DEFINE g == [i \in 0 .. n |-> x]
  <2>1. g \in [0 .. n -> T] /\ Solves(g, 0)
    OBVIOUS
  <2> HIDE DEF g
  <2> QED BY <2>1
<1>2. \A k \in 0 .. n - 1 : k \in S => k + 1 \in S
  <2> SUFFICES ASSUME NEW k \in 0 .. n - 1, k \in S PROVE k + 1 \in S
    OBVIOUS
  <2>1. PICK g \in [0 .. n -> T] : Solves(g, k)
    OBVIOUS
  <2> DEFINE y == next[k + 1][g[k]]
             h == [i \in 0 .. n |-> IF i = k + 1 THEN y ELSE g[i]]
  <2>2. k + 1 \in 1 .. n /\ k \in 0 .. n /\ k + 1 \in 0 .. n
    OBVIOUS
  <2>3. y \in T
    BY <2>1, <2>2
  <2> HIDE DEF y
  <2>4. h \in [0 .. n -> T] /\ h[0] = x
    BY <2>1, <2>3
  <2>5. ASSUME NEW i \in 1 .. k + 1 PROVE h[i] = next[i][h[i - 1]]
    <3>1. i \in 0 .. n /\ i - 1 \in 0 .. n /\ i - 1 # k + 1
      BY <2>2
    <3>2. h[i - 1] = g[i - 1]
      BY <3>1
    <3>3. CASE i = k + 1
      BY <3>1, <3>2, <3>3 DEF y
    <3>4. CASE i # k + 1
      <4>1. i \in 1 .. k /\ h[i] = g[i]
        BY <3>1, <3>4
      <4> QED BY <2>1, <3>2, <4>1
    <3> QED BY <3>3, <3>4
  <2> HIDE DEF h
  <2> QED BY <2>2, <2>4, <2>5
<1>3. n \in S
  <2> HIDE DEF S
  <2>1. 0 .. n \subseteq S
    BY <1>1, <1>2, Upward
  <2> QED BY <2>1
<1> QED BY <1>3 DEF History

\* What is in front of a piece, and what is written of it.
LEMMA EmittedTyped ==
  ASSUME NEW p \in Pieces, NEW before \in Nat, before < TmpSize - 1
  PROVE  /\ Emitted(p, before) \in Seq(Symbols)
         /\ Len(Emitted(p, before)) \in Nat /\ Len(Emitted(p, before)) <= Len(Rendered(p))
         /\ Len(Emitted(p, before)) <= (TmpSize - 1) - before =>
              Emitted(p, before) = First(Rendered(p), (TmpSize - 1) - before)
         /\ p.kind \in Textual => Len(Emitted(p, before)) <= (TmpSize - 1) - before
<1> DEFINE m == (TmpSize - 1) - before
           r == Rendered(p)
<1>1. TmpSize \in Nat /\ m \in Nat /\ m # 0
  BY FormatAssumption
<1>2. /\ r \in Seq(Symbols) /\ Len(r) \in Nat
      /\ p.kind \in {"text", "%", "c"} => Len(r) = 1
  BY PieceTyped
<1>3. Emitted(p, before) = IF p.kind \in {"s", "null"} THEN First(r, m) ELSE r
  BY DEF Emitted
<1> HIDE DEF r, m
<1>4. /\ First(r, m) \in Seq(Symbols)
      /\ Len(r) <= m => First(r, m) = r
      /\ Len(First(r, m)) = IF Len(r) < m THEN Len(r) ELSE m
  BY <1>1, <1>2, FirstIs
<1>5. Len(First(r, m)) \in Nat /\ Len(First(r, m)) <= Len(r) /\ Len(First(r, m)) <= m
  BY <1>1, <1>2, <1>4
<1>6. CASE p.kind \in {"s", "null"}
  <2>1. Emitted(p, before) = First(r, m)
    BY <1>3, <1>6
  <2> QED BY ONLY <1>4, <1>5, <2>1 DEF m, r
<1>7. CASE p.kind \notin {"s", "null"}
  <2>1. Emitted(p, before) = r
    BY <1>3, <1>7
  <2>2. p.kind \in Textual => Len(r) <= m
    <3> SUFFICES ASSUME p.kind \in Textual PROVE Len(r) <= m
      OBVIOUS
    <3>1. Len(r) = 1
      BY <1>2, <1>7 DEF Textual
    <3> QED BY ONLY <1>1, <3>1
  <2>3. Len(r) <= Len(r)
    BY <1>2
  <2>4. Len(r) <= m => r = First(r, m)
    BY ONLY <1>4
  <2> QED BY ONLY <1>2, <2>1, <2>2, <2>3, <2>4 DEF m, r
<1> QED BY <1>6, <1>7

\* The history of tmp, and that of the text without an end of the buffer.
WrittenIn(f, w) ==
  /\ w \in [0 .. Len(f) -> Seq(Symbols)]
  /\ w[0] = <<>>
  /\ \A i \in 1 .. Len(f) :
       w[i] = IF Len(w[i - 1]) < TmpSize - 1
              THEN w[i - 1] \o Emitted(f[i], Len(w[i - 1])) ELSE w[i - 1]

UncutIn(f, u) ==
  /\ u \in [0 .. Len(f) -> Seq(Symbols)]
  /\ u[0] = <<>>
  /\ \A i \in 1 .. Len(f) : u[i] = u[i - 1] \o Rendered(f[i])

LEMMA WrittenHistory ==
  ASSUME NEW f \in Seq(Pieces)
  PROVE  \E w : WrittenIn(f, w) /\ Written(f) = w[Len(f)]
<1> DEFINE n == Len(f)
           T == Seq(Symbols)
           Step(i, s) == IF Len(s) < TmpSize - 1 THEN s \o Emitted(f[i], Len(s)) ELSE s
           next == [i \in 1 .. n |-> [s \in T |-> Step(i, s)]]
           Body(w) == [i \in 0 .. n |-> IF i = 0 THEN <<>> ELSE Step(i, w[i - 1])]
           after == CHOOSE w : w = Body(w)
<1>1. n \in Nat /\ <<>> \in T
  OBVIOUS
<1>2. ASSUME NEW i \in 1 .. n, NEW s \in T PROVE Step(i, s) \in T
  <2>1. CASE Len(s) < TmpSize - 1
    <3>1. f[i] \in Pieces /\ Len(s) \in Nat
      OBVIOUS
    <3>2. Emitted(f[i], Len(s)) \in T
      BY <2>1, <3>1, EmittedTyped
    <3>3. s \o Emitted(f[i], Len(s)) \in T
      BY <3>2
    <3> QED BY <2>1, <3>3
  <2>2. CASE ~(Len(s) < TmpSize - 1)
    BY <2>2
  <2> QED BY <2>1, <2>2
<1>3. Written(f) = after[n]
  BY DEF Written
<1> HIDE DEF T, Step, n
<1>4. next \in [1 .. n -> [T -> T]]
  BY <1>2
<1>5. PICK g \in [0 .. n -> T] : g[0] = <<>> /\ \A i \in 1 .. n : g[i] = next[i][g[i - 1]]
  <2> DEFINE x == <<>>
  <2> HIDE DEF next
  <2>1. x \in T
    BY <1>1
  <2> HIDE DEF x
  <2>2. \E g : History(n, T, x, next, g)
    BY <1>1, <1>4, <2>1, HistoryExists, Zenon
  <2> QED BY <2>2 DEF x, History
<1>6. \A i \in 1 .. n : i - 1 \in 0 .. n
  BY <1>1
<1>7. \A i \in 1 .. n : g[i] = Step(i, g[i - 1])
  BY <1>5, <1>6
<1>8. g = Body(g)
  <2>1. \A i \in 0 .. n : g[i] = IF i = 0 THEN <<>> ELSE Step(i, g[i - 1])
    BY <1>1, <1>5, <1>7
  <2> QED BY <1>5, <2>1
<1>9. after = Body(after)
  <2> HIDE DEF Body
  <2> QED BY <1>8, Zenon
<1> HIDE DEF after
<1>10. after[0] = <<>> /\ \A i \in 1 .. n : after[i] = Step(i, after[i - 1])
  BY <1>1, <1>9
<1>11. after \in [0 .. n -> T]
  <2>1. after = [i \in 0 .. n |-> after[i]]
    BY <1>9
  <2> DEFINE S == {i \in 0 .. n : after[i] \in T}
  <2>2. 0 \in S
    BY <1>1, <1>10
  <2>3. \A i \in 0 .. n - 1 : i \in S => i + 1 \in S
    <3> SUFFICES ASSUME NEW i \in 0 .. n - 1, i \in S PROVE i + 1 \in S
      OBVIOUS
    <3>1. i + 1 \in 1 .. n /\ (i + 1) - 1 = i /\ i + 1 \in 0 .. n
      BY <1>1
    <3>2. after[i + 1] = Step(i + 1, after[i])
      BY <1>10, <3>1
    <3> QED BY <1>2, <3>1, <3>2
  <2>4. 0 .. n \subseteq S
    <3> HIDE DEF S
    <3> QED BY <1>1, <2>2, <2>3, Upward
  <2> QED BY <2>1, <2>4
<1>12. WrittenIn(f, after)
  BY <1>10, <1>11 DEF WrittenIn, n, T, Step
<1> QED BY <1>3, <1>12 DEF n

LEMMA UncutHistory ==
  ASSUME NEW f \in Seq(Pieces)
  PROVE  \E u : UncutIn(f, u) /\ Uncut(f) = u[Len(f)]
<1> DEFINE n == Len(f)
           T == Seq(Symbols)
           Step(i, s) == s \o Rendered(f[i])
           next == [i \in 1 .. n |-> [s \in T |-> Step(i, s)]]
           Body(w) == [i \in 0 .. n |-> IF i = 0 THEN <<>> ELSE Step(i, w[i - 1])]
           upTo == CHOOSE w : w = Body(w)
<1>1. n \in Nat /\ <<>> \in T
  OBVIOUS
<1>2. ASSUME NEW i \in 1 .. n, NEW s \in T PROVE Step(i, s) \in T
  <2>1. f[i] \in Pieces
    OBVIOUS
  <2>2. Rendered(f[i]) \in T
    BY <2>1, PieceTyped
  <2> QED BY <2>2
<1>3. Uncut(f) = upTo[n]
  BY DEF Uncut
<1> HIDE DEF T, Step, n
<1>4. next \in [1 .. n -> [T -> T]]
  BY <1>2
<1>5. PICK g \in [0 .. n -> T] : g[0] = <<>> /\ \A i \in 1 .. n : g[i] = next[i][g[i - 1]]
  <2> DEFINE x == <<>>
  <2> HIDE DEF next
  <2>1. x \in T
    BY <1>1
  <2> HIDE DEF x
  <2>2. \E g : History(n, T, x, next, g)
    BY <1>1, <1>4, <2>1, HistoryExists, Zenon
  <2> QED BY <2>2 DEF x, History
<1>6. \A i \in 1 .. n : i - 1 \in 0 .. n
  BY <1>1
<1>7. \A i \in 1 .. n : g[i] = Step(i, g[i - 1])
  BY <1>5, <1>6
<1>8. g = Body(g)
  <2>1. \A i \in 0 .. n : g[i] = IF i = 0 THEN <<>> ELSE Step(i, g[i - 1])
    BY <1>1, <1>5, <1>7
  <2> QED BY <1>5, <2>1
<1>9. upTo = Body(upTo)
  <2> HIDE DEF Body
  <2> QED BY <1>8, Zenon
<1> HIDE DEF upTo
<1>10. upTo[0] = <<>> /\ \A i \in 1 .. n : upTo[i] = Step(i, upTo[i - 1])
  BY <1>1, <1>9
<1>11. upTo \in [0 .. n -> T]
  <2>1. upTo = [i \in 0 .. n |-> upTo[i]]
    BY <1>9
  <2> DEFINE S == {i \in 0 .. n : upTo[i] \in T}
  <2>2. 0 \in S
    BY <1>1, <1>10
  <2>3. \A i \in 0 .. n - 1 : i \in S => i + 1 \in S
    <3> SUFFICES ASSUME NEW i \in 0 .. n - 1, i \in S PROVE i + 1 \in S
      OBVIOUS
    <3>1. i + 1 \in 1 .. n /\ (i + 1) - 1 = i /\ i + 1 \in 0 .. n
      BY <1>1
    <3>2. upTo[i + 1] = Step(i + 1, upTo[i])
      BY <1>10, <3>1
    <3> QED BY <1>2, <3>1, <3>2
  <2>4. 0 .. n \subseteq S
    <3> HIDE DEF S
    <3> QED BY <1>1, <2>2, <2>3, Upward
  <2> QED BY <2>1, <2>4
<1>12. UncutIn(f, upTo)
  BY <1>10, <1>11 DEF UncutIn, n, T, Step
<1> QED BY <1>3, <1>12 DEF n

\* What the loop has written after i pieces, against the text of these pieces: no
\* more; the text cut at the end of tmp, unless it went past that end; and then by
\* less than one of the conversions that do not look at it.
CutAfter(f, w, u, i) ==
  /\ Len(w[i]) <= Len(u[i])
  /\ Len(w[i]) <= TmpSize - 1 => w[i] = First(u[i], TmpSize - 1)
  /\ Len(w[i]) > TmpSize - 1 =>
       \E j \in 1 .. i :
         /\ f[j].kind \notin Textual
         /\ Len(w[i]) - (TmpSize - 1) < Len(Rendered(f[j]))

LEMMA CutAtTheEnd ==
  ASSUME NEW f \in Seq(Pieces), NEW w, WrittenIn(f, w), NEW u, UncutIn(f, u)
  PROVE  \A i \in 0 .. Len(f) : CutAfter(f, w, u, i)
<1> DEFINE n == Len(f)
           T == Seq(Symbols)
           L == TmpSize - 1
           S == {i \in 0 .. n : CutAfter(f, w, u, i)}
<1>0. n \in Nat /\ L \in Nat /\ L # 0 /\ TmpSize = L + 1
  BY FormatAssumption
<1>1. /\ w \in [0 .. n -> T] /\ w[0] = <<>>
      /\ \A i \in 1 .. n :
           w[i] = IF Len(w[i - 1]) < L
                  THEN w[i - 1] \o Emitted(f[i], Len(w[i - 1])) ELSE w[i - 1]
  BY DEF WrittenIn
<1>2. /\ u \in [0 .. n -> T] /\ u[0] = <<>>
      /\ \A i \in 1 .. n : u[i] = u[i - 1] \o Rendered(f[i])
  BY DEF UncutIn
<1>3. 0 \in S
  <2>1. <<>> \in T /\ Len(<<>>) = 0
    OBVIOUS
  <2>2. First(<<>>, L) = <<>>
    BY <1>0, <2>1 DEF First
  <2>3. 0 \in 0 .. n /\ ~(Len(w[0]) > L) /\ Len(w[0]) <= Len(u[0])
    BY <1>0, <1>1, <1>2, <2>1
  <2>4. w[0] = First(u[0], L)
    BY <1>1, <1>2, <2>2
  <2> QED BY <2>3, <2>4 DEF CutAfter
<1>4. \A i \in 0 .. n - 1 : i \in S => i + 1 \in S
  <2> SUFFICES ASSUME NEW h \in 0 .. n - 1, h \in S PROVE h + 1 \in S
    OBVIOUS
  <2> DEFINE i == h + 1
             a == w[h]
             b == u[h]
             p == f[i]
             r == Rendered(p)
             e == Emitted(p, Len(a))
  <2>0. i \in 1 .. n /\ i \in 0 .. n /\ i - 1 = h /\ h \in 0 .. n
    BY <1>0
  <2>1. a \in T /\ b \in T /\ w[i] \in T /\ u[i] \in T /\ p \in Pieces
    BY <1>1, <1>2, <2>0
  <2>2. Len(a) \in Nat /\ Len(b) \in Nat
    BY <2>1
  <2>3. /\ w[i] = IF Len(a) < L THEN a \o e ELSE a
        /\ u[i] = b \o r
    BY <1>1, <1>2, <2>0
  <2>5. Len(a) < L =>
          /\ e \in T /\ Len(e) \in Nat /\ Len(e) <= Len(r)
          /\ Len(e) <= L - Len(a) => e = First(r, L - Len(a))
          /\ p.kind \in Textual => Len(e) <= L - Len(a)
    BY <2>1, <2>2, EmittedTyped
  <2>6. CutAfter(f, w, u, h)
    OBVIOUS
  <2>7. /\ Len(a) <= Len(b)
        /\ Len(a) <= L => a = First(b, L)
        /\ Len(a) > L => \E j \in 1 .. h : /\ f[j].kind \notin Textual
                                          /\ Len(a) - L < Len(Rendered(f[j]))
    BY <2>6 DEF CutAfter
  <2>8. r \in T /\ Len(r) \in Nat
    BY <2>1, PieceTyped
  <2>9. Len(u[i]) = Len(b) + Len(r)
    BY <2>1, <2>3, <2>8
  <2>10. Len(a) < L => Len(w[i]) = Len(a) + Len(e)
    BY <2>1, <2>3, <2>5
  <2> HIDE DEF L, T, n, S, i, a, b, p, r, e
  <2>11. Len(w[i]) <= Len(u[i])
    <3>1. CASE Len(a) < L
      BY <2>2, <2>5, <2>7, <2>8, <2>9, <2>10, <3>1
    <3>2. CASE ~(Len(a) < L)
      <4>1. w[i] = a
        BY <2>3, <3>2
      <4> QED BY <2>2, <2>7, <2>8, <2>9, <4>1
    <3> QED BY <3>1, <3>2
  <2>12. ASSUME Len(w[i]) <= L PROVE w[i] = First(u[i], L)
    <3>1. Len(First(b, L)) = IF Len(b) < L THEN Len(b) ELSE L
      BY <1>0, <2>1, FirstIs DEF T
    <3>2. Len(b) <= L => First(b, L) = b
      BY <1>0, <2>1, FirstIs DEF T
    <3>3. /\ Len(b) >= L => First(b \o r, L) = First(b, L)
          /\ Len(b) < L => First(b \o r, L) = b \o First(r, L - Len(b))
      BY <1>0, <2>1, <2>8, FirstOfJoined DEF T
    <3>4. CASE Len(a) < L
      <4>1. Len(e) <= L - Len(a) /\ a = First(b, L)
        BY <1>0, <2>2, <2>5, <2>7, <2>10, <2>12, <3>4
      <4>2. Len(b) < L /\ a = b
        BY <1>0, <2>2, <3>1, <3>2, <3>4, <4>1
      <4>3. e = First(r, L - Len(b))
        BY <2>5, <3>4, <4>1, <4>2
      <4> QED BY <2>3, <3>3, <3>4, <4>2, <4>3
    <3>5. CASE ~(Len(a) < L)
      <4>1. w[i] = a
        BY <2>3, <3>5
      <4>2. a = First(b, L)
        BY <2>7, <2>12, <4>1
      <4>3. Len(b) >= L
        BY <1>0, <2>2, <3>1, <3>5, <4>2
      <4> QED BY <2>3, <3>3, <4>1, <4>2, <4>3
    <3> QED BY <3>4, <3>5
  <2>13. ASSUME Len(w[i]) > L
         PROVE  \E j \in 1 .. i : /\ f[j].kind \notin Textual
                                 /\ Len(w[i]) - L < Len(Rendered(f[j]))
    <3>1. CASE Len(a) < L
      <4>1. ~(Len(e) <= L - Len(a)) /\ Len(w[i]) - L < Len(r)
        BY <1>0, <2>2, <2>5, <2>8, <2>10, <2>13, <3>1
      <4>2. p.kind \notin Textual
        BY <2>5, <3>1, <4>1
      <4>3. i \in 1 .. i
        BY <2>0
      <4> QED BY <4>1, <4>2, <4>3 DEF r, p
    <3>2. CASE ~(Len(a) < L)
      <4>1. w[i] = a
        BY <2>3, <3>2
      <4>2. PICK j \in 1 .. h : f[j].kind \notin Textual /\ Len(a) - L < Len(Rendered(f[j]))
        BY <2>7, <2>13, <4>1
      <4>3. j \in 1 .. i
        BY <2>0 DEF i
      <4> QED BY <4>1, <4>2, <4>3
    <3> QED BY <3>1, <3>2
  <2>14. CutAfter(f, w, u, i)
    BY <1>0, <2>11, <2>12, <2>13 DEF CutAfter
  <2> QED BY <2>0, <2>14 DEF S, i, n
<1>5. 0 .. n \subseteq S
  <2> HIDE DEF S, n
  <2> QED BY <1>0, <1>3, <1>4, Upward
<1> QED BY <1>5

\* A text is the sequence of its characters.
LEMMA PrintfCuts ==
  ASSUME NEW f \in Seq(Pieces), Written(f) \in Seq(Symbols), ~Overruns(f)
  PROVE  Printf(f) = {Written(f)}
<1> DEFINE L == TmpSize - 1
           t == Written(f)
           m == Len(t)
           res == [len |-> m, out |-> t]
           Sent(x) == IF x.len < TmpSize THEN x.len ELSE TmpSize - 1
<1>1. L \in Nat /\ TmpSize = L + 1 /\ TmpSize # 0
  BY FormatAssumption
<1>2. m \in Nat /\ m < TmpSize /\ m <= L
  BY <1>1 DEF Overruns
<1>3. First(t, L) = t
  BY <1>1, <1>2, FirstIs
<1>4. Vsnprintf(f, TmpSize) = {res}
  BY <1>1, <1>3 DEF Vsnprintf
<1>5. Printf(f) = {[i \in 1 .. Sent(x) |-> x.out[i]] : x \in {res}}
  BY <1>4 DEF Printf
<1>6. res.len = m /\ res.out = t
  OBVIOUS
<1>7. t = [i \in 1 .. m |-> t[i]]
  OBVIOUS
<1> HIDE DEF res, t, m
<1>8. [i \in 1 .. Sent(res) |-> res.out[i]] = t
  BY <1>2, <1>6, <1>7
<1> HIDE DEF Sent
<1>9. {[i \in 1 .. Sent(x) |-> x.out[i]] : x \in {res}} = {[i \in 1 .. Sent(res) |-> res.out[i]]}
  OBVIOUS
<1> QED BY <1>5, <1>8, <1>9 DEF t

\* A number that fmt_uint wrote has no sign in front; it is read back from where it
\* begins, alone or behind one character.
LEMMA UnsignedReadBack ==
  ASSUME NEW v \in Nat, NEW base \in Bases
  PROVE  /\ ~Minus(Unsigned(v, base)) /\ ~Plus(Unsigned(v, base))
         /\ Number(Unsigned(v, base), base, 1) = v
         /\ \A c : /\ Number(<<c>> \o Unsigned(v, base), base, 2) = v
                   /\ Minus(<<c>> \o Unsigned(v, base)) <=> c = "-"
                   /\ Plus(<<c>> \o Unsigned(v, base)) <=> c = "+"
<1> DEFINE s == Unsigned(v, base)
           D == Digits(base)
<1>1. s \in Seq(D) /\ Len(s) \in Nat \ {0} /\ HasValue(s, base, v)
  BY UnsignedWrites
<1>2. D \subseteq ToSet(Digit)
  BY DigitsValued
<1> HIDE DEF s
<1>3. Len(s) \in Nat /\ Len(s) > 0
  BY <1>1
<1>4. s[1] # "-" /\ s[1] # "+"
  <2>1. s[1] \in D
    BY <1>1, <1>3
  <2>2. s[1] \in ToSet(Digit)
    BY <1>2, <2>1
  <2> QED BY <2>2, DigitsDiffer
<1>5. ~Minus(s) /\ ~Plus(s)
  BY <1>4 DEF Minus, Plus
<1>6. Number(s, base, 1) = v
  <2>1. 1 \in Nat \ {0} /\ Len(s) = (1 - 1) + Len(s) /\ \A k \in 1 .. Len(s) : s[(1 - 1) + k] = s[k]
    BY <1>3
  <2> QED BY <1>1, <1>3, <2>1, NumberReads
<1>7. ASSUME NEW c
      PROVE  /\ Number(<<c>> \o s, base, 2) = v
             /\ Minus(<<c>> \o s) <=> c = "-"
             /\ Plus(<<c>> \o s) <=> c = "+"
  <2> DEFINE t == <<c>> \o s
             T == D \cup {c}
  <2>1. c \in T /\ s \in Seq(T)
    BY <1>1
  <2>2. <<c>> \in Seq(T) /\ Len(<<c>>) = 1 /\ <<c>>[1] = c
    BY <2>1, ShortTexts
  <2>3. /\ Len(t) = 1 + Len(s) /\ t[1] = c
        /\ \A k \in 1 .. Len(s) : t[1 + k] = s[k]
    <3> DEFINE d == <<c>>
    <3> HIDE DEF d, T, D
    <3>1. /\ Len(d \o s) = Len(d) + Len(s)
          /\ \A i \in 1 .. Len(d) : (d \o s)[i] = d[i]
          /\ \A i \in 1 .. Len(s) : (d \o s)[Len(d) + i] = s[i]
      <4>1. d \in Seq(T) /\ s \in Seq(T)
        BY <2>1, <2>2 DEF d
      <4> QED BY ONLY <4>1, Joined
    <3>2. Len(d) = 1 /\ d[1] = c
      BY <2>2 DEF d
    <3> QED BY <3>1, <3>2 DEF d
  <2> HIDE DEF t
  <2>4. Number(t, base, 2) = v
    <3>1. /\ 2 \in Nat \ {0} /\ Len(t) = (2 - 1) + Len(s)
          /\ \A k \in 1 .. Len(s) : t[(2 - 1) + k] = s[k]
      BY <1>3, <2>3
    <3> QED BY <1>1, <1>3, <3>1, NumberReads
  <2>5. Len(t) > 0
    BY <1>3, <2>3
  <2>6. (Minus(t) <=> c = "-") /\ (Plus(t) <=> c = "+")
    BY <2>3, <2>5 DEF Minus, Plus
  <2> QED BY <2>4, <2>6 DEF t
<1> QED BY <1>5, <1>6, <1>7 DEF s

\* atoi and strtol give back the number a piece was printed from.
LEMMA PieceReadBack ==
  ASSUME NEW p \in Pieces
  PROVE  ReadBack(p)
<1>0. 10 \in Bases /\ 16 \in Bases
  BY DEF Bases
<1>1. CASE p.kind = "d"
  <2> DEFINE v == p.arg
             text == Rendered(p)
  <2>1. v \in Int
    BY <1>1, NumberPieces
  <2>2. text = Signed(v)
    BY <1>1 DEF Rendered
  <2> HIDE DEF v, text
  <2>3. CASE v < 0
    <3>1. -v \in Nat /\ -(-v) = v
      BY <2>1, <2>3
    <3>2. text = <<"-">> \o Unsigned(-v, 10)
      BY <2>2, <2>3 DEF Signed
    <3>3. Number(text, 10, 2) = -v /\ Minus(text) /\ ~Plus(text)
      BY <1>0, <3>1, <3>2, UnsignedReadBack
    <3>4. Atoi(text) = -Number(text, 10, 2) /\ Strtol(text, 0) = -Number(text, 10, 2)
      <4>1. Minus(text) /\ ~Plus(text)
        BY <3>3
      <4>2. Atoi(text) = -Number(text, 10, 2)
        BY ONLY <4>1, Zenon DEF Atoi
      <4>3. Strtol(text, 0) = -Number(text, 10, 2)
        BY ONLY <4>1 DEF Strtol
      <4> QED BY <4>2, <4>3
    <3>5. Atoi(text) = v /\ Strtol(text, 0) = v
      BY ONLY <3>1, <3>3, <3>4
    <3> QED BY <1>1, <3>5 DEF ReadBack, text, v
  <2>4. CASE ~(v < 0)
    <3>1. v \in Nat
      BY <2>1, <2>4
    <3>2. text = Unsigned(v, 10)
      BY <2>2, <2>4 DEF Signed
    <3>3. Number(text, 10, 1) = v /\ ~Minus(text) /\ ~Plus(text)
      BY <1>0, <3>1, <3>2, UnsignedReadBack
    <3>4. Atoi(text) = v /\ Strtol(text, 0) = v
      BY <3>3 DEF Atoi, Strtol
    <3> QED BY <1>1, <3>4 DEF ReadBack, text, v
  <2> QED BY <2>3, <2>4
<1>2. CASE p.kind = "u"
  <2> DEFINE v == p.arg
             text == Unsigned(v, 10)
             plus == <<"+">> \o text
  <2>1. v \in Nat
    BY <1>2, NumberPieces
  <2>2. Rendered(p) = text
    BY <1>2 DEF Rendered
  <2>3. Number(text, 10, 1) = v /\ ~Minus(text)
    BY <1>0, <2>1, UnsignedReadBack
  <2>4. Number(plus, 10, 2) = v /\ ~Minus(plus) /\ Plus(plus)
    BY <1>0, <2>1, UnsignedReadBack
  <2> HIDE DEF v, text, plus
  <2>5. Atoi(text) = v /\ Strtol(plus, 10) = v
    BY <2>3, <2>4 DEF Atoi, Strtol
  <2> QED BY <1>2, <2>2, <2>5 DEF ReadBack, v, plus
<1>3. CASE p.kind = "x"
  <2> DEFINE v == p.arg
             text == Unsigned(v, 16)
  <2>1. v \in Nat
    BY <1>3, NumberPieces
  <2>2. Rendered(p) = text
    BY <1>3 DEF Rendered
  <2>3. Number(text, 16, 1) = v /\ ~Minus(text) /\ ~Plus(text)
    BY <1>0, <2>1, UnsignedReadBack
  <2> HIDE DEF v, text
  <2>4. Strtol(text, 16) = v
    BY <2>3 DEF Strtol
  <2> QED BY <1>3, <2>2, <2>4 DEF ReadBack, v
<1>4. CASE p.kind \notin {"d", "u", "x"}
  BY <1>4 DEF ReadBack
<1> QED BY <1>1, <1>2, <1>3, <1>4

\* The kernel's printf prints what the library's does, except %p and null strings.
LEMMA KernelPrintsTheSame ==
  ASSUME NEW p \in Pieces, p.kind \notin {"p", "null"}
  PROVE  RenderPiece(p) = Rendered(p)
<1>0. 10 \in Bases /\ 16 \in Bases
  BY DEF Bases
<1>1. CASE p.kind = "d"
  <2>1. p.arg \in Int
    BY <1>1, NumberPieces
  <2>2. RenderInt(p.arg) = Signed(p.arg)
    <3>1. CASE p.arg < 0
      <4>1. -p.arg \in Nat
        BY <2>1, <3>1
      <4>2. RenderUint(-p.arg, 10) = Unsigned(-p.arg, 10)
        BY <1>0, <4>1, RenderUintWrites
      <4> QED BY <3>1, <4>2 DEF RenderInt, Signed
    <3>2. CASE ~(p.arg < 0)
      <4>1. p.arg \in Nat
        BY <2>1, <3>2
      <4>2. RenderUint(p.arg, 10) = Unsigned(p.arg, 10)
        BY <1>0, <4>1, RenderUintWrites
      <4> QED BY <3>2, <4>2 DEF RenderInt, Signed
    <3> QED BY <3>1, <3>2
  <2>3. RenderPiece(p) = RenderInt(p.arg) /\ Rendered(p) = Signed(p.arg)
    BY <1>1 DEF RenderPiece, Rendered
  <2> QED BY ONLY <2>2, <2>3
<1>2. CASE p.kind \in {"u", "x"}
  <2>1. p.arg \in Nat
    BY <1>2, NumberPieces
  <2>2. RenderUint(p.arg, 10) = Unsigned(p.arg, 10) /\ RenderUint(p.arg, 16) = Unsigned(p.arg, 16)
    BY <1>0, <2>1, RenderUintWrites
  <2> QED BY <1>2, <2>2 DEF RenderPiece, Rendered
<1>3. CASE p.kind \in {"text", "%", "c", "s"}
  BY <1>3 DEF RenderPiece, Rendered
<1>4. CASE p.kind = "unknown"
  BY <1>4 DEF RenderPiece, Rendered
<1>5. p.kind \in {"text", "%", "c", "s", "null", "d", "u", "x", "p", "unknown"}
  BY NumberPieces
<1> QED BY <1>1, <1>2, <1>3, <1>4, <1>5

\* A program puts its format together from pieces.
FormatTypeOK == fmt \in Seq(Pieces)

LEMMA FormatTyped == FormatSpec => []FormatTypeOK
<1>1. FormatInit => FormatTypeOK
  BY DEF FormatInit, FormatTypeOK
<1>2. FormatTypeOK /\ [FormatNext]_fmt => FormatTypeOK'
  BY DEF FormatTypeOK, FormatNext
<1> QED BY <1>1, <1>2, PTL DEF FormatSpec

LEMMA AllIsPrinted == FormatTypeOK => PrintsWhatFits
<1> SUFFICES ASSUME FormatTypeOK PROVE PrintsWhatFits
  OBVIOUS
<1> DEFINE L == TmpSize - 1
           text == Uncut(fmt)
           written == Written(fmt)
           n == Len(fmt)
<1>0. fmt \in Seq(Pieces) /\ n \in Nat /\ L \in Nat /\ TmpSize = L + 1 /\ DOMAIN fmt = 1 .. n
  BY FormatAssumption DEF FormatTypeOK
<1>1. PICK w : WrittenIn(fmt, w) /\ written = w[n]
  BY <1>0, WrittenHistory
<1>2. PICK u : UncutIn(fmt, u) /\ text = u[n]
  BY <1>0, UncutHistory
<1>3. written \in Seq(Symbols) /\ text \in Seq(Symbols)
  BY <1>0, <1>1, <1>2 DEF WrittenIn, UncutIn
<1>4. CutAfter(fmt, w, u, n)
  <2>1. n \in 0 .. n
    BY <1>0
  <2> QED BY <1>0, <1>1, <1>2, <2>1, CutAtTheEnd
<1>5. ~Overruns(fmt) => Printf(fmt) = {written}
  BY <1>0, <1>3, PrintfCuts
<1>6. Overruns(fmt) <=> Len(written) >= TmpSize
  BY DEF Overruns
<1>7. \A m \in 1 .. MaxOut :
        ~Overruns(fmt) => Vsnprintf(fmt, m) = {[len |-> Len(written), out |-> First(written, m - 1)]}
  BY DEF Vsnprintf
<1> HIDE DEF text, written, n
<1>8. /\ Len(written) <= Len(text)
      /\ Len(written) <= L => written = First(text, L)
      /\ Len(written) > L => \E i \in DOMAIN fmt : /\ fmt[i].kind \notin Textual
                                                  /\ Len(written) - L < Len(Rendered(fmt[i]))
  BY <1>0, <1>1, <1>2, <1>4 DEF CutAfter
<1>9. Len(written) \in Nat /\ Len(text) \in Nat
  BY <1>3
<1>10. Overruns(fmt) <=> Len(written) > L
  <2> HIDE DEF L
  <2> QED BY <1>0, <1>6, <1>9
<1>11. Len(text) < TmpSize => ~Overruns(fmt)
  BY <1>6, <1>8, <1>9, <1>0
<1>12. (\A i \in DOMAIN fmt : fmt[i].kind \in Textual) => ~Overruns(fmt)
  BY <1>8, <1>10
<1>13. ~Overruns(fmt) => written = First(text, L)
  <2> HIDE DEF L
  <2> QED BY <1>0, <1>8, <1>9, <1>10
<1>14. ASSUME NEW i \in DOMAIN fmt
       PROVE  /\ fmt[i].kind \notin {"p", "null"} => RenderPiece(fmt[i]) = Rendered(fmt[i])
              /\ ReadBack(fmt[i])
  <2>1. fmt[i] \in Pieces
    BY <1>0
  <2> QED BY <2>1, KernelPrintsTheSame, PieceReadBack
<1> HIDE DEF L
<1>15. ~Overruns(fmt) =>
         /\ Printf(fmt) = {First(text, L)}
         /\ \A m \in 1 .. MaxOut :
              Vsnprintf(fmt, m) =
                {[len |-> Len(First(text, L)), out |-> First(First(text, L), m - 1)]}
  BY <1>5, <1>7, <1>13
<1>16. Overruns(fmt) =>
         \E i \in DOMAIN fmt : /\ fmt[i].kind \notin Textual
                                /\ Len(written) - L < Len(Rendered(fmt[i]))
  BY <1>8, <1>10
<1> QED BY <1>11, <1>12, <1>14, <1>15, <1>16, Zenon DEF PrintsWhatFits, text, written, L

\* A call of printf or snprintf that does not overrun tmp prints the text its format
\* stands for as far as tmp goes; one whose text fits, or of characters and strings
\* alone, does not overrun it, and others by less than one conversion: whatever the
\* pieces, the size of the buffer and the results an overrun may have.  Numbers are
\* read back as they were, and except for %p and null strings the kernel's printf
\* prints the same.
THEOREM WhatFitsIsPrinted == FormatSpec => []PrintsWhatFits
BY FormatTyped, AllIsPrinted, PTL

-----------------------------------------------------------------------------
(* The keyboard *)

\* What a user can mean by a key.
Meanings == {NoChar} \cup {Plain[k] : k \in Keys} \cup {Printed[k] : k \in Keys}

Codes == [key : Keys \cup ShiftKeys, down : BOOLEAN, means : Meanings, sure : BOOLEAN]

KeyboardTypeOK ==
  /\ held \subseteq ShiftKeys
  /\ fifo \in Seq(Codes)
  /\ inStep \in BOOLEAN /\ shift \in BOOLEAN /\ reading \in BOOLEAN

\* When the driver comes to the code at i, its flag will be b: that is what the
\* last code of a shift key before it says, or the flag now if there is none.
FlagAt(i, b) ==
  \/ b = shift /\ \A j \in 1 .. i - 1 : ~IsShift(fifo[j])
  \/ \E j \in 1 .. i - 1 :
       /\ IsShift(fifo[j]) /\ fifo[j].down = b
       /\ \A m \in j + 1 .. i - 1 : ~IsShift(fifo[m])

\* A key means its upper character if it has one and shift is held.
MeansWith(k, b) == IF b /\ Printed[k] # NoChar THEN Printed[k] ELSE Plain[k]

\* While the keyboard is in step, the flag will be right about the keys held once
\* the driver has read all there is; and it will be right about what the user
\* meant at each code that came while the keyboard was in step.
KeyboardInv ==
  /\ KeyboardTypeOK
  /\ inStep => FlagAt(Len(fifo) + 1, held # {})
  /\ \A i \in 1 .. Len(fifo) :
       fifo[i].sure /\ fifo[i].means # NoChar =>
         /\ fifo[i].key \in Keys /\ fifo[i].down
         /\ \E b \in BOOLEAN : FlagAt(i, b) /\ fifo[i].means = MeansWith(fifo[i].key, b)

\* The flag at a code, and at the end, stays what it is when a code comes that is
\* not of a shift key; behind one that is, the flag is what that code says.
LEMMA FlagAfterSend ==
  ASSUME KeyboardTypeOK, NEW c \in Codes, fifo' = Append(fifo, c), shift' = shift
  PROVE  /\ Len(fifo') = Len(fifo) + 1 /\ fifo' \in Seq(Codes)
         /\ \A i \in 1 .. Len(fifo) : fifo'[i] = fifo[i]
         /\ fifo'[Len(fifo) + 1] = c
         /\ \A i \in 1 .. Len(fifo) + 1 : \A b \in BOOLEAN : FlagAt(i, b) => FlagAt(i, b)'
         /\ \A b \in BOOLEAN : ~IsShift(c) /\ FlagAt(Len(fifo) + 1, b) => FlagAt(Len(fifo) + 1, b)'
         /\ IsShift(c) => FlagAt(Len(fifo) + 1, c.down)'
<1>1. /\ Len(fifo) \in Nat /\ Len(fifo') = Len(fifo) + 1 /\ fifo' \in Seq(Codes)
      /\ \A i \in 1 .. Len(fifo) : fifo'[i] = fifo[i]
      /\ fifo'[Len(fifo) + 1] = c
  BY AppendProperties, LenProperties DEF KeyboardTypeOK
<1>2. ASSUME NEW i \in 1 .. Len(fifo) + 1, NEW b \in BOOLEAN, FlagAt(i, b)
      PROVE  FlagAt(i, b)'
  <2>1. \A j \in 1 .. i - 1 : fifo'[j] = fifo[j]
    BY <1>1
  <2> QED BY <1>2, <2>1 DEF FlagAt, IsShift
<1>3. ASSUME NEW b \in BOOLEAN, ~IsShift(c), FlagAt(Len(fifo) + 1, b)
      PROVE  FlagAt(Len(fifo) + 1, b)'
  <2>0. PICK n \in Nat : n = Len(fifo) /\ Len(fifo') + 1 = n + 2
    BY <1>1
  <2>1. /\ \A j \in 1 .. n + 2 - 1 : j \in 1 .. n + 1 - 1 \/ j = n + 1
        /\ \A j \in 1 .. n + 1 - 1 : fifo'[j] = fifo[j]
        /\ \A j \in 1 .. n + 1 - 1 : j \in 1 .. n + 2 - 1
        /\ fifo'[n + 1] = c /\ n + 1 \in Nat
    BY <1>1, <2>0
  <2>2. CASE b = shift /\ \A j \in 1 .. n + 1 - 1 : ~IsShift(fifo[j])
    BY <1>3, <2>0, <2>1, <2>2 DEF FlagAt, IsShift
  <2>3. CASE \E j \in 1 .. n + 1 - 1 :
               /\ IsShift(fifo[j]) /\ fifo[j].down = b
               /\ \A m \in j + 1 .. n + 1 - 1 : ~IsShift(fifo[m])
    <3>1. PICK j \in 1 .. n + 1 - 1 :
               /\ IsShift(fifo[j]) /\ fifo[j].down = b
               /\ \A m \in j + 1 .. n + 1 - 1 : ~IsShift(fifo[m])
      BY <2>3
    <3>2. j \in 1 .. n + 2 - 1 /\ fifo'[j] = fifo[j]
      BY <2>1
    <3>3. \A m \in j + 1 .. n + 2 - 1 : ~IsShift(fifo'[m])
      <4> SUFFICES ASSUME NEW m \in j + 1 .. n + 2 - 1 PROVE ~IsShift(fifo'[m])
        OBVIOUS
      <4>1. CASE m = n + 1
        BY <4>1, <1>3, <2>1
      <4>2. CASE m # n + 1
        <5>1. m \in j + 1 .. n + 1 - 1 /\ m \in 1 .. n + 1 - 1
          BY <4>2, <2>0
        <5> QED BY <5>1, <3>1, <2>1
      <4> QED BY <4>1, <4>2
    <3>4. IsShift(fifo'[j]) /\ fifo'[j].down = b
      BY <3>1, <3>2
    <3>5. \E i \in 1 .. n + 2 - 1 :
            /\ IsShift(fifo'[i]) /\ fifo'[i].down = b
            /\ \A m \in i + 1 .. n + 2 - 1 : ~IsShift(fifo'[m])
      BY <3>2, <3>3, <3>4, Zenon
    <3>6. \E i \in 1 .. Len(fifo') + 1 - 1 :
            /\ IsShift(fifo'[i]) /\ fifo'[i].down = b
            /\ \A m \in i + 1 .. Len(fifo') + 1 - 1 : ~IsShift(fifo'[m])
      BY ONLY <2>0, <3>5
    <3> QED BY ONLY <3>6 DEF FlagAt, IsShift
  <2> QED BY <1>3, <2>0, <2>2, <2>3 DEF FlagAt
<1>4. ASSUME IsShift(c) PROVE FlagAt(Len(fifo) + 1, c.down)'
  <2>1. /\ Len(fifo) + 1 \in 1 .. Len(fifo') + 1 - 1
        /\ (Len(fifo) + 1) + 1 .. Len(fifo') + 1 - 1 = {}
    BY <1>1
  <2> QED BY <1>1, <1>4, <2>1 DEF FlagAt, IsShift
<1> QED BY <1>1, <1>2, <1>3, <1>4

\* Reading a code moves the flags one place forward.
LEMMA FlagAfterConsume ==
  ASSUME KeyboardTypeOK, fifo # <<>>, fifo' = Tail(fifo),
         shift' = IF IsShift(Head(fifo)) THEN Head(fifo).down ELSE shift
  PROVE  /\ Len(fifo') = Len(fifo) - 1 /\ fifo' \in Seq(Codes) /\ shift' \in BOOLEAN
         /\ Head(fifo) = fifo[1] /\ 1 \in 1 .. Len(fifo)
         /\ \A i \in 1 .. Len(fifo') : fifo'[i] = fifo[i + 1]
         /\ \A i \in 1 .. Len(fifo') + 1 : \A b \in BOOLEAN : FlagAt(i + 1, b) => FlagAt(i, b)'
<1>1. /\ Len(fifo) \in Nat /\ Len(fifo') = Len(fifo) - 1 /\ fifo' \in Seq(Codes)
      /\ Head(fifo) = fifo[1] /\ 1 \in 1 .. Len(fifo) /\ Head(fifo) \in Codes
      /\ \A i \in 1 .. Len(fifo') : fifo'[i] = fifo[i + 1]
  BY HeadTailProperties, LenProperties DEF KeyboardTypeOK
<1>2. shift' \in BOOLEAN
  BY <1>1 DEF KeyboardTypeOK, Codes
<1>3. ASSUME NEW i \in 1 .. Len(fifo') + 1, NEW b \in BOOLEAN, FlagAt(i + 1, b)
      PROVE  FlagAt(i, b)'
  <2>1. \A j \in 1 .. i - 1 : fifo'[j] = fifo[j + 1] /\ j + 1 \in 1 .. i + 1 - 1
    BY <1>1
  <2>2. CASE b = shift /\ \A j \in 1 .. i + 1 - 1 : ~IsShift(fifo[j])
    <3>1. ~IsShift(Head(fifo))
      BY <1>1, <2>2
    <3> QED BY <2>1, <2>2, <3>1 DEF FlagAt, IsShift
  <2>3. CASE \E j \in 1 .. i + 1 - 1 :
               /\ IsShift(fifo[j]) /\ fifo[j].down = b
               /\ \A m \in j + 1 .. i + 1 - 1 : ~IsShift(fifo[m])
    <3>1. PICK j \in 1 .. i + 1 - 1 :
               /\ IsShift(fifo[j]) /\ fifo[j].down = b
               /\ \A m \in j + 1 .. i + 1 - 1 : ~IsShift(fifo[m])
      BY <2>3
    <3>2. \A m \in j .. i - 1 : m + 1 \in j + 1 .. i + 1 - 1 /\ m \in 1 .. i - 1
      OBVIOUS
    <3>3. \A m \in j .. i - 1 : ~IsShift(fifo'[m])
      BY <2>1, <3>1, <3>2 DEF IsShift
    <3>4. CASE j = 1
      <4>1. shift' = b
        BY <1>1, <3>1, <3>4
      <4> QED BY <3>3, <3>4, <4>1 DEF FlagAt, IsShift
    <3>5. CASE j # 1
      <4>1. j - 1 \in 1 .. i - 1 /\ fifo'[j - 1] = fifo[j] /\ (j - 1) + 1 = j
        BY <3>5, <2>1
      <4> QED BY <3>1, <3>3, <4>1 DEF FlagAt, IsShift
    <3> QED BY <3>4, <3>5
  <2> QED BY <1>3, <2>2, <2>3 DEF FlagAt
<1> QED BY <1>1, <1>2, <1>3

LEMMA KeyboardInitInv == KeyboardInit => KeyboardInv
<1> SUFFICES ASSUME KeyboardInit PROVE KeyboardInv
  OBVIOUS
<1>1. fifo = <<>> /\ fifo \in Seq(Codes) /\ Len(fifo) = 0
  BY EmptySeq DEF KeyboardInit
<1>2. KeyboardTypeOK
  BY <1>1 DEF KeyboardInit, KeyboardTypeOK
<1>3. FlagAt(Len(fifo) + 1, held # {})
  <2>1. \A j \in 1 .. Len(fifo) + 1 - 1 : FALSE
    BY <1>1
  <2>2. (held # {}) = shift
    BY DEF KeyboardInit
  <2> QED BY <2>1, <2>2 DEF FlagAt
<1>4. 1 .. Len(fifo) = {}
  BY <1>1
<1> QED BY <1>2, <1>3, <1>4 DEF KeyboardInv

\* A code that is sent or lost, of a key or of a shift key, keeps the invariant if
\* what it means and how the keyboard is in step are right.
LEMMA SendKeeps ==
  ASSUME KeyboardInv, NEW c \in Codes, Send(c), UNCHANGED <<shift, reading>>,
         held' \subseteq ShiftKeys, inStep' \in BOOLEAN,
         IF IsShift(c) THEN inStep' => NotFull /\ c.down = (held' # {})
                       ELSE UNCHANGED <<held, inStep>>,
         c.means # NoChar =>
           c.key \in Keys /\ c.down /\ c.sure = inStep /\ c.means = Meant(c.key)
  PROVE  KeyboardInv'
<1>1. KeyboardTypeOK /\ Len(fifo) \in Nat
  BY LenProperties DEF KeyboardInv, KeyboardTypeOK
<1>2. CASE ~NotFull
  <2>1. UNCHANGED <<fifo, shift>>
    BY <1>2 DEF Send
  <2>2. \A i, b : FlagAt(i, b) <=> FlagAt(i, b)'
    BY <2>1 DEF FlagAt, IsShift
  <2>3. KeyboardTypeOK'
    BY <1>1, <2>1 DEF KeyboardTypeOK
  <2>4. inStep' => inStep /\ held' = held
    BY <1>2
  <2>5. inStep' => FlagAt(Len(fifo) + 1, held # {})'
    BY <2>1, <2>2, <2>4 DEF KeyboardInv, FlagAt, IsShift
  <2> QED BY <2>1, <2>2, <2>3, <2>5 DEF KeyboardInv, FlagAt, IsShift
<1>3. CASE NotFull
  <2>1. fifo' = Append(fifo, c)
    BY <1>3 DEF Send
  <2>2. /\ Len(fifo') = Len(fifo) + 1 /\ fifo' \in Seq(Codes)
        /\ \A i \in 1 .. Len(fifo) : fifo'[i] = fifo[i]
        /\ fifo'[Len(fifo) + 1] = c
        /\ \A i \in 1 .. Len(fifo) + 1 : \A b \in BOOLEAN : FlagAt(i, b) => FlagAt(i, b)'
        /\ \A b \in BOOLEAN : ~IsShift(c) /\ FlagAt(Len(fifo) + 1, b) => FlagAt(Len(fifo) + 1, b)'
        /\ IsShift(c) => FlagAt(Len(fifo) + 1, c.down)'
    BY <1>1, <2>1, FlagAfterSend
  <2>3. KeyboardTypeOK'
    BY <1>1, <2>2 DEF KeyboardTypeOK
  <2>4. inStep' => FlagAt(Len(fifo) + 1, held # {})'
    <3>1. CASE IsShift(c)
      BY <3>1, <2>2
    <3>2. CASE ~IsShift(c)
      <4>1. inStep => FlagAt(Len(fifo) + 1, held # {})
        BY DEF KeyboardInv
      <4>2. PICK b \in BOOLEAN : b = (held # {}) /\ b = (held' # {})
        BY <3>2
      <4> QED BY <3>2, <2>2, <4>1, <4>2
    <3> QED BY <3>1, <3>2
  <2>5. ASSUME NEW i \in 1 .. Len(fifo'), fifo'[i].sure, fifo'[i].means # NoChar
        PROVE  /\ fifo'[i].key \in Keys /\ fifo'[i].down
               /\ \E b \in BOOLEAN : FlagAt(i, b)' /\ fifo'[i].means = MeansWith(fifo'[i].key, b)
    <3>1. CASE i \in 1 .. Len(fifo)
      <4>1. fifo'[i] = fifo[i] /\ i \in 1 .. Len(fifo) + 1
        BY <3>1, <1>1, <2>2
      <4>2. /\ fifo[i].key \in Keys /\ fifo[i].down
            /\ \E b \in BOOLEAN : FlagAt(i, b) /\ fifo[i].means = MeansWith(fifo[i].key, b)
        BY <3>1, <4>1, <2>5 DEF KeyboardInv
      <4>3. PICK b \in BOOLEAN : FlagAt(i, b) /\ fifo[i].means = MeansWith(fifo[i].key, b)
        BY <4>2
      <4>4. FlagAt(i, b)'
        BY <2>2, <4>1, <4>3
      <4> QED BY <4>1, <4>2, <4>3, <4>4
    <3>2. CASE i = Len(fifo) + 1
      <4>1. c.key \in Keys /\ c.down /\ inStep /\ c.means = Meant(c.key)
        BY <3>2, <2>2, <2>5
      <4>2. PICK b \in BOOLEAN : b = (held # {})
        OBVIOUS
      <4>3. FlagAt(Len(fifo) + 1, b)
        BY <4>1, <4>2 DEF KeyboardInv
      <4>4. FlagAt(i, b)'
        BY <3>2, <2>2, <1>1, <4>3
      <4>5. c.means = MeansWith(c.key, b)
        BY <4>1, <4>2 DEF Meant, MeansWith
      <4> QED BY <3>2, <2>2, <4>1, <4>4, <4>5
    <3> QED BY <3>1, <3>2, <2>2, <1>1
  <2> QED BY <2>3, <2>4, <2>5 DEF KeyboardInv
<1> QED BY <1>2, <1>3

LEMMA UserKeeps == KeyboardInv /\ User => KeyboardInv'
<1> SUFFICES ASSUME KeyboardInv, User PROVE KeyboardInv'
  OBVIOUS
<1>1. KeyboardTypeOK /\ Keys \cap ShiftKeys = {}
  BY KeyboardAssumption DEF KeyboardInv
<1>2. ASSUME NEW k \in Keys, Press(k) PROVE KeyboardInv'
  <2> DEFINE c == Code(k, TRUE, Meant(k))
  <2>1. c \in Codes
    BY <1>1 DEF Code, Codes, Meant, Meanings, KeyboardTypeOK
  <2>2. ~IsShift(c) /\ c.key = k /\ c.down /\ c.sure = inStep /\ c.means = Meant(k)
    BY <1>1 DEF Code, IsShift
  <2>3. Send(c) /\ UNCHANGED <<held, inStep, shift, reading>>
    BY <1>2 DEF Press
  <2> HIDE DEF c
  <2> QED BY <1>1, <2>1, <2>2, <2>3, SendKeeps DEF KeyboardTypeOK
<1>3. ASSUME NEW k \in Keys, Release(k) PROVE KeyboardInv'
  <2> DEFINE c == Code(k, FALSE, NoChar)
  <2>1. c \in Codes
    BY <1>1 DEF Code, Codes, Meanings, KeyboardTypeOK
  <2>2. ~IsShift(c) /\ c.means = NoChar
    BY <1>1 DEF Code, IsShift
  <2>3. Send(c) /\ UNCHANGED <<held, inStep, shift, reading>>
    BY <1>3 DEF Release
  <2> HIDE DEF c
  <2> QED BY <1>1, <2>1, <2>2, <2>3, SendKeeps DEF KeyboardTypeOK
<1>4. ASSUME NEW k \in ShiftKeys, NEW down \in BOOLEAN, SendShift(k, down),
             held' \subseteq ShiftKeys, UNCHANGED <<shift, reading>>
      PROVE  KeyboardInv'
  <2> DEFINE c == Code(k, down, NoChar)
  <2>1. c \in Codes
    BY <1>1 DEF Code, Codes, Meanings, KeyboardTypeOK
  <2>2. IsShift(c) /\ c.means = NoChar /\ c.down = down
    BY DEF Code, IsShift
  <2>3. Send(c) /\ inStep' = (NotFull /\ down = (held' # {}))
    BY <1>4 DEF SendShift
  <2> HIDE DEF c
  <2> QED BY <1>4, <2>1, <2>2, <2>3, SendKeeps
<1>5. ASSUME NEW k \in ShiftKeys, PressShift(k) \/ ReleaseShift(k) PROVE KeyboardInv'
  BY <1>1, <1>4, <1>5 DEF PressShift, ReleaseShift, KeyboardTypeOK
<1>6. ASSUME NEW down \in BOOLEAN, Pretend(down) PROVE KeyboardInv'
  BY <1>1, <1>4, <1>6 DEF Pretend, KeyboardTypeOK, ShiftKeys
<1> QED BY <1>2, <1>3, <1>5, <1>6 DEF User

\* What the driver does with a code keeps the invariant.
LEMMA GetcKeeps == KeyboardInv /\ Getc => KeyboardInv'
<1> SUFFICES ASSUME KeyboardInv, Getc PROVE KeyboardInv'
  OBVIOUS
<1>1. KeyboardTypeOK
  BY DEF KeyboardInv
<1>2. /\ fifo # <<>> /\ fifo' = Tail(fifo) /\ UNCHANGED <<held, inStep>>
      /\ shift' = (IF IsShift(Head(fifo)) THEN Head(fifo).down ELSE shift)
      /\ reading' \in BOOLEAN
  BY <1>1 DEF Getc, TakeShift, Skip, TakeText, Consume, IsText, KeyboardTypeOK
<1>3. /\ Len(fifo') = Len(fifo) - 1 /\ fifo' \in Seq(Codes) /\ shift' \in BOOLEAN
      /\ Head(fifo) = fifo[1] /\ 1 \in 1 .. Len(fifo)
      /\ \A i \in 1 .. Len(fifo') : fifo'[i] = fifo[i + 1]
      /\ \A i \in 1 .. Len(fifo') + 1 : \A b \in BOOLEAN : FlagAt(i + 1, b) => FlagAt(i, b)'
  BY <1>1, <1>2, FlagAfterConsume
<1>4. KeyboardTypeOK'
  BY <1>1, <1>2, <1>3 DEF KeyboardTypeOK
<1>5. Len(fifo) \in Nat
  BY <1>1, LenProperties DEF KeyboardTypeOK
<1>6. inStep' => FlagAt(Len(fifo) + 1, held # {})'
  <2>1. PICK b \in BOOLEAN : b = (held # {}) /\ b = (held' # {})
    BY <1>2
  <2>2. PICK n \in Nat : n = Len(fifo') + 1
    BY <1>3, <1>5
  <2>3. n \in 1 .. Len(fifo') + 1 /\ n + 1 = Len(fifo) + 1
    BY <1>3, <1>5, <2>2
  <2>4. inStep' => FlagAt(n + 1, b)
    BY <1>2, <2>1, <2>3 DEF KeyboardInv
  <2>5. inStep' => FlagAt(n, b)'
    BY <1>3, <2>3, <2>4
  <2> QED BY <2>1, <2>2, <2>5
<1>7. ASSUME NEW i \in 1 .. Len(fifo'), fifo'[i].sure, fifo'[i].means # NoChar
      PROVE  /\ fifo'[i].key \in Keys /\ fifo'[i].down
             /\ \E b \in BOOLEAN : FlagAt(i, b)' /\ fifo'[i].means = MeansWith(fifo'[i].key, b)
  <2>1. i + 1 \in 1 .. Len(fifo) /\ fifo'[i] = fifo[i + 1] /\ i \in 1 .. Len(fifo') + 1
    BY <1>3, <1>5
  <2>2. /\ fifo[i + 1].key \in Keys /\ fifo[i + 1].down
        /\ \E b \in BOOLEAN : FlagAt(i + 1, b) /\ fifo[i + 1].means = MeansWith(fifo[i + 1].key, b)
    BY <1>7, <2>1 DEF KeyboardInv
  <2>3. PICK b \in BOOLEAN : FlagAt(i + 1, b) /\ fifo[i + 1].means = MeansWith(fifo[i + 1].key, b)
    BY <2>2
  <2>4. FlagAt(i, b)'
    BY <1>3, <2>1, <2>3
  <2> QED BY <2>1, <2>2, <2>3, <2>4
<1> QED BY <1>4, <1>6, <1>7 DEF KeyboardInv

LEMMA KeyboardNextInv == KeyboardInv /\ [KeyboardNext]_keyboardVars => KeyboardInv'
<1> SUFFICES ASSUME KeyboardInv, [KeyboardNext]_keyboardVars PROVE KeyboardInv'
  OBVIOUS
<1>1. ASSUME UNCHANGED <<held, fifo, inStep, shift>>, reading' \in BOOLEAN PROVE KeyboardInv'
  BY <1>1 DEF KeyboardInv, KeyboardTypeOK, FlagAt, IsShift
<1>2. CASE Call \/ UNCHANGED keyboardVars
  BY <1>1, <1>2 DEF Call, keyboardVars, KeyboardInv, KeyboardTypeOK
<1> QED BY <1>2, UserKeeps, GetcKeeps DEF KeyboardNext

\* The keyboard and its driver are in step about the shift keys wherever a code
\* says so.
THEOREM KeyboardInvariance == KeyboardSpec => []KeyboardInv
BY KeyboardInitInv, KeyboardNextInv, PTL DEF KeyboardSpec

\* With a table for shift that is what is printed on the keys, a program gets the
\* character the user meant, for any keys and any size of the keyboard's buffer.
THEOREM KeysTypeWhatIsMeant ==
  ASSUME Shifted = Printed
  PROVE  KeyboardSpec => TypesWhatIsMeant
<1> DEFINE Right ==
      Len(fifo') < Len(fifo) /\ Head(fifo).sure /\ Head(fifo).means # NoChar =>
        IF shift /\ Head(fifo).key \in Single
          THEN reading' /\ UNCHANGED got
          ELSE ~reading' /\ got' = Head(fifo).means
<1>1. KeyboardInv /\ [KeyboardNext]_keyboardVars => [Right]_keyboardVars
  <2> SUFFICES ASSUME KeyboardInv, KeyboardNext, Len(fifo') < Len(fifo),
                      Head(fifo).sure, Head(fifo).means # NoChar
               PROVE  IF shift /\ Head(fifo).key \in Single
                        THEN reading' /\ UNCHANGED got
                        ELSE ~reading' /\ got' = Head(fifo).means
    OBVIOUS
  <2> DEFINE c == Head(fifo)
  <2>1. fifo \in Seq(Codes) /\ Len(fifo) \in Nat /\ shift \in BOOLEAN
    BY LenProperties DEF KeyboardInv, KeyboardTypeOK
  <2>2. ~User /\ ~Call
    <3>1. ASSUME NEW x PROVE Len(Append(fifo, x)) = Len(fifo) + 1
      <4>1. fifo \in Seq(Codes \cup {x})
        BY <2>1, SeqMonotonic
      <4> QED BY <4>1, AppendProperties
    <3>2. ASSUME NEW x, Send(x) PROVE FALSE
      BY <2>1, <3>1, <3>2 DEF Send
    <3>3. ~Call
      BY <2>1 DEF Call
    <3> QED BY <3>2, <3>3 DEF User, Press, Release, PressShift, ReleaseShift, Pretend,
                              SendShift
  <2>3. Getc /\ fifo # <<>> /\ reading
    BY <2>2 DEF KeyboardNext, Getc, TakeShift, Skip, TakeText, Consume
  <2>4. c = fifo[1] /\ 1 \in 1 .. Len(fifo)
    BY <2>1, <2>3, HeadTailProperties
  <2>5. /\ c.key \in Keys /\ c.down
        /\ \E b \in BOOLEAN : FlagAt(1, b) /\ c.means = MeansWith(c.key, b)
    BY <2>4 DEF KeyboardInv
  <2>6. c.means = MeansWith(c.key, shift) /\ ~IsShift(c)
    BY <2>5, KeyboardAssumption DEF FlagAt, IsShift
  <2>7. Char(c) = IF shift /\ c.key \in Single THEN NoChar ELSE c.means
    BY <2>5, <2>6 DEF Char, Single, MeansWith
  <2> HIDE DEF c
  <2>8. IsText(c) <=> ~(shift /\ c.key \in Single)
    BY <2>5, <2>6, <2>7 DEF IsText, c
  <2>9. Skip \/ TakeText
    BY <2>3, <2>6 DEF Getc, TakeShift, c
  <2> QED BY <2>3, <2>7, <2>8, <2>9 DEF Skip, TakeText, c
<1> QED BY <1>1, KeyboardInvariance, PTL DEF KeyboardSpec, TypesWhatIsMeant

-----------------------------------------------------------------------------
(* The cursor *)

\* A cursor right of the margin.
Placed == {c \in Cursors : Margin <= c.x}

LEMMA Measures ==
  /\ Margin \in Nat /\ FontWidth \in Nat \ {0} /\ FontHeight \in Nat \ {0}
  /\ Spacing \in Nat /\ Width \in Nat /\ Height \in Nat
  /\ Column \in Nat \ {0} /\ Row \in Nat \ {0}
  /\ Margin + Column + FontWidth < Width /\ Margin + Row + FontHeight < Height
BY ConsoleAssumption DEF Column, Row

\* A glyph moves the cursor along its row, or to another row, and always to a
\* place on the screen.
LEMMA AdvanceMoves ==
  ASSUME NEW c \in Placed
  PROVE  /\ Advance(c) \in Placed /\ Visible(Advance(c))
         /\ Advance(c).y = c.y => Advance(c) = [x |-> c.x + Column, y |-> c.y]
<1>1. c = [x |-> c.x, y |-> c.y] /\ c.x \in Nat /\ c.y \in Nat /\ Margin <= c.x
  BY DEF Placed, Cursors
<1> DEFINE d == IF c.x + Column + FontWidth >= Width
                  THEN [x |-> Margin, y |-> c.y + Row]
                  ELSE [c EXCEPT !.x = @ + Column]
<1>2. d = IF c.x + Column + FontWidth >= Width
            THEN [x |-> Margin, y |-> c.y + Row]
            ELSE [x |-> c.x + Column, y |-> c.y]
  BY <1>1
<1>3. Advance(c) = Scroll(d)
  BY DEF Advance
<1> HIDE DEF d
<1>4. d = [x |-> d.x, y |-> d.y] /\ d.x \in Nat /\ d.y \in Nat /\ Margin <= d.x
      /\ d.x + FontWidth < Width
  BY <1>1, <1>2, Measures
<1>5. Scroll(d) = IF d.y + FontHeight >= Height THEN [x |-> d.x, y |-> Margin] ELSE d
  BY <1>4 DEF Scroll
<1>6. Advance(c) \in Placed /\ Visible(Advance(c))
  BY <1>3, <1>4, <1>5, Measures DEF Placed, Cursors, Visible
<1>7. Advance(c).y = c.y => Advance(c) = [x |-> c.x + Column, y |-> c.y]
  <2>1. CASE c.x + Column + FontWidth >= Width
    BY <2>1, <1>1, <1>2, <1>3, <1>5, Measures
  <2>2. CASE ~(c.x + Column + FontWidth >= Width)
    BY <2>2, <1>1, <1>2, <1>3, <1>5, Measures
  <2> QED BY <2>1, <2>2
<1> QED BY <1>6, <1>7

Controls == {NL, CR, TAB, BS}

LEMMA AfterGlyph ==
  ASSUME NEW c, NEW ch, ch \notin Controls
  PROVE  After(c, ch) = Advance(c)
BY DEF After, Controls

LEMMA AfterPlaced ==
  ASSUME NEW c \in Placed, NEW ch
  PROVE  After(c, ch) \in Placed
<1>1. c = [x |-> c.x, y |-> c.y] /\ c.x \in Nat /\ c.y \in Nat /\ Margin <= c.x
  BY DEF Placed, Cursors
<1>2. ASSUME ch = NL PROVE After(c, ch) \in Placed
  BY <1>1, <1>2, Measures DEF After, Placed, Cursors, NL, CR, TAB, BS
<1>3. ASSUME ch = CR PROVE After(c, ch) \in Placed
  BY <1>1, <1>3, Measures DEF After, Placed, Cursors, NL, CR, TAB, BS
<1>4. ASSUME ch = TAB PROVE After(c, ch) \in Placed
  BY <1>1, <1>4, Measures DEF After, Placed, Cursors, NL, CR, TAB, BS
<1>5. ASSUME ch = BS PROVE After(c, ch) \in Placed
  <2>1. After(c, ch) = IF CanErase(c) THEN [x |-> c.x - Column, y |-> c.y] ELSE c
    BY <1>1, <1>5 DEF After, NL, CR, TAB, BS
  <2> QED BY <2>1, <1>1, Measures DEF CanErase, Placed, Cursors
<1>6. ASSUME ch \notin Controls PROVE After(c, ch) \in Placed
  BY <1>6, AfterGlyph, AdvanceMoves
<1> QED BY <1>2, <1>3, <1>4, <1>5, <1>6 DEF Controls

\* A path is followed character by character.
LEMMA PathSteps ==
  ASSUME NEW c, NEW S, NEW text \in Seq(S)
  PROVE  /\ DOMAIN Path(c, text) = 0 .. Len(text)
         /\ Path(c, text)[0] = c
         /\ \A i \in 1 .. Len(text) : Path(c, text)[i] = After(Path(c, text)[i - 1], text[i])
<1> DEFINE Body(n, f) == [i \in 0 .. n |-> IF i = 0 THEN c ELSE After(f[i - 1], text[i])]
           T == {n \in 0 .. Len(text) : \E f : f = Body(n, f)}
<1>1. Len(text) \in Nat
  OBVIOUS
<1>2. 0 \in T
  <2>1. [i \in {0} |-> c] = Body(0, [i \in {0} |-> c])
    OBVIOUS
  <2> HIDE DEF Body
  <2> QED BY <1>1, <2>1
<1>3. ASSUME NEW n \in 0 .. Len(text) - 1, n \in T PROVE n + 1 \in T
  <2>1. PICK f : f = Body(n, f)
    BY <1>3
  <2> DEFINE g == [i \in 0 .. n + 1 |-> IF i <= n THEN f[i] ELSE After(f[n], text[n + 1])]
  <2>2. \A i \in 0 .. n : f[i] = IF i = 0 THEN c ELSE After(f[i - 1], text[i])
    BY <2>1
  <2>3. ASSUME NEW i \in 0 .. n + 1
        PROVE  g[i] = IF i = 0 THEN c ELSE After(g[i - 1], text[i])
    <3>1. CASE i = 0
      BY <2>2, <3>1
    <3>2. CASE i \in 1 .. n
      <4>1. g[i] = f[i] /\ g[i - 1] = f[i - 1] /\ i \in 0 .. n /\ i # 0
        BY <3>2
      <4> QED BY <2>2, <4>1
    <3>3. CASE i = n + 1
      <4>1. g[i] = After(f[n], text[n + 1]) /\ g[i - 1] = f[n] /\ i # 0
        BY <3>3
      <4> QED BY <3>3, <4>1
    <3> QED BY <3>1, <3>2, <3>3
  <2>4. g = Body(n + 1, g)
    BY <2>3
  <2>5. n + 1 \in 0 .. Len(text)
    BY <1>1
  <2> HIDE DEF Body
  <2> QED BY <2>4, <2>5
<1>4. 0 .. Len(text) \subseteq T
  <2> HIDE DEF T
  <2>1. 0 \in Int /\ Len(text) \in Int
    BY <1>1
  <2> QED BY <1>2, <1>3, <2>1, Upward, Zenon
<1> DEFINE g == CHOOSE f : f = Body(Len(text), f)
<1>5. g = Body(Len(text), g)
  <2>1. Len(text) \in T
    BY <1>1, <1>4
  <2> HIDE DEF Body
  <2> QED BY <2>1
<1>6. Path(c, text) = g
  BY DEF Path
<1> HIDE DEF g
<1> QED BY <1>1, <1>5, <1>6

LEMMA PathPlaced ==
  ASSUME NEW c \in Placed, NEW S, NEW text \in Seq(S)
  PROVE  \A i \in 0 .. Len(text) : Path(c, text)[i] \in Placed
<1> DEFINE T == {i \in 0 .. Len(text) : Path(c, text)[i] \in Placed}
<1>1. Len(text) \in Nat
  OBVIOUS
<1>2. 0 \in T
  BY <1>1, PathSteps
<1>3. ASSUME NEW i \in 0 .. Len(text) - 1, i \in T PROVE i + 1 \in T
  <2>1. i + 1 \in 1 .. Len(text) /\ (i + 1) - 1 = i /\ i + 1 \in 0 .. Len(text)
    BY <1>1
  <2>2. Path(c, text)[i + 1] = After(Path(c, text)[i], text[i + 1])
    BY <2>1, PathSteps
  <2> QED BY <1>3, <2>1, <2>2, AfterPlaced
<1>4. 0 .. Len(text) \subseteq T
  <2> HIDE DEF T
  <2>1. 0 \in Int /\ Len(text) \in Int
    BY <1>1
  <2> QED BY <1>2, <1>3, <2>1, Upward, Zenon
<1> QED BY <1>4

\* The prompt leaves the cursor on the screen, wherever the text in front of it
\* has left it.
LEMMA PromptVisible ==
  ASSUME NEW c \in Placed, NEW S, NEW text \in Seq(S)
  PROVE  LET path == Path(c, text \o <<"$", " ">>) IN
         /\ DOMAIN path = 0 .. Len(text) + 2
         /\ \A i \in 0 .. Len(text) + 2 : path[i] \in Placed
         /\ Visible(path[Len(text) + 2])
<1> DEFINE prompt == <<"$", " ">>
           whole  == text \o prompt
           A == S \cup {"$", " "}
           k == Len(text)
<1>1. prompt \in Seq(A) /\ Len(prompt) = 2 /\ prompt[2] \notin Controls /\ k \in Nat
  BY DEF Controls, NL, CR, TAB, BS
<1>0. text \in Seq(A)
  BY SeqMonotonic
<1> HIDE DEF prompt, A, k
<1>2. whole \in Seq(A) /\ Len(whole) = k + 2 /\ whole[k + 2] \notin Controls
  <2>1. /\ whole \in Seq(A)
        /\ Len(whole) = k + Len(prompt)
        /\ \A i \in 1 .. k + Len(prompt) :
             whole[i] = IF i <= k THEN text[i] ELSE prompt[i - k]
    BY <1>0, <1>1, ConcatProperties, Zenon DEF k
  <2> HIDE DEF whole
  <2>2. k + 2 \in 1 .. k + Len(prompt) /\ ~(k + 2 <= k)
        /\ (k + 2) - k = 2
    BY <1>1
  <2> QED BY <1>1, <2>1, <2>2
<1> HIDE DEF whole
<1>3. \A i \in 0 .. k + 2 : Path(c, whole)[i] \in Placed
  BY <1>1, <1>2, PathPlaced
<1>4. Path(c, whole)[k + 2] = Advance(Path(c, whole)[k + 1])
  <2>1. k + 2 \in 1 .. Len(whole) /\ (k + 2) - 1 = k + 1
    BY <1>1, <1>2
  <2> QED BY <1>2, <2>1, PathSteps, AfterGlyph
<1>5. Visible(Path(c, whole)[k + 2])
  <2>1. Path(c, whole)[k + 1] \in Placed
    BY <1>1, <1>3
  <2> QED BY <1>4, <2>1, AdvanceMoves
<1>6. DOMAIN Path(c, whole) = 0 .. k + 2
  BY <1>2, PathSteps
<1> QED BY <1>3, <1>5, <1>6 DEF whole, prompt, k

-----------------------------------------------------------------------------
(* The line *)

\* All the shell reads and prints.
Alphabet ==
  Chars \cup Marks \cup {NUL, JUNK, NL, ":"}

Buffers == [Cells -> Chars \cup {NUL, JUNK}]

\* A string is known by its end.
LEMMA TextIs ==
  ASSUME NEW buf, NEW n \in 0 .. LineSize, NEW e \in n .. LineSize,
         e = LineSize \/ buf[e] = NUL, \A i \in n .. e - 1 : buf[i] # NUL
  PROVE  Text(buf, n) = [i \in 1 .. e - n |-> buf[n + i - 1]]
<1> DEFINE ends == {i \in n .. LineSize : i = LineSize \/ buf[i] = NUL}
           end  == CHOOSE i \in ends : \A j \in ends : i <= j
<1>1. LineSize \in Nat
  BY ShellAssumption
<1>2. e \in ends /\ \A j \in ends : e <= j
  <2>1. ASSUME NEW j \in ends PROVE e <= j
    <3>1. j < e => j \in n .. e - 1 /\ j # LineSize
      BY <1>1
    <3> QED BY <1>1, <3>1
  <2> QED BY <2>1
<1>3. ASSUME NEW i \in ends, \A j \in ends : i <= j PROVE i = e
  <2>1. i <= e /\ e <= i /\ i \in Int /\ e \in Int
    BY <1>1, <1>2, <1>3
  <2> QED BY <2>1
<1>4. Text(buf, n) = [i \in 1 .. end - n |-> buf[n + i - 1]]
  BY DEF Text
<1> HIDE DEF ends
<1>5. end = e
  BY <1>2, <1>3
<1> HIDE DEF end
<1> QED BY <1>4, <1>5

\* Every string has an end in the buffer, or ends with it.
LEMMA TextEnds ==
  ASSUME NEW buf, NEW n \in 0 .. LineSize
  PROVE  \E e \in n .. LineSize : /\ e = LineSize \/ buf[e] = NUL
                                  /\ \A i \in n .. e - 1 : buf[i] # NUL
                                  /\ Text(buf, n) = [i \in 1 .. e - n |-> buf[n + i - 1]]
<1> DEFINE ends == {i \in n .. LineSize : i = LineSize \/ buf[i] = NUL}
<1>1. LineSize \in Nat
  BY ShellAssumption
<1>2. LineSize \in ends /\ ends \in SUBSET Nat
  BY <1>1
<1>3. PICK e \in ends : \A j \in ends : e <= j
  <2> HIDE DEF ends
  <2> QED BY <1>2, FirstNumber
<1>4. \A i \in n .. e - 1 : buf[i] # NUL
  <2>1. \A i \in n .. e - 1 : i \in n .. LineSize /\ ~(e <= i)
    BY <1>1
  <2> QED BY <1>3, <2>1
<1>5. e \in n .. LineSize /\ (e = LineSize \/ buf[e] = NUL)
  OBVIOUS
<1> QED BY <1>4, <1>5, TextIs

LEMMA TextTyped ==
  ASSUME NEW buf \in Buffers, NEW n \in 0 .. LineSize
  PROVE  /\ Text(buf, n) \in Seq(Chars \cup {NUL, JUNK})
         /\ Text(buf, n) \in Seq(Alphabet)
<1>1. PICK e \in n .. LineSize : Text(buf, n) = [i \in 1 .. e - n |-> buf[n + i - 1]]
  BY TextEnds
<1>2. LineSize \in Nat /\ e - n \in Nat
  BY ShellAssumption
<1> DEFINE A == Chars \cup {NUL, JUNK}
<1>3. \A i \in 1 .. e - n : buf[n + i - 1] \in A
  <2>1. \A i \in 1 .. e - n : n + i - 1 \in Cells
    BY <1>2 DEF Cells
  <2> QED BY <2>1 DEF Buffers
<1> HIDE DEF A
<1>4. Text(buf, n) \in Seq(A)
  BY <1>1, <1>2, <1>3
<1>5. A \subseteq Alphabet
  <2>1. NUL \in Alphabet /\ JUNK \in Alphabet
    BY DEF Alphabet
  <2>2. Chars \subseteq Alphabet
    BY Zenon DEF Alphabet
  <2> HIDE DEF A
  <2>3. \A x \in A : x \in Chars \/ x = NUL \/ x = JUNK
    BY Zenon DEF A
  <2> QED BY <2>1, <2>2, <2>3, Zenon
<1>6. Text(buf, n) \in Seq(Alphabet)
  BY <1>4, <1>5, SeqMonotonic
<1> QED BY <1>4, <1>6 DEF A

CommandNames == {"none", "mem", "clear", "exit", "echo", "printf", "run", "exec", "not found"}

LEMMA DispatchTyped ==
  ASSUME NEW buf \in Buffers
  PROVE  Dispatch(buf).name \in CommandNames /\ Dispatch(buf).text \in Seq(Alphabet)
<1>1. /\ 0 \in 0 .. LineSize /\ 4 \in 0 .. LineSize /\ 5 \in 0 .. LineSize /\ 7 \in 0 .. LineSize
  BY ShellAssumption
<1>2. /\ Text(buf, 0) \in Seq(Alphabet) /\ Text(buf, 4) \in Seq(Alphabet)
      /\ Text(buf, 5) \in Seq(Alphabet) /\ Text(buf, 7) \in Seq(Alphabet)
  BY <1>1, TextTyped
<1>3. <<>> \in Seq(Alphabet)
  OBVIOUS
<1> DEFINE Right(c) == c.name \in CommandNames /\ c.text \in Seq(Alphabet)
<1>4. /\ Right(Command("mem", <<>>)) /\ Right(Command("clear", <<>>)) /\ Right(Command("exit", <<>>))
      /\ Right(Command("echo", Text(buf, 5))) /\ Right(Command("printf", Text(buf, 7)))
      /\ Right(Command("run", Text(buf, 4))) /\ Right(Command("exec", Text(buf, 5)))
      /\ Right(Command("not found", Text(buf, 0)))
  BY <1>2, <1>3 DEF Command, CommandNames
<1> HIDE DEF Right
<1>5. Right(Dispatch(buf))
  BY <1>4 DEF Dispatch
<1> QED BY <1>5 DEF Right

-----------------------------------------------------------------------------
(* The echo *)

LEMMA OneLeft ==
  ASSUME NEW c \in Placed, NEW ch
  PROVE  LeftRows(Path(c, <<ch>>)) = IF After(c, ch).y # c.y THEN {c.y} ELSE {}
<1> DEFINE one == <<ch>>
           S == {ch}
           path == Path(c, one)
<1>0. one \in Seq(S)
  OBVIOUS
<1>1. Len(one) = 1 /\ one[1] = ch
  OBVIOUS
<1> HIDE DEF one, S
<1>2. DOMAIN path = {0, 1} /\ path[0] = c /\ path[1] = After(c, ch)
  <2>1. /\ DOMAIN Path(c, one) = 0 .. Len(one)
        /\ Path(c, one)[0] = c
        /\ \A i \in 1 .. Len(one) :
             Path(c, one)[i] = After(Path(c, one)[i - 1], one[i])
    BY <1>0, PathSteps
  <2> HIDE DEF path
  <2>2. 1 \in 1 .. 1 /\ 1 - 1 = 0 /\ 0 .. 1 = {0, 1}
    OBVIOUS
  <2> QED BY <1>1, <2>1, <2>2 DEF path
<1> HIDE DEF path
<1>3. c.y \in Nat /\ After(c, ch).y \in Nat
  BY AfterPlaced DEF Placed, Cursors
<1>4. LeftRows(path) = {path[i].y : i \in {j \in {0, 1} : \E k \in {0, 1} :
                                             k > j /\ path[k].y # path[j].y}}
  BY <1>2 DEF LeftRows
<1>5. {j \in {0, 1} : \E k \in {0, 1} : k > j /\ path[k].y # path[j].y}
        = IF After(c, ch).y # c.y THEN {0} ELSE {}
  BY <1>2, <1>3
<1>6. LeftRows(path) = IF After(c, ch).y # c.y THEN {c.y} ELSE {}
  BY <1>2, <1>4, <1>5
<1> QED BY <1>6 DEF path, one
\* A backspace keeps to the row.
LEMMA BackspaceMoves ==
  ASSUME NEW c \in Placed, Visible(c)
  PROVE  /\ After(c, BS) = IF CanErase(c) THEN [x |-> c.x - Column, y |-> c.y] ELSE c
         /\ After(c, BS) \in Placed /\ Visible(After(c, BS)) /\ After(c, BS).y = c.y
<1>1. c = [x |-> c.x, y |-> c.y] /\ c.x \in Nat /\ c.y \in Nat /\ Margin <= c.x
  BY DEF Placed, Cursors
<1>2. After(c, BS) = IF CanErase(c) THEN [x |-> c.x - Column, y |-> c.y] ELSE c
  BY <1>1 DEF After, NL, CR, TAB, BS
<1>3. CanErase(c) <=> c.x >= Margin + Column
  BY DEF CanErase
<1>4. After(c, BS) \in Placed
  BY AfterPlaced
<1>5. Visible(After(c, BS)) /\ After(c, BS).y = c.y
  BY <1>1, <1>2, <1>3, Measures DEF Visible
<1> QED BY <1>2, <1>4, <1>5

\* The cursor and what is drawn since the prompt are on the screen.
OnScreen ==
  /\ cursor \in Placed /\ start \in Placed /\ Visible(cursor)
  /\ ink \subseteq [at : Cursors, ch : Chars]
  /\ \A i \in ink : Visible(i.at)
  /\ used \subseteq Nat

LEMMA GlyphEchoed ==
  ASSUME OnScreen, NEW ch \in Chars, ch \notin Controls, Echo(ch)
  PROVE  /\ OnScreen'
         /\ cursor' = Advance(cursor)
         /\ ink' = ink \cup {[at |-> cursor, ch |-> ch]}
         /\ used' = used \cup IF cursor'.y # cursor.y THEN {cursor.y} ELSE {}
         /\ start' = start
<1>1. ch # BS
  BY DEF Controls
<1>2. cursor \in Placed /\ Visible(cursor) /\ cursor \in Cursors /\ cursor.y \in Nat
  BY DEF OnScreen, Placed, Cursors
<1>3. cursor' = Advance(cursor) /\ cursor' = After(cursor, ch) /\ cursor' \in Placed /\ Visible(cursor)'
  <2>1. cursor' = After(cursor, ch) /\ After(cursor, ch) = Advance(cursor)
    BY AfterGlyph DEF Echo
  <2>2. Advance(cursor) \in Placed /\ Visible(Advance(cursor))
    BY <1>2, AdvanceMoves
  <2> QED BY <2>1, <2>2
<1>4. ink' = ink \cup {[at |-> cursor, ch |-> ch]}
  BY <1>1 DEF Echo
<1>5. used' = used \cup IF cursor'.y # cursor.y THEN {cursor.y} ELSE {}
  BY <1>2, <1>3, OneLeft DEF Echo
<1>6. start' = start
  BY DEF Echo
<1>7. ink' \subseteq [at : Cursors, ch : Chars] /\ \A i \in ink' : Visible(i.at)
  BY <1>2, <1>4 DEF OnScreen
<1>8. OnScreen'
  BY <1>2, <1>3, <1>5, <1>6, <1>7 DEF OnScreen
<1> QED BY <1>3, <1>4, <1>5, <1>6, <1>8

LEMMA BackspaceEchoed ==
  ASSUME OnScreen, Echo(BS)
  PROVE  /\ OnScreen'
         /\ cursor' = IF CanErase(cursor) THEN [x |-> cursor.x - Column, y |-> cursor.y] ELSE cursor
         /\ ink' = {i \in ink : ~CanErase(cursor) \/ i.at # cursor'}
         /\ used' = used
         /\ start' = start
<1>1. cursor \in Placed /\ Visible(cursor)
  BY DEF OnScreen
<1>2. /\ cursor' = After(cursor, BS)
      /\ cursor' = IF CanErase(cursor) THEN [x |-> cursor.x - Column, y |-> cursor.y] ELSE cursor
      /\ cursor' \in Placed /\ Visible(cursor') /\ cursor'.y = cursor.y
  BY <1>1, BackspaceMoves DEF Echo
<1>3. ink' = {i \in ink : ~CanErase(cursor) \/ i.at # cursor'}
  BY DEF Echo
<1>4. used' = used
  BY <1>1, <1>2, OneLeft DEF Echo
<1>5. start' = start
  BY DEF Echo
<1>6. OnScreen'
  BY <1>2, <1>3, <1>4, <1>5 DEF OnScreen
<1> QED BY <1>2, <1>3, <1>4, <1>5, <1>6

LEMMA Said ==
  ASSUME OnScreen, NEW S, NEW text \in Seq(S), Say(text)
  PROVE  OnScreen' /\ start' = cursor' /\ ink' = {}
<1> DEFINE path == Path(cursor, text \o <<"$", " ">>)
<1>1. cursor \in Placed /\ used \subseteq Nat /\ Len(text) \in Nat
  BY DEF OnScreen
<1>2. /\ DOMAIN path = 0 .. Len(text) + 2
      /\ \A i \in 0 .. Len(text) + 2 : path[i] \in Placed
      /\ Visible(path[Len(text) + 2])
  BY <1>1, PromptVisible
<1>3. /\ cursor' = path[Len(text) + 2] /\ start' = cursor' /\ ink' = {}
      /\ used' = used \cup LeftRows(path) \cup BackRows(path)
  BY DEF Say
<1> HIDE DEF path
<1>4. LeftRows(path) \subseteq Nat /\ BackRows(path) \subseteq Nat
  BY <1>2 DEF LeftRows, BackRows, Placed, Cursors
<1>5. cursor' \in Placed /\ Visible(cursor)'
  <2>1. Len(text) + 2 \in 0 .. Len(text) + 2
    BY <1>1
  <2> QED BY <1>2, <1>3, <2>1
<1> QED BY <1>1, <1>3, <1>4, <1>5 DEF OnScreen

LEMMA HomePrompt ==
  LET path == Path(Home, <<"$", " ">>) IN
  path[2] \in Placed /\ Visible(path[2]) /\ LeftRows(path) \subseteq Nat
<1>1. Home \in Placed
  BY Measures DEF Home, Placed, Cursors
<1>2. <<>> \o <<"$", " ">> = <<"$", " ">> /\ <<>> \in Seq({}) /\ Len(<<>>) = 0
  OBVIOUS
<1> DEFINE path == Path(Home, <<>> \o <<"$", " ">>)
<1>3. /\ DOMAIN path = 0 .. Len(<<>>) + 2
      /\ \A i \in 0 .. Len(<<>>) + 2 : path[i] \in Placed
      /\ Visible(path[Len(<<>>) + 2])
  BY <1>1, <1>2, PromptVisible, Zenon
<1> HIDE DEF path
<1>4. /\ DOMAIN path = 0 .. 2
      /\ \A i \in 0 .. 2 : path[i] \in Placed
      /\ Visible(path[2])
  BY <1>2, <1>3
<1>5. path[2] \in Placed /\ Visible(path[2]) /\ LeftRows(path) \subseteq Nat
  BY <1>4 DEF LeftRows, Placed, Cursors
<1> QED BY <1>2, <1>5 DEF path

LEMMA Cleared ==
  ASSUME OnScreen, Clear
  PROVE  OnScreen' /\ start' = cursor' /\ ink' = {}
BY HomePrompt DEF Clear, OnScreen

-----------------------------------------------------------------------------
(* The invariant of the shell *)

\* All that is in the line was typed, and what a command gets of it is a text.
Typed ==
  /\ TypeOK
  /\ \A k \in 0 .. len - 1 : line[k] \in Chars
  /\ did.cmd.text \in Seq(Alphabet)

Place(k) == [x |-> start.x + k * Column, y |-> start.y]

\* As long as the row of the prompt has no other ink, the line is drawn behind the
\* prompt, a column for each character, and nothing else is drawn.
OnItsRow ==
  start.y \notin used =>
    /\ cursor = Place(len)
    /\ ink = {[at |-> Place(k), ch |-> line[k]] : k \in 0 .. len - 1}

\* A command is what the line says, and a line that was seen is what was seen.
Remembered ==
  pc = "command" => /\ did.cmd = Dispatch(line)
                    /\ did.seen => did.shown = Singletons(Text(line, 0))

ShellInv == Typed /\ OnScreen /\ OnItsRow /\ Remembered

LEMMA Times ==
  ASSUME NEW c \in Nat \ {0}
  PROVE  /\ \A a \in Nat : a * c \in Nat /\ (a + 1) * c = a * c + c /\ 0 * c = 0
         /\ \A a \in Nat : (a * c) \div c = a
         /\ \A a, b \in Nat : a * c = b * c => a = b
<1>1. \A a \in Nat : a * c \in Nat /\ (a + 1) * c = a * c + c /\ 0 * c = 0
  OBVIOUS
<1>2. ASSUME NEW a \in Nat PROVE (a * c) \div c = a
  OBVIOUS
<1>3. ASSUME NEW a \in Nat, NEW b \in Nat, a * c = b * c PROVE a = b
  BY <1>2, <1>3
<1> QED BY <1>1, <1>2, <1>3

LEMMA TypedKeys ==
  ASSUME TypeOK, at < Len(goal)
  PROVE  /\ goal[at + 1] \in Chars /\ goal[at + 1] \notin {NL, CR, BS, NUL}
         /\ at + 1 \in 0 .. Len(goal)
<1>1. goal \in Inputs /\ at \in 0 .. Len(goal)
  BY DEF TypeOK
<1>2. goal \in Seq(Chars)
  BY <1>1, ShellAssumption
<1>3. Len(goal) \in Nat
  BY <1>2
<1>4. at + 1 \in 1 .. Len(goal) /\ at + 1 \in 0 .. Len(goal)
  BY <1>1, <1>3
<1>5. goal[at + 1] \in Chars
  BY <1>2, <1>4, ElementOfSeq
<1>6. goal[at + 1] \notin {NL, CR, BS, NUL}
  BY <1>5, ShellAssumption
<1> QED BY <1>4, <1>5, <1>6

\* A new prompt with an empty line keeps the invariant.
LEMMA NewPrompt ==
  ASSUME OnScreen', start' = cursor', ink' = {}, len' = 0, at' = 0, pc' = "reading",
         line' \in Buffers, goal' \in Inputs, did' = NoCommand
  PROVE  ShellInv'
<1>1. LineSize \in Nat /\ LineSize > 7
  BY ShellAssumption
<1>2. goal' \in Seq(Chars) /\ Len(goal') \in Nat
  BY ShellAssumption
<1>3. 0 \in 0 .. Len(goal')
  BY <1>2
<1>4. did'.cmd.name = "none" /\ did'.cmd.text = <<>>
  BY DEF NoCommand, Command
<1>5. <<>> \in Seq(Alphabet)
  OBVIOUS
<1>6. /\ cursor' \in Cursors /\ start' \in Cursors
      /\ ink' \subseteq [at : Cursors, ch : Chars] /\ used' \subseteq Nat
  BY DEF OnScreen, Placed
<1>7. len' \in Cells
  BY <1>1 DEF Cells
<1>8. TypeOK'
  BY <1>3, <1>4, <1>6, <1>7, Zenon DEF TypeOK, Buffers
<1>9. Typed'
  BY <1>4, <1>5, <1>8 DEF Typed
<1>10. OnItsRow'
  <2>1. start'.x \in Nat /\ start' = [x |-> start'.x, y |-> start'.y]
    BY <1>6 DEF Cursors
  <2>2. start'.x + 0 * Column = start'.x
    BY <2>1, Measures
  <2>3. cursor' = [x |-> start'.x + len' * Column, y |-> start'.y]
    BY <2>1, <2>2
  <2>4. 0 .. len' - 1 = {}
    OBVIOUS
  <2> QED BY <2>3, <2>4 DEF OnItsRow, Place
<1>11. Remembered'
  BY DEF Remembered
<1> QED BY <1>9, <1>10, <1>11 DEF ShellInv

\* A character that is typed.
LEMMA KeyKeeps ==
  ASSUME ShellInv, Key
  PROVE  ShellInv'
<1> DEFINE ch == goal[at + 1]
<1>1. Typed /\ TypeOK /\ OnScreen /\ OnItsRow
  BY DEF ShellInv, Typed
<1>2. ch \in Chars /\ ch \notin {NL, CR, BS, NUL} /\ at + 1 \in 0 .. Len(goal)
  BY <1>1, TypedKeys DEF Key
<1>3. Remembered'
  BY DEF Key, Remembered
<1>4. CASE ch # TAB /\ HasRoom
  <2>1. line' = [line EXCEPT ![len] = ch] /\ len' = len + 1 /\ Echo(ch)
    BY <1>4 DEF Key
  <2>2. ch \notin Controls
    BY <1>2, <1>4 DEF Controls
  <2> HIDE DEF ch
  <2>3. /\ OnScreen'
        /\ cursor' = Advance(cursor)
        /\ ink' = ink \cup {[at |-> cursor, ch |-> ch]}
        /\ used' = used \cup IF cursor'.y # cursor.y THEN {cursor.y} ELSE {}
        /\ start' = start
    BY <1>1, <1>2, <2>1, <2>2, GlyphEchoed
  <2>4. len \in 0 .. LineSize - 1 /\ len < LineSize - 1 /\ LineSize \in Nat /\ line \in Buffers
    BY <1>1, <1>4, ShellAssumption DEF TypeOK, Cells, HasRoom, Buffers
  <2>5. len' \in Cells /\ len \in Cells
    BY <2>1, <2>4 DEF Cells
  <2>6. line' \in Buffers /\ line'[len] = ch /\ \A k \in Cells : k # len => line'[k] = line[k]
    BY <1>2, <2>1, <2>4, <2>5 DEF Buffers
  <2>7. \A k \in 0 .. len' - 1 : k \in 0 .. len - 1 \/ k = len
    BY <2>1, <2>4
  <2>8. \A k \in 0 .. len - 1 : k \in Cells /\ k # len /\ line'[k] = line[k]
    BY <2>4, <2>6 DEF Cells
  <2>9. TypeOK'
    <3>1. /\ cursor' \in Cursors /\ start' \in Cursors
          /\ ink' \subseteq [at : Cursors, ch : Chars] /\ used' \subseteq Nat
      BY <2>3 DEF OnScreen, Placed
    <3>2. /\ pc' \in {"reading", "command", "gone"} /\ goal' \in Inputs /\ at' \in 0 .. Len(goal')
          /\ did'.cmd.name \in {"none", "mem", "clear", "exit", "echo", "printf", "run", "exec", "not found"}
      BY <1>1, <1>2 DEF TypeOK, Key
    <3> QED BY <2>5, <2>6, <3>1, <3>2, Zenon DEF TypeOK, Buffers
  <2>10. Typed'
    <3>1. \A k \in 0 .. len' - 1 : line'[k] \in Chars
      BY <1>1, <1>2, <2>6, <2>7, <2>8 DEF Typed
    <3>2. did'.cmd.text \in Seq(Alphabet)
      BY <1>1 DEF Typed, Key
    <3> QED BY <2>9, <3>1, <3>2 DEF Typed
  <2>11. OnItsRow'
    <3> SUFFICES ASSUME start.y \notin used'
                 PROVE  /\ cursor' = Place(len')
                        /\ ink' = {[at |-> Place(k), ch |-> line'[k]] : k \in 0 .. len' - 1}
      BY <2>3 DEF OnItsRow, Place
    <3>1. /\ cursor = Place(len)
          /\ ink = {[at |-> Place(k), ch |-> line[k]] : k \in 0 .. len - 1}
      BY <1>1, <2>3 DEF OnItsRow
    <3>2. cursor.y = start.y /\ cursor.x = start.x + len * Column
      BY <3>1 DEF Place
    <3>3. cursor \in Placed /\ start.x \in Nat
      BY <1>1 DEF OnScreen, Placed, Cursors
    <3>4. cursor' = [x |-> cursor.x + Column, y |-> cursor.y]
      BY <2>3, <3>2, <3>3, AdvanceMoves
    <3>5. (start.x + len * Column) + Column = start.x + (len + 1) * Column
      BY <2>4, <3>3, Times, Measures
    <3>6. cursor' = Place(len')
      BY <2>1, <3>2, <3>4, <3>5 DEF Place
    <3>7. ink' = {[at |-> Place(k), ch |-> line'[k]] : k \in 0 .. len' - 1}
      <4> DEFINE dot(k) == [at |-> Place(k), ch |-> line[k]]
                 dot2(k) == [at |-> Place(k), ch |-> line'[k]]
      <4>1. \A k \in 0 .. len - 1 : dot2(k) = dot(k) /\ k \in 0 .. len' - 1
        BY <2>1, <2>4, <2>8
      <4>2. dot2(len) = [at |-> cursor, ch |-> ch] /\ len \in 0 .. len' - 1
        BY <2>1, <2>4, <2>6, <3>1
      <4>3. ink = {dot(k) : k \in 0 .. len - 1}
        BY <3>1
      <4> HIDE DEF dot, dot2
      <4>4. ink' = {dot2(k) : k \in 0 .. len' - 1}
        BY <2>3, <2>7, <4>1, <4>2, <4>3
      <4> QED BY <4>4 DEF dot2
    <3> QED BY <3>6, <3>7
  <2> QED BY <1>3, <2>3, <2>10, <2>11 DEF ShellInv
<1>5. CASE ~(ch # TAB /\ HasRoom)
  <2>1. UNCHANGED <<line, len, screen, pc, goal, did>> /\ at' = at + 1
    BY <1>5 DEF Key
  <2>2. TypeOK'
    BY <1>1, <1>2, <2>1 DEF TypeOK, screen
  <2>3. Typed'
    BY <1>1, <2>1, <2>2 DEF Typed
  <2>4. OnScreen' /\ OnItsRow'
    BY <1>1, <2>1 DEF OnScreen, OnItsRow, Place, screen, Visible
  <2> QED BY <1>3, <2>3, <2>4 DEF ShellInv
<1> QED BY <1>4, <1>5

\* A character that is taken back.
LEMMA EraseKeeps ==
  ASSUME ShellInv, Erase
  PROVE  ShellInv'
<1>1. Typed /\ TypeOK /\ OnScreen /\ OnItsRow
  BY DEF ShellInv, Typed
<1>2. at - 1 \in 0 .. Len(goal)
  <2>1. goal \in Seq(Chars) /\ at \in 0 .. Len(goal) /\ at > 0
    BY <1>1, ShellAssumption DEF TypeOK, Erase
  <2>2. Len(goal) \in Nat
    BY <2>1
  <2> QED BY <2>1, <2>2
<1>3. Remembered'
  BY DEF Erase, Remembered
<1>4. CASE len > 0
  <2>1. line' = [line EXCEPT ![len - 1] = NUL] /\ len' = len - 1 /\ Echo(BS)
    BY <1>4 DEF Erase
  <2>2. /\ OnScreen'
        /\ cursor' = IF CanErase(cursor) THEN [x |-> cursor.x - Column, y |-> cursor.y] ELSE cursor
        /\ ink' = {i \in ink : ~CanErase(cursor) \/ i.at # cursor'}
        /\ used' = used
        /\ start' = start
    BY <1>1, <2>1, BackspaceEchoed
  <2>3. len \in 1 .. LineSize - 1 /\ LineSize \in Nat /\ line \in Buffers
    <3>1. len \in Cells /\ line \in Buffers
      BY <1>1 DEF TypeOK, Buffers
    <3>2. LineSize \in Nat
      BY ShellAssumption
    <3> QED BY <1>4, <3>1, <3>2 DEF Cells
  <2>4. len' \in Cells /\ len - 1 \in Cells
    BY <2>1, <2>3 DEF Cells
  <2>5. line' \in Buffers /\ \A k \in Cells : k # len - 1 => line'[k] = line[k]
    BY <2>1, <2>3, <2>4 DEF Buffers
  <2>6. \A k \in 0 .. len' - 1 : k \in 0 .. len - 1 /\ k # len - 1 /\ line'[k] = line[k]
    BY <2>1, <2>3, <2>5 DEF Cells
  <2>7. TypeOK'
    <3>1. /\ cursor' \in Cursors /\ start' \in Cursors
          /\ ink' \subseteq [at : Cursors, ch : Chars] /\ used' \subseteq Nat
      BY <2>2 DEF OnScreen, Placed
    <3>2. /\ pc' \in {"reading", "command", "gone"} /\ goal' \in Inputs /\ at' \in 0 .. Len(goal')
          /\ did'.cmd.name \in {"none", "mem", "clear", "exit", "echo", "printf", "run", "exec", "not found"}
      BY <1>1, <1>2 DEF TypeOK, Erase
    <3> QED BY <2>4, <2>5, <3>1, <3>2, Zenon DEF TypeOK, Buffers
  <2>8. Typed'
    <3>1. \A k \in 0 .. len' - 1 : line'[k] \in Chars
      BY <1>1, <2>6 DEF Typed
    <3>2. did'.cmd.text \in Seq(Alphabet)
      BY <1>1 DEF Typed, Erase
    <3> QED BY <2>7, <3>1, <3>2 DEF Typed
  <2>9. OnItsRow'
    <3> SUFFICES ASSUME start.y \notin used
                 PROVE  /\ cursor' = Place(len')
                        /\ ink' = {[at |-> Place(k), ch |-> line'[k]] : k \in 0 .. len' - 1}
      BY <2>2 DEF OnItsRow, Place
    <3>1. /\ cursor = Place(len)
          /\ ink = {[at |-> Place(k), ch |-> line[k]] : k \in 0 .. len - 1}
      BY <1>1 DEF OnItsRow
    <3>2. cursor.y = start.y /\ cursor.x = start.x + len * Column
      BY <3>1 DEF Place
    <3>3. start.x \in Nat /\ Margin <= start.x
      BY <1>1 DEF OnScreen, Placed, Cursors
    <3>4. /\ len - 1 \in Nat /\ (len - 1) + 1 = len
          /\ len * Column = (len - 1) * Column + Column /\ (len - 1) * Column \in Nat
      <4>1. len - 1 \in Nat /\ (len - 1) + 1 = len
        BY <2>3
      <4>2. ((len - 1) + 1) * Column = (len - 1) * Column + Column /\ (len - 1) * Column \in Nat
        BY <4>1, Times, Measures
      <4> QED BY <4>1, <4>2
    <3>5. CanErase(cursor)
      BY <3>2, <3>3, <3>4, Measures DEF CanErase
    <3>6. cursor' = Place(len - 1) /\ len' = len - 1
      BY <2>1, <2>2, <3>2, <3>3, <3>4, <3>5, Measures DEF Place
    <3>7. \A k \in 0 .. len - 1 : Place(k) = Place(len - 1) => k = len - 1
      <4>1. ASSUME NEW k \in 0 .. len - 1, Place(k) = Place(len - 1) PROVE k = len - 1
        <5>1. start.x + k * Column = start.x + (len - 1) * Column
          BY <4>1 DEF Place
        <5>2. k \in Nat /\ k * Column \in Nat
          BY Times, Measures
        <5>3. k * Column = (len - 1) * Column
          BY <3>3, <3>4, <5>1, <5>2
        <5> QED BY <3>4, <5>2, <5>3, Times, Measures
      <4> QED BY <4>1
    <3>8. ink' = {[at |-> Place(k), ch |-> line'[k]] : k \in 0 .. len' - 1}
      <4> DEFINE dot(k) == [at |-> Place(k), ch |-> line[k]]
                 dot2(k) == [at |-> Place(k), ch |-> line'[k]]
      <4>1. \A k \in 0 .. len' - 1 : dot2(k) = dot(k) /\ k \in 0 .. len - 1 /\ k # len - 1
        BY <2>6
      <4>2. \A k \in 0 .. len - 1 : k \in 0 .. len' - 1 \/ k = len - 1
        BY <2>3, <3>6
      <4>3. ink = {dot(k) : k \in 0 .. len - 1} /\ \A k : dot(k).at = Place(k)
        BY <3>1
      <4>4. ink' = {i \in ink : i.at # Place(len - 1)}
        BY <2>2, <3>5, <3>6
      <4> HIDE DEF dot, dot2
      <4>5. ink' = {dot2(k) : k \in 0 .. len' - 1}
        BY <3>7, <4>1, <4>2, <4>3, <4>4
      <4> QED BY <4>5 DEF dot2
    <3> QED BY <3>6, <3>8
  <2> QED BY <1>3, <2>2, <2>8, <2>9 DEF ShellInv
<1>5. CASE ~(len > 0)
  <2>1. UNCHANGED <<line, len, screen, pc, goal, did>> /\ at' = at - 1
    BY <1>5 DEF Erase
  <2>2. TypeOK'
    BY <1>1, <1>2, <2>1 DEF TypeOK, screen
  <2>3. Typed'
    BY <1>1, <2>1, <2>2 DEF Typed
  <2>4. OnScreen' /\ OnItsRow'
    BY <1>1, <2>1 DEF OnScreen, OnItsRow, Place, screen, Visible
  <2> QED BY <1>3, <2>3, <2>4 DEF ShellInv
<1> QED BY <1>4, <1>5

-----------------------------------------------------------------------------
(* What is seen of the line *)

\* The line as the commands get it is what was typed of it.
LEMMA LineText ==
  ASSUME Typed
  PROVE  /\ Terminated \in Buffers
         /\ Text(Terminated, 0) = [i \in 1 .. len |-> line[i - 1]]
<1>1. LineSize \in Nat /\ len \in Cells /\ line \in Buffers
  BY ShellAssumption DEF Typed, TypeOK, Buffers
<1>2. /\ Terminated \in Buffers /\ Terminated[len] = NUL
      /\ \A k \in Cells : k # len => Terminated[k] = line[k]
  BY <1>1 DEF Terminated, Buffers
<1>3. /\ len \in 0 .. LineSize /\ 0 \in 0 .. LineSize /\ len - 0 = len /\ len \in Nat
      /\ \A k \in 0 .. len - 1 : k \in Cells /\ k # len
  BY <1>1 DEF Cells
<1>4. \A k \in 0 .. len - 1 : Terminated[k] = line[k] /\ Terminated[k] # NUL
  BY <1>2, <1>3, ShellAssumption DEF Typed
<1>5. Text(Terminated, 0) = [i \in 1 .. len - 0 |-> Terminated[0 + i - 1]]
  BY <1>2, <1>3, <1>4, TextIs
<1>6. \A i \in 1 .. len : 0 + i - 1 = i - 1 /\ i - 1 \in 0 .. len - 1
  BY <1>3
<1>7. [i \in 1 .. len - 0 |-> Terminated[0 + i - 1]] = [i \in 1 .. len |-> line[i - 1]]
  BY <1>3, <1>4, <1>6
<1> QED BY <1>2, <1>5, <1>7

LEMMA LineShown ==
  ASSUME Typed, OnScreen, OnItsRow, OnCleanRow
  PROVE  Shown = Singletons(Text(Terminated, 0))
<1> DEFINE place(k) == [x |-> start.x + (k - 1) * Column, y |-> start.y]
           dots(k) == {i.ch : i \in {j \in ink : j.at = place(k)}}
<1>1. /\ cursor = Place(len)
      /\ ink = {[at |-> Place(k), ch |-> line[k]] : k \in 0 .. len - 1}
  BY DEF OnItsRow, OnCleanRow
<1>2. start.x \in Nat /\ len \in Nat /\ Column \in Nat \ {0}
  <2>1. start \in Placed /\ len \in Cells
    BY DEF OnScreen, Typed, TypeOK
  <2>2. LineSize \in Nat
    BY ShellAssumption
  <2> QED BY <2>1, <2>2, Measures DEF Placed, Cursors, Cells
<1>3. (cursor.x - start.x) \div Column = len
  <2>1. cursor.x = start.x + len * Column /\ len * Column \in Nat
    BY <1>1, <1>2, Times DEF Place
  <2>2. cursor.x - start.x = len * Column
    BY <1>2, <2>1
  <2>3. (len * Column) \div Column = len
    BY <1>2, Times
  <2> QED BY <2>2, <2>3
<1>4. Shown = [k \in 1 .. len |-> dots(k)]
  BY <1>3 DEF Shown
<1>5. ASSUME NEW k \in 1 .. len PROVE dots(k) = {line[k - 1]}
  <2>1. k - 1 \in 0 .. len - 1 /\ k - 1 \in Nat
    BY <1>2
  <2>2. place(k) = Place(k - 1)
    BY DEF Place
  <2>3. ASSUME NEW j \in 0 .. len - 1, Place(j) = Place(k - 1) PROVE j = k - 1
    <3>1. start.x + j * Column = start.x + (k - 1) * Column
      BY <2>3 DEF Place
    <3>2. j \in Nat /\ j * Column \in Nat /\ (k - 1) * Column \in Nat
      BY <1>2, <2>1, Times
    <3>3. j * Column = (k - 1) * Column
      BY <1>2, <3>1, <3>2
    <3> QED BY <1>2, <2>1, <3>2, <3>3, Times
  <2> DEFINE dot(j) == [at |-> Place(j), ch |-> line[j]]
  <2>4. /\ ink = {dot(j) : j \in 0 .. len - 1}
        /\ \A j : dot(j).at = Place(j) /\ dot(j).ch = line[j]
    BY <1>1
  <2> HIDE DEF dot
  <2>5. {j \in ink : j.at = Place(k - 1)} = {dot(k - 1)}
    BY <2>1, <2>3, <2>4
  <2> HIDE DEF place
  <2>6. {i.ch : i \in {dot(k - 1)}} = {line[k - 1]}
    BY <2>4
  <2> QED BY <2>2, <2>5, <2>6
<1> HIDE DEF dots
<1>6. Shown = [k \in 1 .. len |-> {line[k - 1]}]
  BY <1>4, <1>5
<1>7. Singletons([i \in 1 .. len |-> line[i - 1]]) = [k \in 1 .. len |-> {line[k - 1]}]
  BY DEF Singletons
<1> QED BY <1>6, <1>7, LineText

-----------------------------------------------------------------------------
(* Commands *)

LEMMA EnterEmptyKeeps ==
  ASSUME ShellInv, EnterEmpty
  PROVE  ShellInv'
<1>1. Read(Terminated) /\ Say(<<NL>>) /\ OnScreen /\ Typed
  BY DEF EnterEmpty, ShellInv
<1> DEFINE S == {NL}
<1>2. <<NL>> \in Seq(S)
  OBVIOUS
<1> HIDE DEF S
<1>3. OnScreen' /\ start' = cursor' /\ ink' = {}
  BY <1>1, <1>2, Said
<1>4. line' \in Buffers
  BY <1>1, LineText DEF Read
<1> QED BY <1>1, <1>3, <1>4, NewPrompt DEF Read

LEMMA EnterKeeps ==
  ASSUME ShellInv, Enter
  PROVE  ShellInv'
<1>1. Typed /\ OnScreen /\ OnItsRow /\ TypeOK
  BY DEF ShellInv, Typed
<1>2. /\ did' = [cmd |-> Dispatch(Terminated), seen |-> OnCleanRow, shown |-> Shown]
      /\ line' = Terminated /\ pc' = "command"
      /\ UNCHANGED <<len, goal, at, screen>>
  BY DEF Enter
<1>3. did'.cmd = Dispatch(line') /\ did'.seen = OnCleanRow /\ did'.shown = Shown
  BY <1>2
<1>4. line' \in Buffers
  BY <1>1, <1>2, LineText
<1>5. Dispatch(line').name \in CommandNames /\ Dispatch(line').text \in Seq(Alphabet)
  BY <1>4, DispatchTyped
<1>6. \A k \in 0 .. len - 1 : line'[k] = line[k]
  <2>1. len \in Cells /\ LineSize \in Nat /\ line \in Buffers
    BY <1>1, ShellAssumption DEF TypeOK, Buffers
  <2>2. \A k \in 0 .. len - 1 : k \in Cells /\ k # len
    BY <2>1 DEF Cells
  <2> QED BY <1>2, <2>1, <2>2 DEF Terminated, Buffers
<1>7. TypeOK'
  <2>1. /\ len' \in Cells /\ goal' \in Inputs /\ at' \in 0 .. Len(goal')
        /\ cursor' \in Cursors /\ start' \in Cursors
        /\ ink' \subseteq [at : Cursors, ch : Chars] /\ used' \subseteq Nat
    BY <1>1, <1>2 DEF TypeOK, screen
  <2>2. pc' \in {"reading", "command", "gone"}
    BY <1>2
  <2>3. did'.cmd.name \in {"none", "mem", "clear", "exit", "echo", "printf", "run", "exec", "not found"}
    BY <1>3, <1>5 DEF CommandNames
  <2> QED BY <1>4, <2>1, <2>2, <2>3, Zenon DEF TypeOK, Buffers
<1>8. Typed'
  <2>1. \A k \in 0 .. len' - 1 : line'[k] \in Chars
    BY <1>1, <1>2, <1>6 DEF Typed
  <2>2. did'.cmd.text \in Seq(Alphabet)
    BY <1>3, <1>5
  <2> QED BY <1>7, <2>1, <2>2 DEF Typed
<1>9. OnScreen'
  BY <1>1, <1>2 DEF OnScreen, screen, Visible
<1>10. OnItsRow'
  <2>1. \A k \in 0 .. len - 1 : [at |-> Place(k), ch |-> line'[k]] = [at |-> Place(k), ch |-> line[k]]
    BY <1>6
  <2>2. {[at |-> Place(k), ch |-> line'[k]] : k \in 0 .. len - 1}
          = {[at |-> Place(k), ch |-> line[k]] : k \in 0 .. len - 1}
    BY <2>1
  <2> QED BY <1>1, <1>2, <2>2 DEF OnItsRow, screen, Place
<1>11. Remembered'
  <2>1. did'.seen => did'.shown = Singletons(Text(line', 0))
    BY <1>1, <1>2, <1>3, LineShown
  <2> QED BY <1>3, <2>1 DEF Remembered, Singletons, Dispatch, StrEq, StrnEq
<1> QED BY <1>8, <1>9, <1>10, <1>11 DEF ShellInv

\* The line that is read after a command.
LEMMA ObeyedKeeps ==
  ASSUME Typed, Obeyed, OnScreen', start' = cursor', ink' = {}
  PROVE  ShellInv'
<1>1. line' \in Buffers
  <2>1. line \in Buffers /\ 0 \in Cells
    <3>1. line \in Buffers
      BY DEF Typed, TypeOK, Buffers
    <3>2. LineSize \in Nat /\ LineSize > 7
      BY ShellAssumption
    <3> QED BY <3>1, <3>2 DEF Cells
  <2> QED BY <2>1 DEF Obeyed, Read, Buffers
<1> QED BY <1>1, NewPrompt DEF Obeyed, Read

LEMMA ReplyKeeps ==
  ASSUME ShellInv, Reply
  PROVE  ShellInv'
<1>1. Typed /\ OnScreen /\ Obeyed
  BY DEF ShellInv, Reply
<1> DEFINE t == did.cmd.text
           A == Alphabet \cup Marks
<1>2. t \in Seq(Alphabet) /\ Alphabet \subseteq A
  BY <1>1 DEF Typed
<1>3. Marks \subseteq A /\ NL \in A /\ ":" \in A
  BY DEF Alphabet
<1> HIDE DEF t, A
<1>4. t \in Seq(A) /\ \A text \in Outputs : text \in Seq(A)
  <2>1. t \in Seq(A)
    BY <1>2, SeqMonotonic
  <2>2. ASSUME NEW text \in Outputs PROVE text \in Seq(A)
    <3>1. text \in Seq(Marks)
      BY ShellAssumption
    <3> QED BY <1>3, <3>1, SeqMonotonic
  <2> QED BY <2>1, <2>2
<1>5. <<NL>> \in Seq(A) /\ <<NL, ":">> \in Seq(A)
  BY <1>3
<1>6. CASE did.cmd.name = "clear"
  BY <1>1, <1>6, Cleared, ObeyedKeeps DEF Reply
<1>7. CASE \E text \in Seq(A) : Say(text)
  <2>1. OnScreen' /\ start' = cursor' /\ ink' = {}
    BY <1>1, <1>7, Said
  <2> QED BY <1>1, <2>1, ObeyedKeeps
<1>8. did.cmd.name # "clear" => \E text \in Seq(A) : Say(text)
  <2> SUFFICES ASSUME did.cmd.name # "clear" PROVE \E text \in Seq(A) : Say(text)
    OBVIOUS
  <2>1. CASE did.cmd.name = "mem"
    <3>1. PICK text \in Outputs : Say(<<NL>> \o text)
      BY <2>1 DEF Reply
    <3>2. <<NL>> \o text \in Seq(A)
      BY <1>4, <1>5, ConcatProperties, Zenon
    <3> QED BY <3>1, <3>2
  <2>2. CASE did.cmd.name = "echo"
    <3>1. Say(<<NL>> \o t \o <<NL>>)
      BY <2>2 DEF Reply, t
    <3>2. <<NL>> \o t \in Seq(A)
      BY <1>4, <1>5, ConcatProperties, Zenon
    <3>3. <<NL>> \o t \o <<NL>> \in Seq(A)
      BY <1>5, <3>2, ConcatProperties, Zenon
    <3> QED BY <3>1, <3>3
  <2>3. CASE did.cmd.name = "printf"
    <3>1. Say(<<NL>> \o t)
      BY <2>3 DEF Reply, t
    <3>2. <<NL>> \o t \in Seq(A)
      BY <1>4, <1>5, ConcatProperties, Zenon
    <3> QED BY <3>1, <3>2
  <2>4. CASE did.cmd.name = "not found"
    <3>1. Say(<<NL, ":">> \o t \o <<NL>>)
      BY <2>4 DEF Reply, t
    <3>2. <<NL, ":">> \o t \in Seq(A)
      BY <1>4, <1>5, ConcatProperties, Zenon
    <3>3. <<NL, ":">> \o t \o <<NL>> \in Seq(A)
      BY <1>5, <3>2, ConcatProperties, Zenon
    <3> QED BY <3>1, <3>3
  <2>5. did.cmd.name \in {"mem", "echo", "printf", "not found"}
    BY DEF Reply
  <2> QED BY <2>1, <2>2, <2>3, <2>4, <2>5
<1> QED BY <1>6, <1>7, <1>8

LEMMA BackFromProgramKeeps ==
  ASSUME ShellInv, BackFromProgram
  PROVE  ShellInv'
<1>1. Typed /\ OnScreen /\ Obeyed
  BY DEF ShellInv, BackFromProgram
<1> DEFINE A == Marks \cup {NL}
<1>2. NL \in A /\ Marks \subseteq A
  OBVIOUS
<1>3. \A text \in Outputs \cup {<<>>} : text \in Seq(Marks)
  <2>1. Outputs \subseteq Seq(Marks)
    BY ShellAssumption
  <2>2. <<>> \in Seq(Marks)
    OBVIOUS
  <2> QED BY <2>1, <2>2
<1> HIDE DEF A
<1>4. PICK text \in Outputs \cup {<<>>} : Say(<<NL>> \o text)
  BY DEF BackFromProgram
<1>5. text \in Seq(A)
  <2>1. text \in Seq(Marks)
    BY <1>3
  <2> QED BY <1>2, <2>1, SeqMonotonic
<1>6. <<NL>> \in Seq(A)
  BY <1>2
<1>7. <<NL>> \o text \in Seq(A)
  BY <1>5, <1>6, ConcatProperties, Zenon
<1>8. OnScreen' /\ start' = cursor' /\ ink' = {}
  BY <1>1, <1>4, <1>7, Said
<1> QED BY <1>1, <1>8, ObeyedKeeps

LEMMA InitKeeps ==
  Init => ShellInv
<1> SUFFICES ASSUME Init PROVE ShellInv
  OBVIOUS
<1>1. LineSize \in Nat /\ LineSize > 7
  BY ShellAssumption
<1>2. /\ line = [i \in Cells |-> IF i = 0 THEN NUL ELSE JUNK] /\ len = 0 /\ pc = "reading"
      /\ goal \in Inputs /\ at = 0 /\ cursor = Path(Home, <<"$", " ">>)[2] /\ start = cursor
      /\ ink = {} /\ used = {} /\ did = NoCommand
  BY DEF Init
<1>3. OnScreen
  <2>1. cursor \in Placed /\ Visible(cursor)
    BY <1>2, HomePrompt
  <2> QED BY <1>2, <2>1 DEF OnScreen
<1>4. line \in Buffers
  BY <1>2 DEF Buffers
<1>5. 0 \in 0 .. Len(goal)
  <2>1. goal \in Seq(Chars)
    BY <1>2, ShellAssumption
  <2>2. Len(goal) \in Nat
    BY <2>1
  <2> QED BY <2>2
<1>6. /\ did.cmd.name = "none" /\ did.cmd.text = <<>>
  BY <1>2 DEF NoCommand, Command
<1>7. TypeOK
  <2>1. cursor \in Cursors /\ start \in Cursors /\ len \in Cells
    <3>1. len = 0
      BY <1>2
    <3>2. len \in Cells
      BY <1>1, <3>1 DEF Cells
    <3> QED BY <1>3, <3>2 DEF OnScreen, Placed
  <2>2. ink \subseteq [at : Cursors, ch : Chars] /\ used \subseteq Nat
    BY <1>3 DEF OnScreen
  <2>3. at \in 0 .. Len(goal)
    BY <1>2, <1>5
  <2> QED BY <1>2, <1>4, <1>6, <2>1, <2>2, <2>3, Zenon DEF TypeOK, Buffers
<1>8. Typed
  <2>1. <<>> \in Seq(Alphabet)
    OBVIOUS
  <2>0. len = 0
    BY <1>2
  <2>2. 0 .. len - 1 = {}
    BY <2>0
  <2> QED BY <1>6, <1>7, <2>1, <2>2 DEF Typed
<1>9. OnItsRow
  <2>1. start.x \in Nat /\ start = [x |-> start.x, y |-> start.y]
    BY <1>3 DEF OnScreen, Placed, Cursors
  <2>2. start.x + 0 * Column = start.x
    BY <2>1, Measures
  <2>3. cursor = [x |-> start.x + len * Column, y |-> start.y]
    BY <1>2, <2>1, <2>2
  <2>0. len = 0
    BY <1>2
  <2>4. 0 .. len - 1 = {}
    BY <2>0
  <2> QED BY <1>2, <2>3, <2>4 DEF OnItsRow, Place
<1>10. Remembered
  BY <1>2 DEF Remembered
<1> QED BY <1>3, <1>8, <1>9, <1>10 DEF ShellInv

LEMMA StutterKeeps ==
  ASSUME ShellInv, UNCHANGED <<line, len, goal, at, screen, did>>, pc' = pc \/ pc' = "gone"
  PROVE  ShellInv'
<1>1. /\ line' = line /\ len' = len /\ goal' = goal /\ at' = at /\ did' = did
      /\ cursor' = cursor /\ start' = start /\ ink' = ink /\ used' = used
  BY DEF screen
<1>2. Typed'
  BY <1>1 DEF ShellInv, Typed, TypeOK
<1>3. OnScreen' /\ OnItsRow'
  BY <1>1 DEF ShellInv, OnScreen, OnItsRow, Place, Visible
<1>4. Remembered'
  BY <1>1 DEF ShellInv, Remembered, Singletons, Dispatch, StrEq, StrnEq
<1> QED BY <1>2, <1>3, <1>4 DEF ShellInv

\* The line, the screen and what a command got of them, for every screen, line
\* buffer, input and output.
THEOREM ShellInvariance ==
  Spec => []ShellInv
<1>1. ShellInv /\ [Next]_vars => ShellInv'
  <2> SUFFICES ASSUME ShellInv, [Next]_vars PROVE ShellInv'
    OBVIOUS
  <2>1. CASE Key
    BY <2>1, KeyKeeps
  <2>2. CASE Erase
    BY <2>2, EraseKeeps
  <2>3. CASE EnterEmpty
    BY <2>3, EnterEmptyKeeps
  <2>4. CASE Enter
    BY <2>4, EnterKeeps
  <2>5. CASE Reply
    BY <2>5, ReplyKeeps
  <2>6. CASE BackFromProgram
    BY <2>6, BackFromProgramKeeps
  <2>7. CASE Leave
    BY <2>7, StutterKeeps DEF Leave
  <2>8. CASE UNCHANGED vars
    BY <2>8, StutterKeeps DEF vars
  <2> QED BY <2>1, <2>2, <2>3, <2>4, <2>5, <2>6, <2>7, <2>8 DEF Next, Gone
<1> QED BY <1>1, InitKeeps, PTL DEF Spec

\* Wherever the output before it ended, below the screen or past its right edge,
\* the prompt brings the cursor back on the screen, and all that is typed is drawn
\* there: on screens of every size, for all inputs and outputs.
THEOREM AllIsTypedOnScreen ==
  Spec => []TypesOnScreen
<1>1. ShellInv => TypesOnScreen
  BY DEF ShellInv, OnScreen, TypesOnScreen
<1> QED BY <1>1, ShellInvariance, PTL

\* What the user reads behind the prompt, as long as the line is on a row of its
\* own, is what the commands will get.
THEOREM TheUserSeesTheLine ==
  Spec => []SeesTheLine
<1>1. ShellInv => SeesTheLine
  BY LineShown DEF ShellInv, Typed, SeesTheLine
<1> QED BY <1>1, ShellInvariance, PTL

-----------------------------------------------------------------------------
(* What a command is given *)

\* The string behind the first n characters of a line.
LEMMA TextBehind ==
  ASSUME NEW buf \in Buffers, NEW n \in Nat, n <= Len(Text(buf, 0))
  PROVE  Text(buf, n) = SubSeq(Text(buf, 0), n + 1, Len(Text(buf, 0)))
<1>1. LineSize \in Nat /\ 0 \in 0 .. LineSize
  BY ShellAssumption
<1>2. PICK e \in 0 .. LineSize : /\ e = LineSize \/ buf[e] = NUL
                                 /\ \A i \in 0 .. e - 1 : buf[i] # NUL
                                 /\ Text(buf, 0) = [i \in 1 .. e - 0 |-> buf[0 + i - 1]]
  BY <1>1, TextEnds
<1>3. Text(buf, 0) = [i \in 1 .. e |-> buf[i - 1]] /\ e \in Nat
  <2>1. e - 0 = e /\ \A i \in 1 .. e : 0 + i - 1 = i - 1
    OBVIOUS
  <2> QED BY <1>2, <2>1
<1>4. Len(Text(buf, 0)) = e
  BY <1>3
<1>5. n \in 0 .. LineSize /\ e \in n .. LineSize /\ \A i \in n .. e - 1 : i \in 0 .. e - 1
  BY <1>1, <1>3, <1>4
<1>6. Text(buf, n) = [i \in 1 .. e - n |-> buf[n + i - 1]]
  BY <1>2, <1>5, TextIs
<1>7. SubSeq(Text(buf, 0), n + 1, e) = [i \in 1 .. e - n |-> buf[n + i - 1]]
  <2>1. 1 + e - (n + 1) = e - n
    BY <1>3
  <2>2. ASSUME NEW i \in 1 .. e - n PROVE Text(buf, 0)[i + (n + 1) - 1] = buf[n + i - 1]
    <3>1. i + (n + 1) - 1 \in 1 .. e /\ (i + (n + 1) - 1) - 1 = n + i - 1
      BY <1>3
    <3> QED BY <1>3, <3>1
  <2>3. SubSeq(Text(buf, 0), n + 1, e)
          = [i \in 1 .. 1 + e - (n + 1) |-> Text(buf, 0)[i + (n + 1) - 1]]
    OBVIOUS
  <2> QED BY <2>1, <2>2, <2>3
<1> QED BY <1>4, <1>6, <1>7

\* What strncmp compares.
LEMMA StrnEqIff ==
  ASSUME NEW buf \in Buffers, NEW S, NEW word \in Seq(S), NEW n \in 0 .. Len(word)
  PROVE  StrnEq(buf, word, n) <=> /\ n <= Len(Text(buf, 0))
                                  /\ \A i \in 1 .. n : Text(buf, 0)[i] = word[i]
<1> DEFINE T == Text(buf, 0)
           first == SubSeq(word, 1, n)
<1>1. 0 \in 0 .. LineSize
  BY ShellAssumption
<1>2. T \in Seq(Alphabet)
  BY <1>1, TextTyped
<1> HIDE DEF T
<1>3. Len(T) \in Nat /\ Len(word) \in Nat /\ n \in Nat
  BY <1>2
<1>4. first = [i \in 1 .. n |-> word[i]]
  <2>1. first = [i \in 1 .. 1 + n - 1 |-> word[i + 1 - 1]]
    OBVIOUS
  <2>2. 1 + n - 1 = n /\ \A i \in 1 .. n : i + 1 - 1 = i
    BY <1>3
  <2> QED BY <2>1, <2>2
<1> HIDE DEF first
<1>5. Len(first) = n
  BY <1>3, <1>4
<1>6. SubSeq(first, 1, n) = [i \in 1 .. n |-> first[i]]
  <2>1. SubSeq(first, 1, n) = [i \in 1 .. 1 + n - 1 |-> first[i + 1 - 1]]
    OBVIOUS
  <2>2. 1 + n - 1 = n /\ \A i \in 1 .. n : i + 1 - 1 = i
    BY <1>3
  <2> QED BY <2>1, <2>2
<1>7. SubSeq(T, 1, n) = [i \in 1 .. n |-> T[i]]
  <2>1. SubSeq(T, 1, n) = [i \in 1 .. 1 + n - 1 |-> T[i + 1 - 1]]
    OBVIOUS
  <2>2. 1 + n - 1 = n /\ \A i \in 1 .. n : i + 1 - 1 = i
    BY <1>3
  <2> QED BY <2>1, <2>2
<1>8. StrnEq(buf, word, n) <=> n <= Len(T) /\ SubSeq(first, 1, n) = SubSeq(T, 1, n)
  BY <1>5 DEF StrnEq, IsPrefix, T, first
<1> QED BY <1>4, <1>6, <1>7, <1>8 DEF T

\* A word is read where it is written.
LEMMA WordSeen ==
  ASSUME NEW S, NEW word \in Seq(S), NEW R, NEW text \in Seq(R),
         IsPrefix(Singletons(word), Singletons(text))
  PROVE  Len(word) <= Len(text) /\ \A i \in 1 .. Len(word) : text[i] = word[i]
<1> DEFINE n == Len(word)
           sw == Singletons(word)
           st == Singletons(text)
<1>1. n \in Nat /\ Len(text) \in Nat /\ DOMAIN word = 1 .. n /\ DOMAIN text = 1 .. Len(text)
  OBVIOUS
<1>2. sw = [i \in 1 .. n |-> {word[i]}] /\ st = [i \in 1 .. Len(text) |-> {text[i]}]
  BY <1>1 DEF Singletons
<1> HIDE DEF sw, st, n
<1>3. Len(sw) = n /\ Len(st) = Len(text)
  BY <1>1, <1>2
<1>4. n <= Len(text) /\ SubSeq(sw, 1, n) = SubSeq(st, 1, n)
  BY <1>3 DEF IsPrefix, sw, st
<1>5. SubSeq(sw, 1, n) = [i \in 1 .. 1 + n - 1 |-> sw[i + 1 - 1]]
      /\ SubSeq(st, 1, n) = [i \in 1 .. 1 + n - 1 |-> st[i + 1 - 1]]
  BY <1>1
<1>6. ASSUME NEW i \in 1 .. n PROVE text[i] = word[i]
  <2>1. i \in 1 .. 1 + n - 1 /\ i + 1 - 1 = i /\ i \in 1 .. Len(text)
    BY <1>1, <1>4
  <2>2. sw[i] = st[i]
    BY <1>4, <1>5, <2>1
  <2> QED BY <1>2, <2>1, <2>2
<1> QED BY <1>4, <1>6 DEF n

Begins(text, word) == Len(word) <= Len(text) /\ \A i \in 1 .. Len(word) : text[i] = word[i]

Letters == {"e", "c", "h", "o", " ", "p", "r", "i", "n", "t", "f", "u", "x"}

LEMMA WordsTyped ==
  /\ ECHO \in Seq(Letters) /\ PRINTF \in Seq(Letters) /\ RUN \in Seq(Letters) /\ EXEC \in Seq(Letters)
  /\ Len(ECHO) = 5 /\ Len(PRINTF) = 7 /\ Len(RUN) = 4 /\ Len(EXEC) = 5
<1>1. ECHO \in Seq(Letters) /\ Len(ECHO) = 5
  BY DEF ECHO, Letters
<1>2. PRINTF \in Seq(Letters) /\ Len(PRINTF) = 7
  BY DEF PRINTF, Letters
<1>3. RUN \in Seq(Letters) /\ Len(RUN) = 4
  BY DEF RUN, Letters
<1>4. EXEC \in Seq(Letters) /\ Len(EXEC) = 5
  BY DEF EXEC, Letters
<1> QED BY <1>1, <1>2, <1>3, <1>4

\* The words of the commands exclude each other.
LEMMA DispatchByWord ==
  ASSUME NEW buf \in Buffers
  PROVE  LET text == Text(buf, 0) IN
         /\ Begins(text, ECHO)   => Dispatch(buf) = Command("echo", Text(buf, 5))
         /\ Begins(text, PRINTF) => Dispatch(buf) = Command("printf", Text(buf, 7))
         /\ Begins(text, RUN)    => Dispatch(buf) = Command("run", Text(buf, 4))
         /\ Begins(text, EXEC)   => Dispatch(buf) = Command("exec", Text(buf, 5))
<1> DEFINE T == Text(buf, 0)
           Has(word, n) == n <= Len(T) /\ \A i \in 1 .. n : T[i] = word[i]
<1>1. /\ StrnEq(buf, ECHO, 5) <=> Has(ECHO, 5)
      /\ StrnEq(buf, PRINTF, 5) <=> Has(PRINTF, 5)
      /\ StrnEq(buf, RUN, 4) <=> Has(RUN, 4)
      /\ StrnEq(buf, EXEC, 5) <=> Has(EXEC, 5)
  <2> DEFINE A == Letters
             four == 4
             five == 5
  <2>1. /\ ECHO \in Seq(A) /\ PRINTF \in Seq(A) /\ RUN \in Seq(A) /\ EXEC \in Seq(A)
        /\ Len(ECHO) = 5 /\ Len(PRINTF) = 7 /\ Len(RUN) = 4 /\ Len(EXEC) = 5
    BY WordsTyped
  <2>2. five \in 0 .. Len(ECHO) /\ five \in 0 .. Len(PRINTF) /\ four \in 0 .. Len(RUN) /\ five \in 0 .. Len(EXEC)
    BY <2>1
  <2> HIDE DEF A, four, five
  <2>3. StrnEq(buf, ECHO, five) <=> Has(ECHO, five)
    BY <2>1, <2>2, StrnEqIff, Zenon
  <2>4. StrnEq(buf, PRINTF, five) <=> Has(PRINTF, five)
    BY <2>1, <2>2, StrnEqIff, Zenon
  <2>5. StrnEq(buf, RUN, four) <=> Has(RUN, four)
    BY <2>1, <2>2, StrnEqIff, Zenon
  <2>6. StrnEq(buf, EXEC, five) <=> Has(EXEC, five)
    BY <2>1, <2>2, StrnEqIff, Zenon
  <2> QED BY <2>3, <2>4, <2>5, <2>6 DEF four, five
<1>2. /\ StrEq(buf, MEM) => T[1] = "m"
      /\ StrEq(buf, CLEAR) => T[1] = "c"
      /\ StrEq(buf, EXIT) => T[1] = "e" /\ T[2] = "x" /\ T[3] = "i"
  BY DEF StrEq, MEM, CLEAR, EXIT
<1>3. /\ Has(ECHO, 5) => T[1] = "e" /\ T[2] = "c"
      /\ Has(PRINTF, 5) => T[1] = "p"
      /\ Has(RUN, 4) => T[1] = "r"
      /\ Has(EXEC, 5) => T[1] = "e" /\ T[2] = "x" /\ T[3] = "e"
  <2> HIDE DEF T
  <2>1. 1 \in 1 .. 4 /\ 1 \in 1 .. 5 /\ 2 \in 1 .. 5 /\ 3 \in 1 .. 5
    OBVIOUS
  <2>2. ECHO[1] = "e" /\ ECHO[2] = "c"
    BY DEF ECHO
  <2>3. PRINTF[1] = "p"
    BY DEF PRINTF
  <2>4. RUN[1] = "r"
    BY DEF RUN
  <2>5. EXEC[1] = "e" /\ EXEC[2] = "x" /\ EXEC[3] = "e"
    BY DEF EXEC
  <2> QED BY <2>1, <2>2, <2>3, <2>4, <2>5
<1>4. /\ Begins(T, ECHO) => Has(ECHO, 5) /\ T[1] = "e" /\ T[2] = "c"
      /\ Begins(T, PRINTF) => Has(PRINTF, 5) /\ T[1] = "p"
      /\ Begins(T, RUN) => Has(RUN, 4) /\ T[1] = "r"
      /\ Begins(T, EXEC) => Has(EXEC, 5) /\ T[1] = "e" /\ T[2] = "x" /\ T[3] = "e"
  <2> HIDE DEF T
  <2>1. 1 \in 1 .. 4 /\ 2 \in 1 .. 5 /\ 1 \in 1 .. 5 /\ 3 \in 1 .. 5 /\ 1 \in 1 .. 7 /\ 5 <= 7
        /\ \A i \in 1 .. 5 : i \in 1 .. 7
    OBVIOUS
  <2>2. Begins(T, PRINTF) => Has(PRINTF, 5)
    <3>1. Begins(T, PRINTF) => Has(PRINTF, 7)
      BY WordsTyped DEF Begins
    <3>2. Len(T) \in Nat
      <4>1. 0 \in 0 .. LineSize
        BY ShellAssumption
      <4>2. T \in Seq(Alphabet)
        BY <4>1, TextTyped DEF T
      <4> QED BY <4>2
    <3>3. 7 <= Len(T) => 5 <= Len(T)
      BY <3>2
    <3> QED BY <2>1, <3>1, <3>3
  <2>3. /\ Begins(T, ECHO) => Has(ECHO, 5)
        /\ Begins(T, RUN) => Has(RUN, 4)
        /\ Begins(T, EXEC) => Has(EXEC, 5)
    BY WordsTyped DEF Begins
  <2> QED BY <1>3, <2>2, <2>3
<1> HIDE DEF T, Has
<1>5. Begins(T, ECHO) => Dispatch(buf) = Command("echo", Text(buf, 5))
  BY <1>1, <1>2, <1>3, <1>4 DEF Dispatch
<1>6. Begins(T, PRINTF) => Dispatch(buf) = Command("printf", Text(buf, 7))
  BY <1>1, <1>2, <1>3, <1>4 DEF Dispatch
<1>7. Begins(T, RUN) => Dispatch(buf) = Command("run", Text(buf, 4))
  BY <1>1, <1>2, <1>3, <1>4 DEF Dispatch
<1>8. Begins(T, EXEC) => Dispatch(buf) = Command("exec", Text(buf, 5))
  BY <1>1, <1>2, <1>3, <1>4 DEF Dispatch
<1> QED BY <1>5, <1>6, <1>7, <1>8 DEF T

\* A command that the user reads with its word and a space runs as that command,
\* and gets the rest of the line as it was read.
THEOREM TheCommandGetsItsArgument ==
  Spec => []GetsItsArgument
<1>1. ShellInv => GetsItsArgument
  <2> SUFFICES ASSUME ShellInv, pc = "command", did.seen, NEW w \in DOMAIN CommandWords,
                      IsPrefix(Singletons(CommandWords[w]), did.shown)
               PROVE  /\ did.cmd.name = w
                      /\ Singletons(did.cmd.text)
                           = SubSeq(did.shown, Len(CommandWords[w]) + 1, Len(did.shown))
    BY DEF GetsItsArgument
  <2> DEFINE T == Text(line, 0)
             word == CommandWords[w]
             n == Len(word)
             A == Letters
  <2>1. line \in Buffers /\ did.cmd = Dispatch(line) /\ did.shown = Singletons(T)
    BY DEF ShellInv, Typed, TypeOK, Buffers, Remembered
  <2>2. T \in Seq(Alphabet)
    <3>1. 0 \in 0 .. LineSize
      BY ShellAssumption
    <3> QED BY <2>1, <3>1, TextTyped
  <2>3. w \in {"echo", "printf", "run", "exec"}
    BY DEF CommandWords
  <2>4. word \in Seq(A) /\ n \in Nat
    <3>1. word \in {ECHO, PRINTF, RUN, EXEC}
      BY <2>3 DEF CommandWords
    <3> HIDE DEF word, A
    <3>2. word \in Seq(A)
      BY <3>1, WordsTyped DEF A
    <3> QED BY <3>2 DEF n
  <2> HIDE DEF T, A
  <2>5. Begins(T, word)
    BY <2>1, <2>2, <2>4, WordSeen DEF Begins
  <2>6. did.cmd = Command(w, Text(line, n))
    <3>1. CASE w = "echo"
      <4>1. word = ECHO /\ Len(ECHO) = 5
        BY <3>1 DEF CommandWords, ECHO
      <4> QED BY <2>1, <2>5, <3>1, <4>1, DispatchByWord DEF T
    <3>2. CASE w = "printf"
      <4>1. word = PRINTF /\ Len(PRINTF) = 7
        BY <3>2 DEF CommandWords, PRINTF
      <4> QED BY <2>1, <2>5, <3>2, <4>1, DispatchByWord DEF T
    <3>3. CASE w = "run"
      <4>1. word = RUN /\ Len(RUN) = 4
        BY <3>3 DEF CommandWords, RUN
      <4> QED BY <2>1, <2>5, <3>3, <4>1, DispatchByWord DEF T
    <3>4. CASE w = "exec"
      <4>1. word = EXEC /\ Len(EXEC) = 5
        BY <3>4 DEF CommandWords, EXEC
      <4> QED BY <2>1, <2>5, <3>4, <4>1, DispatchByWord DEF T
    <3> QED BY <2>3, <3>1, <3>2, <3>3, <3>4
  <2> HIDE DEF word, n
  <2>7. did.cmd.name = w /\ did.cmd.text = Text(line, n)
    BY <2>6 DEF Command
  <2>8. n <= Len(T)
    BY <2>5 DEF Begins, n
  <2>9. Text(line, n) = SubSeq(T, n + 1, Len(T))
    BY <2>1, <2>4, <2>8, TextBehind DEF T
  <2>10. Singletons(SubSeq(T, n + 1, Len(T))) = SubSeq(Singletons(T), n + 1, Len(T))
    <3> DEFINE st == Singletons(T)
               k == Len(T)
    <3>1. k \in Nat /\ DOMAIN T = 1 .. k
      BY <2>2
    <3> HIDE DEF k
    <3>2. st = [i \in 1 .. k |-> {T[i]}]
      BY <3>1 DEF Singletons
    <3> HIDE DEF st
    <3>3. SubSeq(T, n + 1, k) = [i \in 1 .. 1 + k - (n + 1) |-> T[i + (n + 1) - 1]]
      BY <2>4, <3>1
    <3>4. SubSeq(st, n + 1, k) = [i \in 1 .. 1 + k - (n + 1) |-> st[i + (n + 1) - 1]]
      BY <2>4, <3>1
    <3>5. \A i \in 1 .. 1 + k - (n + 1) : i + (n + 1) - 1 \in 1 .. k
      BY <2>4, <3>1
    <3>6. Singletons(SubSeq(T, n + 1, k)) = [i \in 1 .. 1 + k - (n + 1) |-> {T[i + (n + 1) - 1]}]
      BY <3>3 DEF Singletons
    <3>7. SubSeq(st, n + 1, k) = [i \in 1 .. 1 + k - (n + 1) |-> {T[i + (n + 1) - 1]}]
      BY <3>2, <3>4, <3>5
    <3> QED BY <3>6, <3>7 DEF st, k
  <2>11. Len(did.shown) = Len(T)
    <3>1. Len(T) \in Nat /\ DOMAIN T = 1 .. Len(T)
      BY <2>2
    <3>2. Singletons(T) = [i \in 1 .. Len(T) |-> {T[i]}]
      BY <3>1 DEF Singletons
    <3> QED BY <2>1, <3>1, <3>2
  <2> QED BY <2>1, <2>7, <2>9, <2>10, <2>11 DEF n, word
<1> QED BY <1>1, ShellInvariance, PTL

=============================================================================
