------------------------------ MODULE CStrings ------------------------------
(***************************************************************************)
(* The C library's loops over bytes (src/src/libc/string.c), as functions  *)
(* of a memory of a few bytes, what they are for, and a program that calls *)
(* them as the C standard allows.  A string ends at the first zero; an     *)
(* address is an index of the memory.                                      *)
(***************************************************************************)
EXTENDS Integers

CONSTANTS
  MemSize,    \* bytes of memory
  MaxByte     \* the largest byte: 255

ASSUME CStringsAssumption == MemSize \in Nat \ {0} /\ MaxByte \in Nat \ {0}

Bytes     == 0 .. MaxByte
Addresses == 0 .. MemSize - 1

VARIABLE mem    \* the bytes of a program, or none yet

\* Whether n bytes from a on are in the memory.
InMemory(a, n) == a + n <= MemSize

-----------------------------------------------------------------------------
(* The loops *)

\* memcpy: n bytes, the first one first.
Memcpy(m, d, s, n) ==
  LET after[i \in 0 .. n] ==
        IF i = 0 THEN m ELSE [after[i - 1] EXCEPT ![d + i - 1] = after[i - 1][s + i - 1]]
  IN  after[n]

\* The last byte first.
CopyDown(m, d, s, n) ==
  LET after[i \in 0 .. n] ==
        IF i = 0 THEN m ELSE [after[i - 1] EXCEPT ![d + n - i] = after[i - 1][s + n - i]]
  IN  after[n]

\* Mutant: the direction is the other one.
MemmoveSwapped(m, d, s, n) ==
  IF d < s THEN CopyDown(m, d, s, n) ELSE Memcpy(m, d, s, n)

Memmove(m, d, s, n) ==
  IF d < s THEN Memcpy(m, d, s, n) ELSE CopyDown(m, d, s, n)

Memset(m, d, c, n) ==
  LET after[i \in 0 .. n] ==
        IF i = 0 THEN m ELSE [after[i - 1] EXCEPT ![d + i - 1] = c % (MaxByte + 1)]
  IN  after[n]

\* The difference of the first two bytes that differ, of n.
Memcmp(m, a, b, n) ==
  LET from[i \in 0 .. n] ==
        IF i < n /\ m[a + i] = m[b + i]
          THEN from[i + 1] ELSE IF i < n THEN m[a + i] - m[b + i] ELSE 0
  IN  from[0]

\* The loop passes every byte but a zero; it is not followed past the memory.
Strlen(m, s) ==
  LET end[i \in s .. MemSize] == IF i < MemSize /\ m[i] # 0 THEN end[i + 1] ELSE i
  IN  end[s] - s

\* The bytes at which the loop ends: a zero, a difference or the n-th.
Strncmp(m, a, b, n) ==
  LET from[i \in 0 .. n - 1] ==
        IF i < n - 1 /\ m[a + i] # 0 /\ m[a + i] = m[b + i]
          THEN from[i + 1] ELSE m[a + i] - m[b + i]
  IN  IF n = 0 THEN 0 ELSE from[0]

\* strcmp compares without a limit.
Strcmp(m, a, b) == Strncmp(m, a, b, MemSize)

\* The copying loop comes to its end with byte n: it has just copied a zero.
CopiesZero(m, d, s, n) == Memcpy(m, d, s, n)[d + n - 1] = 0

\* strcpy: the bytes up to the first zero that is copied.
Strcpy(m, d, s) ==
  Memcpy(m, d, s, CHOOSE n \in 1 .. MemSize - d :
                    CopiesZero(m, d, s, n) /\ \A k \in 1 .. n - 1 : ~CopiesZero(m, d, s, k))

Strcat(m, d, s) == Strcpy(m, d + Strlen(m, d), s)

\* strncpy: at most n bytes, and zeros up to n; the string may stay without end.
Strncpy(m, d, s, n) ==
  LET len == IF Strlen(m, s) < n THEN Strlen(m, s) ELSE n
  IN  Memset(Memcpy(m, d, s, len), d + len, 0, n - len)

NULL == -1

\* strchr: the first c, which may be the zero at the end.
Strchr(m, s, c) ==
  LET from[i \in s .. MemSize] ==
        IF i < MemSize /\ m[i] # c /\ m[i] # 0
          THEN from[i + 1] ELSE IF i < MemSize /\ m[i] = c THEN i ELSE NULL
  IN  from[s]

-----------------------------------------------------------------------------
(* What they are for *)

\* The memory m with the bytes at d replaced by those of f, indexed from 0.
With(m, d, f) ==
  [a \in Addresses |-> IF a - d \in DOMAIN f THEN f[a - d] ELSE m[a]]

Slice(m, s, n) == [i \in 0 .. n - 1 |-> m[s + i]]

\* Where the string at s has its zero, if it has one.
Ends(m, s) == {e \in s .. MemSize - 1 : m[e] = 0 /\ \A i \in s .. e - 1 : m[i] # 0}
IsString(m, s) == Ends(m, s) # {}
Length(m, s)   == (CHOOSE e \in Ends(m, s) : TRUE) - s
Str(m, s)      == Slice(m, s, Length(m, s) + 1)

Sign(n) == IF n > 0 THEN 1 ELSE IF n < 0 THEN -1 ELSE 0

\* How the first n bytes of two strings, or of two areas, compare.
Order(m, a, b, n) ==
  LET first == {i \in 0 .. n - 1 : /\ m[a + i] # m[b + i]
                                   /\ \A j \in 0 .. i - 1 : m[a + j] = m[b + j]}
  IN  IF first = {} THEN 0 ELSE LET i == CHOOSE i \in first : TRUE IN Sign(m[a + i] - m[b + i])

Least(i, n) == IF i < n THEN i ELSE n

\* Two areas that do not overlap.
Apart(d, s, n) == InMemory(d, n) /\ InMemory(s, n) /\ (d + n <= s \/ s + n <= d)

Size(s) == Length(mem, s) + 1

-----------------------------------------------------------------------------
(* A program, which calls the functions that write *)

StringsInit == mem = [a \in Addresses |-> 0]

CallOnAreas(d, s, n) ==
  \/ InMemory(d, n) /\ InMemory(s, n) /\ mem' = Memmove(mem, d, s, n)
  \/ Apart(d, s, n) /\ mem' = Memcpy(mem, d, s, n)
  \/ InMemory(d, n) /\ mem' = Memset(mem, d, s, n)

\* The room at d is enough and apart from the string at s.
CallOnStrings(d, s, n) ==
  /\ IsString(mem, s)
  /\ \/ Apart(d, s, Size(s)) /\ mem' = Strcpy(mem, d, s)
     \/ /\ IsString(mem, d)
        /\ Apart(d, s, Length(mem, d) + Size(s))
        /\ mem' = Strcat(mem, d, s)
     \/ Apart(d, s, n) /\ Apart(d, s, Size(s)) /\ mem' = Strncpy(mem, d, s, n)

StringsNext ==
  \E d, s \in Addresses, n \in 0 .. MemSize : CallOnAreas(d, s, n) \/ CallOnStrings(d, s, n)

StringsSpec == StringsInit /\ [][StringsNext]_mem

-----------------------------------------------------------------------------
(* Properties *)

\* The functions on areas: areas may overlap for memmove alone.
AreasRight(d, s, n) ==
  /\ Memmove(mem, d, s, n) = With(mem, d, Slice(mem, s, n))
  /\ Apart(d, s, n) => Memcpy(mem, d, s, n) = With(mem, d, Slice(mem, s, n))
  /\ Sign(Memcmp(mem, d, s, n)) = Order(mem, d, s, n)
  /\ Memset(mem, d, s, n) = With(mem, d, [i \in 0 .. n - 1 |-> s % (MaxByte + 1)])

\* The functions on strings that only read them.
ReadsRight(a, b, n) ==
  LET most  == Least(Size(a), Size(b))
      c     == n % (MaxByte + 1)
      found == {i \in a .. a + Length(mem, a) : mem[i] = c}
  IN  /\ Strlen(mem, a) = Length(mem, a)
      /\ Sign(Strcmp(mem, a, b)) = Order(mem, a, b, most)
      /\ Sign(Strncmp(mem, a, b, n)) = Order(mem, a, b, Least(n, most))
      /\ IF found = {} THEN Strchr(mem, a, c) = NULL
         ELSE /\ Strchr(mem, a, c) \in found
              /\ \A i \in found : Strchr(mem, a, c) <= i

\* Those that write one.
WritesRight(d, s, n) ==
  /\ Apart(d, s, Size(s)) => Strcpy(mem, d, s) = With(mem, d, Str(mem, s))
  /\ IsString(mem, d) /\ Apart(d, s, Length(mem, d) + Size(s)) =>
       Strcat(mem, d, s) = With(mem, d + Length(mem, d), Str(mem, s))
  /\ Apart(d, s, n) /\ Apart(d, s, Size(s)) =>
       Strncpy(mem, d, s, n)
         = With(mem, d, [i \in 0 .. n - 1 |-> IF i < Size(s) THEN mem[s + i] ELSE 0])

\* Whatever a program has made of its memory, each function of string.c, called as
\* the C standard allows, does what it is for: at every overlap of areas, with a
\* difference, an end or a limit at any byte.
StringsRight ==
  \A a, b \in DOMAIN mem : \A n \in 0 .. MemSize :
    /\ InMemory(a, n) /\ InMemory(b, n) => AreasRight(a, b, n)
    /\ IsString(mem, a) /\ IsString(mem, b) => ReadsRight(a, b, n)
    /\ IsString(mem, b) => WritesRight(a, b, n)
=============================================================================
