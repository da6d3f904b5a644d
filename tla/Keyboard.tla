------------------------------ MODULE Keyboard ------------------------------
(***************************************************************************)
(* The keyboard driver (src/src/kernel/driver/keyboard.c).  It runs only   *)
(* while a program reads: until then what the user does waits in the       *)
(* keyboard, which holds a few codes and drops the rest.  The driver keeps *)
(* one flag for two shift keys, and knows of them only what gets through.  *)
(* The keyboard and its user are external.                                 *)
(***************************************************************************)
EXTENDS Integers, Sequences, SequencesExt

CONSTANTS
  Keys,       \* keys other than shift
  Plain,      \* scancode_ascii: the character of each key, or NoChar
  Shifted,    \* scancode_shift
  Printed,    \* the character printed on the key for shift, or NoChar
  NoChar,
  FifoSize    \* codes the keyboard holds

ShiftKeys == {"left", "right"}

ASSUME KeyboardAssumption ==
  /\ FifoSize \in Nat \ {0}
  /\ Keys \cap ShiftKeys = {}
  /\ \A table \in {Plain, Shifted, Printed} : DOMAIN table = Keys

VARIABLES
  held,      \* the shift keys the user holds down
  fifo,      \* the codes in the keyboard
  inStep,    \* whether the last code of a shift key got into fifo and was right
             \* about held, which a pair of keys, or the codes E0 2A and E0 AA
             \* around other keys, may prevent
  shift,     \* the driver's flag
  reading,   \* whether keyboard_getc runs
  got        \* the character it returned last

keyboardVars == <<held, fifo, inStep, shift, reading, got>>

KeyboardInit ==
  /\ held = {}
  /\ fifo = <<>>
  /\ inStep = TRUE
  /\ shift = FALSE
  /\ reading = FALSE
  /\ got = NoChar

\* A code says which key went down or up.  With it comes what the driver cannot
\* see: the character the user meant, and whether the keyboard was in step.
Code(k, down, means) == [key |-> k, down |-> down, means |-> means, sure |-> inStep]

\* What a user means by a key: keys with one character mean it with shift too.
Meant(k) == IF held # {} /\ Printed[k] # NoChar THEN Printed[k] ELSE Plain[k]

-----------------------------------------------------------------------------
(* The user *)

NotFull == Len(fifo) < FifoSize

\* A code that comes while the keyboard is full is lost.
Send(code) == fifo' = IF NotFull THEN Append(fifo, code) ELSE fifo

\* A key goes down; the prefix E0 of a key with two codes is like a release.
Press(k) ==
  /\ Send(Code(k, TRUE, Meant(k)))
  /\ UNCHANGED <<held, inStep, shift, reading, got>>

Release(k) ==
  /\ Send(Code(k, FALSE, NoChar))
  /\ UNCHANGED <<held, inStep, shift, reading, got>>

\* A code of a shift key is sent.
SendShift(k, down) ==
  /\ Send(Code(k, down, NoChar))
  /\ inStep' = (NotFull /\ down = (held' # {}))

PressShift(k) ==
  /\ k \notin held
  /\ held' = held \cup {k}
  /\ SendShift(k, TRUE)
  /\ UNCHANGED <<shift, reading, got>>

ReleaseShift(k) ==
  /\ k \in held
  /\ held' = held \ {k}
  /\ SendShift(k, FALSE)
  /\ UNCHANGED <<shift, reading, got>>

\* The codes of a shift key that a keyboard puts around those of a cursor key or
\* of Print Screen.
Pretend(down) ==
  /\ held' = held
  /\ SendShift("left", down)
  /\ UNCHANGED <<shift, reading, got>>

User ==
  \/ \E k \in Keys : Press(k) \/ Release(k)
  \/ \E k \in ShiftKeys : PressShift(k) \/ ReleaseShift(k)
  \/ \E down \in BOOLEAN : Pretend(down)

-----------------------------------------------------------------------------
(* The driver *)

\* A program reads: the call polls until it has a character.
Call ==
  /\ ~reading
  /\ reading' = TRUE
  /\ UNCHANGED <<held, fifo, inStep, shift, got>>

\* Mutant: the release of one of the shift keys is taken for that of any key.
IsShiftLeft(c) == c.key = "left" \/ (c.key = "right" /\ c.down)

\* The codes that set the flag: 2A, 36, AA and B6.
IsShift(c) == c.key \in ShiftKeys

\* The character of the key that went down.
Char(c) == IF shift THEN Shifted[c.key] ELSE Plain[c.key]

\* Mutant: a key types when it goes up.
IsTextLate(c) == ~IsShift(c) /\ ~c.down /\ Char(c) # NoChar

\* A code that has a character.
IsText(c) == ~IsShift(c) /\ c.down /\ Char(c) # NoChar

\* The next code is read.
Consume == reading /\ fifo # <<>> /\ fifo' = Tail(fifo)

TakeShift ==
  /\ Consume
  /\ IsShift(Head(fifo))
  /\ shift' = Head(fifo).down
  /\ UNCHANGED <<held, inStep, reading, got>>

\* Releases, and keys without a character, are passed over.
Skip ==
  /\ Consume
  /\ ~IsShift(Head(fifo)) /\ ~IsText(Head(fifo))
  /\ UNCHANGED <<held, inStep, shift, reading, got>>

\* keyboard_getc returns.
TakeText ==
  /\ Consume
  /\ IsText(Head(fifo))
  /\ got' = Char(Head(fifo))
  /\ reading' = FALSE
  /\ UNCHANGED <<held, inStep, shift>>

Getc == TakeShift \/ Skip \/ TakeText

KeyboardNext == User \/ Call \/ Getc

\* The driver polls for as long as it takes.
KeyboardSpec == KeyboardInit /\ [][KeyboardNext]_keyboardVars /\ WF_keyboardVars(Getc)

-----------------------------------------------------------------------------
(* Properties *)

Single == {k \in Keys : Printed[k] = NoChar}

\* However much later than it was typed a code is read, and whatever was lost
\* before shift was last pressed or released, a program gets the character the
\* user meant.  The exception is known: a key with one character, like space or
\* Enter, types nothing while shift is held.
TypesWhatIsMeant ==
  [][Len(fifo') < Len(fifo) /\ Head(fifo).sure /\ Head(fifo).means # NoChar =>
       IF shift /\ Head(fifo).key \in Single
         THEN reading' /\ UNCHANGED got
         ELSE ~reading' /\ got' = Head(fifo).means]_keyboardVars

Waiting == {c \in ToSet(fifo) : c.down /\ c.key \in Keys \ Single}

\* A program that reads gets its character when a key with two was pressed,
\* whatever other codes the keyboard holds and sends.
Delivers ==
  (reading /\ \E c \in Waiting : Plain[c.key] # NoChar) ~> ~reading
=============================================================================
