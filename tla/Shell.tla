-------------------------------- MODULE Shell --------------------------------
(***************************************************************************)
(* The user shell (src/src/userland/shell/main.c): the line editor, its    *)
(* echo on the screen of Console, and what each command is given of the    *)
(* line.  The line is a buffer that keeps what earlier lines left in it;   *)
(* strings end at the first NUL.  The commands without an argument differ  *)
(* only in what they print, and are one, "mem", but for "clear" and "exit".*)
(***************************************************************************)
EXTENDS Console, SequencesExt

CONSTANTS
  LineSize,   \* sizeof line: 128
  Inputs,     \* lines a user sets out to type, as sequences of characters
  Outputs     \* what commands and programs print

NUL  == "nul"
JUNK == "junk"    \* what an automatic array holds before it is written

Cells == 0 .. LineSize - 1
Chars == UNION {ToSet(s) : s \in Inputs}
Marks == UNION {ToSet(s) : s \in Outputs}

\* The buffer is longer than any word of a command.  A user types characters that
\* have a glyph, and tabs: Enter and backspace are actions of their own.
ASSUME ShellAssumption ==
  /\ LineSize \in Nat /\ LineSize > 7
  /\ Inputs # {}
  /\ Inputs \subseteq Seq(Chars) /\ Outputs \subseteq Seq(Marks)
  /\ Chars \cap {NL, CR, BS, NUL} = {}

VARIABLES
  line,       \* the buffer
  len,        \* characters of it in use
  pc,         \* "reading", at a "command", or "gone"
  goal,       \* the line the user types
  at,         \* characters of goal typed so far
  cursor,     \* cursor_x and cursor_y
  start,      \* where the cursor was after the prompt
  ink,        \* what was drawn since then, by place
  used,       \* the rows that have other ink
  did         \* the command under way: what it is, and the line as the user saw it

screen == <<cursor, start, ink, used>>
vars   == <<line, len, pc, goal, at, screen, did>>

\* The string that starts at cell n: up to a NUL, or the end of the buffer.
Text(buf, n) ==
  LET ends == {i \in n .. LineSize : i = LineSize \/ buf[i] = NUL}
      end  == CHOOSE i \in ends : \A j \in ends : i <= j
  IN  [i \in 1 .. end - n |-> buf[n + i - 1]]

\* strncmp(a, b, n) == 0 and strcmp(a, b) == 0, a being the line.
StrnEq(buf, word, n) == IsPrefix(SubSeq(word, 1, n), Text(buf, 0))
StrEq(buf, word)     == Text(buf, 0) = word

-----------------------------------------------------------------------------
(* Commands *)

MEM    == <<"m", "e", "m">>
CLEAR  == <<"c", "l", "e", "a", "r">>
EXIT   == <<"e", "x", "i", "t">>
ECHO   == <<"e", "c", "h", "o", " ">>
PRINTF == <<"p", "r", "i", "n", "t", "f", " ">>
RUN    == <<"r", "u", "n", " ">>
EXEC   == <<"e", "x", "e", "c", " ">>

Command(name, text) == [name |-> name, text |-> text]

NoCommand == [cmd |-> Command("none", <<>>), seen |-> FALSE, shown |-> <<>>]

\* Mutant: the argument of run starts with the space.
DispatchRunEarly(buf) ==
  CASE StrEq(buf, MEM)          -> Command("mem", <<>>)
    [] StrEq(buf, CLEAR)        -> Command("clear", <<>>)
    [] StrEq(buf, EXIT)         -> Command("exit", <<>>)
    [] StrnEq(buf, ECHO, 5)     -> Command("echo", Text(buf, 5))
    [] StrnEq(buf, PRINTF, 5)   -> Command("printf", Text(buf, 7))
    [] StrnEq(buf, RUN, 4)      -> Command("run", Text(buf, 3))
    [] StrnEq(buf, EXEC, 5)     -> Command("exec", Text(buf, 5))
    [] OTHER                    -> Command("not found", Text(buf, 0))

\* The chain of comparisons, whose words exclude each other; printf is compared
\* up to its fifth character.
Dispatch(buf) ==
  CASE StrEq(buf, MEM)          -> Command("mem", <<>>)
    [] StrEq(buf, CLEAR)        -> Command("clear", <<>>)
    [] StrEq(buf, EXIT)         -> Command("exit", <<>>)
    [] StrnEq(buf, ECHO, 5)     -> Command("echo", Text(buf, 5))
    [] StrnEq(buf, PRINTF, 5)   -> Command("printf", Text(buf, 7))
    [] StrnEq(buf, RUN, 4)      -> Command("run", Text(buf, 4))
    [] StrnEq(buf, EXEC, 5)     -> Command("exec", Text(buf, 5))
    [] OTHER                    -> Command("not found", Text(buf, 0))

-----------------------------------------------------------------------------
(* The screen *)

\* putchar(ch) at the prompt: a glyph is drawn over what is there, and a
\* backspace clears the place it goes back to.
Echo(ch) ==
  /\ cursor' = After(cursor, ch)
  /\ ink' = IF ch # BS THEN ink \cup {[at |-> cursor, ch |-> ch]}
            ELSE {i \in ink : ~CanErase(cursor) \/ i.at # cursor'}
  /\ used' = used \cup LeftRows(Path(cursor, <<ch>>))
  /\ UNCHANGED start

\* A text is printed, and the prompt.
Say(text) ==
  LET path == Path(cursor, text \o <<"$", " ">>) IN
  /\ cursor' = path[Len(text) + 2]
  /\ start' = cursor'
  /\ ink' = {}
  /\ used' = used \cup LeftRows(path) \cup BackRows(path)

\* render_clear, and the prompt.
Clear ==
  LET path == Path(Home, <<"$", " ">>) IN
  /\ cursor' = path[2]
  /\ start' = cursor'
  /\ ink' = {}
  /\ used' = LeftRows(path)

\* What the user reads behind the prompt.
Shown ==
  LET n == (cursor.x - start.x) \div Column
      place(k) == [x |-> start.x + (k - 1) * Column, y |-> start.y]
  IN  [k \in 1 .. n |-> {i.ch : i \in {j \in ink : j.at = place(k)}}]

\* The line is still on the row of its prompt, which had no other ink.
OnCleanRow == cursor.y = start.y /\ start.x <= cursor.x /\ start.y \notin used

-----------------------------------------------------------------------------
(* The line editor *)

Init ==
  /\ line = [i \in Cells |-> IF i = 0 THEN NUL ELSE JUNK]
  /\ len = 0
  /\ pc = "reading"
  /\ goal \in Inputs
  /\ at = 0
  /\ cursor = Path(Home, <<"$", " ">>)[2]
  /\ start = cursor
  /\ ink = {}
  /\ used = {}
  /\ did = NoCommand

\* Mutant: a character is taken as long as the buffer has a cell.
HasRoomForOneMore == len < LineSize

\* A cell is kept for the NUL.
HasRoom == len < LineSize - 1

\* A character is put in the line and echoed, or ignored when it is a control
\* character or the line is full.
Key ==
  /\ pc = "reading"
  /\ at < Len(goal)
  /\ at' = at + 1
  /\ IF goal[at + 1] # TAB /\ HasRoom
       THEN /\ line' = [line EXCEPT ![len] = goal[at + 1]]
            /\ len' = len + 1
            /\ Echo(goal[at + 1])
       ELSE UNCHANGED <<line, len, screen>>
  /\ UNCHANGED <<pc, goal, did>>

\* Backspace: the user goes back and types the character again.
Erase ==
  /\ pc = "reading"
  /\ at > 0
  /\ at' = at - 1
  /\ IF len > 0
       THEN /\ len' = len - 1
            /\ line' = [line EXCEPT ![len - 1] = NUL]
            /\ Echo(BS)
       ELSE UNCHANGED <<line, len, screen>>
  /\ UNCHANGED <<pc, goal, did>>

\* Mutant: the line is not terminated.
NotTerminated == line

\* The line as the commands get it.
Terminated == [line EXCEPT ![len] = NUL]

\* The next line is read into buf.
Read(buf) ==
  /\ line' = buf
  /\ len' = 0
  /\ goal' \in Inputs
  /\ at' = 0
  /\ pc' = "reading"
  /\ did' = NoCommand

EnterEmpty ==
  /\ pc = "reading"
  /\ len = 0
  /\ Read(Terminated)
  /\ Say(<<NL>>)

\* Enter: the chain of comparisons finds the command.
Enter ==
  /\ pc = "reading"
  /\ len > 0
  /\ did' = [cmd |-> Dispatch(Terminated), seen |-> OnCleanRow, shown |-> Shown]
  /\ line' = Terminated
  /\ pc' = "command"
  /\ UNCHANGED <<len, goal, at, screen>>

Obeyed == Read([line EXCEPT ![0] = NUL])

\* A command that only prints: a message, its argument and the end of the line,
\* or the argument alone.
Reply ==
  /\ pc = "command"
  /\ CASE did.cmd.name = "mem"       -> \E text \in Outputs : Say(<<NL>> \o text)
       [] did.cmd.name = "echo"      -> Say(<<NL>> \o did.cmd.text \o <<NL>>)
       [] did.cmd.name = "printf"    -> Say(<<NL>> \o did.cmd.text)
       [] did.cmd.name = "not found" -> Say(<<NL, ":">> \o did.cmd.text \o <<NL>>)
       [] did.cmd.name = "clear"     -> Clear
       [] OTHER                      -> FALSE
  /\ Obeyed

\* run: spawn has failed or the program has ended; exec returns when it fails.
BackFromProgram ==
  /\ pc = "command"
  /\ did.cmd.name \in {"run", "exec"}
  /\ \E text \in Outputs \cup {<<>>} : Say(<<NL>> \o text)
  /\ Obeyed

\* exec has replaced the shell, or exit has ended it.
Leave ==
  /\ pc = "command"
  /\ did.cmd.name \in {"exec", "exit"}
  /\ pc' = "gone"
  /\ UNCHANGED <<line, len, goal, at, screen, did>>

Gone ==
  /\ pc = "gone"
  /\ UNCHANGED vars

Next ==
  \/ Key \/ Erase \/ EnterEmpty \/ Enter
  \/ Reply \/ BackFromProgram \/ Leave \/ Gone

Spec == Init /\ [][Next]_vars

-----------------------------------------------------------------------------
(* Properties *)

Cursors == [x : Nat, y : Nat]

TypeOK ==
  /\ line \in [Cells -> Chars \cup {NUL, JUNK}]
  /\ len \in Cells
  /\ pc \in {"reading", "command", "gone"}
  /\ goal \in Inputs
  /\ at \in 0 .. Len(goal)
  /\ cursor \in Cursors /\ start \in Cursors
  /\ ink \subseteq [at : Cursors, ch : Chars]
  /\ used \subseteq Nat
  /\ did.cmd.name \in {"none", "mem", "clear", "exit", "echo", "printf", "run", "exec", "not found"}

Singletons(s) == [i \in DOMAIN s |-> {s[i]}]

\* Wherever the output before it ended, below the screen or past its right edge,
\* the prompt brings the cursor back: all that is typed is drawn on the screen.
TypesOnScreen ==
  pc = "reading" => Visible(cursor) /\ \A i \in ink : Visible(i.at)

\* As long as the line is on a row of its own, what the user reads behind the
\* prompt is what the commands will get: no character of it is drawn over another,
\* and nothing is left of earlier lines and of characters taken back, on the
\* screen or in the buffer.
SeesTheLine ==
  /\ TypeOK
  /\ pc = "reading" /\ OnCleanRow => Shown = Singletons(Text(Terminated, 0))

CommandWords == [echo |-> ECHO, printf |-> PRINTF, run |-> RUN, exec |-> EXEC]

\* A command that the user reads with its word and a space gets the rest of the
\* line as it was read, and runs as that command.
GetsItsArgument ==
  pc = "command" /\ did.seen =>
    \A w \in DOMAIN CommandWords :
      IsPrefix(Singletons(CommandWords[w]), did.shown) =>
        /\ did.cmd.name = w
        /\ Singletons(did.cmd.text)
             = SubSeq(did.shown, Len(CommandWords[w]) + 1, Len(did.shown))
=============================================================================
