------------------------------- MODULE Format -------------------------------
(***************************************************************************)
(* Formatted output and numbers of the C library: fmt_uint and vsnprintf   *)
(* (src/src/libc/stdio.c), atoi and strtol (src/src/libc/stdlib.c).  The   *)
(* text is put together in a buffer of its own, whose end is looked at     *)
(* between conversions and inside of %s, but not inside of the others: what *)
(* they write behind that end falls on the stack, and nothing more is known *)
(* of the call's result.  Digits are those of bases up to 16, in lower case. *)
(***************************************************************************)
EXTENDS Integers, Sequences, SequencesExt

CONSTANTS
  TmpSize,    \* sizeof tmp: 256
  MaxInt,     \* INT_MAX
  MaxOut,     \* bound: the largest n tried
  MaxPieces,  \* bound: pieces of a format tried
  Words,      \* strings to print
  Numbers,    \* numbers to print
  Ruin        \* what a call may return, [len, out], after it wrote past its buffer

\* The numbers are an int's; so is then what atoi makes of their digits on the way.
\* Larger ones are cut to 32 bits by the library and printed with 64 by the kernel.
ASSUME FormatAssumption ==
  /\ TmpSize \in Nat \ {0, 1} /\ MaxInt \in Nat
  /\ Numbers \subseteq -MaxInt .. MaxInt
  /\ \A w \in Words : w \in Seq(ToSet(w))

VARIABLE fmt    \* a format with its arguments, as a program puts it together

Digit == <<"0", "1", "2", "3", "4", "5", "6", "7", "8", "9", "a", "b", "c", "d", "e", "f">>

\* fmt_uint: the digits of v, without zeros in front.
Unsigned(v, base) ==
  LET more[m \in 0 .. v] ==
        IF m = 0 THEN <<>> ELSE Append(more[m \div base], Digit[(m % base) + 1])
  IN  IF v = 0 THEN <<"0">> ELSE more[v]

Signed(v) == IF v < 0 THEN <<"-">> \o Unsigned(-v, 10) ELSE Unsigned(v, 10)

Digits(base) == {Digit[d + 1] : d \in 0 .. base - 1}

ValueOf(ch) == CHOOSE d \in 0 .. 15 : Digit[d + 1] = ch

\* Where the digits of a text that begin at i end.
DigitsEnd(text, base, i) ==
  CHOOSE j \in i .. Len(text) + 1 :
    /\ \A k \in i .. j - 1 : text[k] \in Digits(base)
    /\ j <= Len(text) => text[j] \notin Digits(base)

\* Their value.
Number(text, base, i) ==
  LET end == DigitsEnd(text, base, i)
      upTo[j \in i .. end] ==
        IF j = i THEN 0 ELSE upTo[j - 1] * base + ValueOf(text[j - 1])
  IN  upTo[end]

Minus(text) == Len(text) > 0 /\ text[1] = "-"
Plus(text)  == Len(text) > 0 /\ text[1] = "+"

Atoi(text) == IF Minus(text) THEN -Number(text, 10, 2) ELSE Number(text, 10, 1)

Strtol(text, base) ==
  LET b == IF base = 0 THEN 10 ELSE base IN
  CASE Minus(text) -> -Number(text, b, 2)
    [] Plus(text)  -> Number(text, b, 2)
    [] OTHER       -> Number(text, b, 1)

-----------------------------------------------------------------------------
(* vsnprintf.  A format is a sequence of pieces: a character, or a conversion *)
(* with its argument.                                                         *)

Piece(kind, arg) == [kind |-> kind, arg |-> arg]

\* The first n characters of a text.
First(text, n) == IF Len(text) < n THEN text ELSE SubSeq(text, 1, n)

\* What a piece stands for; "null" is %s with a null pointer.
Rendered(p) ==
  CASE p.kind = "text"    -> <<p.arg>>
    [] p.kind = "%"       -> <<"%">>
    [] p.kind = "c"       -> <<p.arg>>
    [] p.kind = "s"       -> p.arg
    [] p.kind = "null"    -> <<"(", "n", "u", "l", "l", ")">>
    [] p.kind = "d"       -> Signed(p.arg)
    [] p.kind = "u"       -> Unsigned(p.arg, 10)
    [] p.kind = "x"       -> Unsigned(p.arg, 16)
    [] p.kind = "p"       -> <<"0", "x">> \o Unsigned(p.arg, 16)
    [] p.kind = "unknown" -> <<"%", p.arg>>

\* Mutant: %s does not look at the end of the buffer.
EmittedWhole(p, len) == Rendered(p)

\* What is written of it behind len characters: only %s stops at the end.
Emitted(p, len) ==
  IF p.kind \in {"s", "null"} THEN First(Rendered(p), TmpSize - 1 - len)
                              ELSE Rendered(p)

\* All that the loop writes, to tmp or, when nothing stops it there, past it.
Written(f) ==
  LET after[i \in 0 .. Len(f)] ==
        IF i = 0 THEN <<>>
        ELSE IF Len(after[i - 1]) < TmpSize - 1
               THEN after[i - 1] \o Emitted(f[i], Len(after[i - 1]))
               ELSE after[i - 1]
  IN  after[Len(f)]

\* A character, or the zero behind the last one, is written past the end of tmp.
Overruns(f) == Len(Written(f)) >= TmpSize

\* What a call may return.
Vsnprintf(f, n) ==
  IF Overruns(f)
  THEN Ruin
  ELSE {[len |-> Len(Written(f)), out |-> IF n = 0 THEN <<>> ELSE First(Written(f), n - 1)]}

\* What printf may write: it has a buffer of the same size, and writes all of it but
\* the end.
Printf(f) ==
  LET Sent(r) == IF r.len < TmpSize THEN r.len ELSE TmpSize - 1
  IN  {[i \in 1 .. Sent(r) |-> r.out[i]] : r \in Vsnprintf(f, TmpSize)}

-----------------------------------------------------------------------------
(* render_printf (src/src/kernel/renderer.c), the kernel's, has no buffer *)

\* render_uint: the digits, the last one first, and then backwards.
RenderUint(v, base) ==
  LET digits[m \in 0 .. v] ==
        IF m = 0 THEN <<>> ELSE <<Digit[(m % base) + 1]>> \o digits[m \div base]
  IN  IF v = 0 THEN <<"0">> ELSE Reverse(digits[v])

RenderInt(v) == IF v < 0 THEN <<"-">> \o RenderUint(-v, 10) ELSE RenderUint(v, 10)

\* It does not know %p, and prints nothing for a null pointer.
RenderPiece(p) ==
  CASE p.kind = "text" -> <<p.arg>>
    [] p.kind = "%"    -> <<"%">>
    [] p.kind = "c"    -> <<p.arg>>
    [] p.kind = "s"    -> p.arg
    [] p.kind = "null" -> <<>>
    [] p.kind = "d"    -> RenderInt(p.arg)
    [] p.kind = "u"    -> RenderUint(p.arg, 10)
    [] p.kind = "x"    -> RenderUint(p.arg, 16)
    [] OTHER           -> <<"%", IF p.kind = "p" THEN "p" ELSE p.arg>>

-----------------------------------------------------------------------------
(* A program *)

Pieces ==
  {Piece("text", "a"), Piece("%", ""), Piece("c", "b"), Piece("unknown", "z"),
   Piece("null", "")}
    \cup [kind : {"s"}, arg : Words]
    \cup [kind : {"d"}, arg : Numbers]
    \cup [kind : {"u", "x", "p"}, arg : Numbers \cap Nat]

FormatInit == fmt = <<>>

FormatNext ==
  /\ Len(fmt) < MaxPieces
  /\ \E p \in Pieces : fmt' = Append(fmt, p)

FormatSpec == FormatInit /\ [][FormatNext]_fmt

-----------------------------------------------------------------------------
(* Properties *)

\* A format without an end of the buffer.
Uncut(f) ==
  LET upTo[i \in 0 .. Len(f)] == IF i = 0 THEN <<>> ELSE upTo[i - 1] \o Rendered(f[i])
  IN  upTo[Len(f)]

Textual == {"text", "%", "c", "s", "null"}

\* A number that is printed is read back as it was.
ReadBack(p) ==
  LET text == Rendered(p) IN
  CASE p.kind = "d" -> Atoi(text) = p.arg /\ Strtol(text, 0) = p.arg
    [] p.kind = "u" -> Atoi(text) = p.arg /\ Strtol(<<"+">> \o text, 10) = p.arg
    [] p.kind = "x" -> Strtol(text, 16) = p.arg
    [] OTHER        -> TRUE

\* A format whose text fits in tmp does not overrun it, nor does one of characters
\* and strings alone, however long they are.  A call that does not overrun tmp prints
\* the text as far as tmp goes, and snprintf cuts it after n - 1 characters.  An
\* overrun is one conversion's, of a number, a pointer or an unknown letter, and
\* shorter than what that conversion prints; nothing is said of what such a call
\* returns.  Except for %p and null strings the kernel's printf prints the same, and
\* atoi and strtol read back the numbers.
PrintsWhatFits ==
  LET text == Uncut(fmt)
      cut  == First(text, TmpSize - 1)
  IN  /\ Len(text) < TmpSize => ~Overruns(fmt)
      /\ (\A i \in DOMAIN fmt : fmt[i].kind \in Textual) => ~Overruns(fmt)
      /\ ~Overruns(fmt) =>
           /\ Printf(fmt) = {cut}
           /\ \A n \in 1 .. MaxOut :
                Vsnprintf(fmt, n) = {[len |-> Len(cut), out |-> First(cut, n - 1)]}
      /\ Overruns(fmt) =>
           \E i \in DOMAIN fmt :
             /\ fmt[i].kind \notin Textual
             /\ Len(Written(fmt)) - (TmpSize - 1) < Len(Rendered(fmt[i]))
      /\ \A i \in DOMAIN fmt :
           /\ fmt[i].kind \notin {"p", "null"} => RenderPiece(fmt[i]) = Rendered(fmt[i])
           /\ ReadBack(fmt[i])
=============================================================================
