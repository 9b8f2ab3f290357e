------------------------------- MODULE Stdio -------------------------------
(***************************************************************************)
(* Formatted output (lib/ebl/stdio.cc) and the console below it: formats   *)
(* as sequences of characters and directives, num() with its padding, and  *)
(* the buffers of the two buffered streams, which lie one after the other  *)
(* in memory.                                                              *)
(***************************************************************************)
EXTENDS Integers, SequencesExt

CONSTANTS BufferSize,  \* of a stream's buffer: 512
          LongBits, IntBits, ShortBits,
          MaxOutput,   \* bound: characters written
          Formats,     \* the formats that callers use
          Directives   \* the directives that are tried one by one

VARIABLES cells,    \* both buffers, and two cells of whatever lies behind them
          cursor,   \* stream_buffer: where each stream writes next
          console,  \* what each stream has sent to the console
          written,  \* history: what callers wrote to each stream
          tried     \* a directive and what became of it

stdioVars == <<cells, cursor, console, written, tried>>

Streams == {"out", "log", "err"}
Buffered == {"out", "log"}
Start(s) == IF s = "out" THEN 0 ELSE BufferSize

\* Characters: the digits are their values.
Nul == -1
Foreign == -2  \* in a cell that belongs to something else
Space == 16
Minus == 17
Plus == 18
LetterX == 19
NewLine == 20

-----------------------------------------------------------------------------
Wrap(n, bits) == n % 2^bits
Signed(n, bits) == LET w == Wrap(n, bits) IN IF w >= 2^(bits - 1) THEN w - 2^bits ELSE w

\* The argument that the directive reads, by its length; arg is what its slot
\* holds.  %d without a length reads a long.
Argument(d) ==
  IF d.conv = "d"
  THEN IF d.length = "h" THEN Signed(d.arg, ShortBits) ELSE Signed(d.arg, LongBits)
  ELSE Signed(Wrap(d.arg, CASE d.length = "l" \/ d.conv = "p" -> LongBits
                            [] d.length = "h" -> ShortBits
                            [] OTHER -> IntBits), LongBits)

\* What the caller passed: without a length that is an int, and the other half
\* of its slot holds anything.
Passed(d) == IF d.conv = "d" /\ d.length = "" THEN Signed(d.arg, IntBits) ELSE Argument(d)

Base(conv) == CASE conv \in {"x", "X", "p"} -> 16 [] conv = "o" -> 8 [] OTHER -> 10

\* The digits of n, the highest first; none for 0.
Digits(n, base) ==
  LET digits[k \in 0..n] == IF k = 0 THEN <<>> ELSE Append(digits[k \div base], k % base)
  IN digits[n]

Fill(c, len) == [i \in 1..len |-> c]

\* Mutant: the sign of a negative number is not counted for the padding.
num_unsigned_width(v, base, flags, width, precision) ==
  LET n == Wrap(IF v < 0 /\ "SIGNED" \in flags THEN -v ELSE v, LongBits)
      digits == IF v = 0 THEN <<0>> ELSE Digits(n, base)
      sign == IF v < 0 /\ "SIGNED" \in flags THEN <<Minus>> ELSE <<>>
      pad == Max({0, width - Len(digits)})
  IN Fill(Space, pad) \o sign \o digits

\* A number as it is written.  A precision adds that many zeroes.
num(v, base, flags, width, precision) ==
  LET n == Wrap(IF v < 0 /\ "SIGNED" \in flags THEN -v ELSE v, LongBits)
      digits == IF v = 0 THEN <<0>> ELSE Digits(n, base)
      prefix == IF "PREFIX" \notin flags THEN <<>>
                ELSE IF base = 16 THEN <<0, LetterX>> ELSE IF base = 8 THEN <<0>> ELSE <<>>
      sign == IF v >= 0 /\ "SPLUS" \in flags THEN <<Space>>
              ELSE IF v >= 0 /\ "FPLUS" \in flags THEN <<Plus>>
              ELSE IF v < 0 /\ "SIGNED" \in flags THEN <<Minus>> ELSE <<>>
      counted == IF "SIGNED" \in flags THEN Len(sign) ELSE 0
      pad == Max({0, width - Len(digits) - Len(prefix) - counted})
      spaces == IF "ZEROPAD" \in flags THEN <<>> ELSE Fill(Space, pad)
      zeroes == IF "ZEROPAD" \in flags THEN Fill(0, pad) ELSE <<>>
  IN (IF "LEFT" \in flags THEN <<>> ELSE spaces)
       \o sign \o prefix \o Fill(0, Max({0, precision})) \o zeroes \o digits
       \o (IF "LEFT" \in flags THEN spaces ELSE <<>>)

\* %s and %c.
Padded(text, flags, width) ==
  LET pad == Fill(Space, Max({0, width - Len(text)}))
  IN IF "LEFT" \in flags THEN text \o pad ELSE pad \o text

\* A negative width from an argument asks for the left side.
Flags(d) == d.flags \cup (IF d.width < -1 THEN {"LEFT"} ELSE {})
            \cup (IF d.conv = "d" THEN {"SIGNED"} ELSE {})
Width(d) == IF d.width < -1 THEN -d.width ELSE d.width

Directive(d) ==
  CASE d.conv = "s" -> Padded(d.text, Flags(d), Width(d))
    [] d.conv = "%" -> d.text
    [] d.conv = "n" -> <<>>
    [] d.conv = "p" /\ d.width = -1 -> num(Argument(d), 16, Flags(d) \cup {"ZEROPAD"}, 8, d.precision)
    [] OTHER -> num(Argument(d), Base(d.conv), Flags(d), Width(d), d.precision)

\* The characters of a format.  It ends at a directive that is not known.
ssprintf(format) ==
  FoldLeft(LAMBDA out, d :
             IF ~out.ok THEN out
             ELSE IF d.conv = "bad" THEN [out EXCEPT !.ok = FALSE]
             ELSE [out EXCEPT !.text = @ \o (IF d.conv = "char" THEN d.text ELSE Directive(d))],
           [text |-> <<>>, ok |-> TRUE], format)

-----------------------------------------------------------------------------
\* Streams as records [cells, cursor, console].  A flush ends the text with a
\* Nul and sends it; "out" sends at most a buffer, "log" all up to the Nul.
FirstNul(c, from, limit) == Min({limit} \cup {k \in from..limit - 1 : c[k] = Nul})
Sent(c, s) ==
  LET end == FirstNul(c, Start(s), IF s = "out" THEN BufferSize ELSE 2 * BufferSize + 2)
  IN [i \in 1..end - Start(s) |-> c[Start(s) + i - 1]]

\* Mutant: the text is not ended.
fflush_open(st, s) ==
  [st EXCEPT !.console[s] = @ \o Sent(st.cells, s), !.cursor[s] = Start(s)]

fflush(st, s) ==
  LET ended == [st.cells EXCEPT ![st.cursor[s]] = Nul]
  IN [st EXCEPT !.cells = ended, !.console[s] = @ \o Sent(ended, s), !.cursor[s] = Start(s)]

\* A character goes to a stream.  A full buffer is flushed one character late.
stream_put(st, s, c) ==
  IF s = "err" THEN [st EXCEPT !.console[s] = Append(@, c)]
  ELSE LET put == [st EXCEPT !.cells[st.cursor[s]] = c, !.cursor[s] = @ + 1]
       IN IF c = NewLine \/ put.cursor[s] - Start(s) > BufferSize THEN fflush(put, s) ELSE put

StdioInit ==
  /\ cells = [k \in 0..2 * BufferSize + 1 |-> IF k < 2 * BufferSize THEN Nul ELSE Foreign] /\ cursor = [s \in Buffered |-> Start(s)]
  /\ console = [s \in Streams |-> <<>>] /\ written = [s \in Streams |-> <<>>]
  /\ tried = <<>>

\* kout, klog and kerr.
Write(s, format) ==
  LET text == ssprintf(format).text
      st == FoldLeft(LAMBDA x, c : stream_put(x, s, c),
                     [cells |-> cells, cursor |-> cursor, console |-> console], text)
  IN /\ Len(written["out"]) + Len(written["log"]) + Len(written["err"]) + Len(text) <= MaxOutput
     /\ cells' = st.cells /\ cursor' = st.cursor /\ console' = st.console
     /\ written' = [written EXCEPT ![s] = @ \o text]
     /\ UNCHANGED tried

\* sprintf of one directive into a buffer of the caller's.
Try(d) ==
  /\ tried' = <<d, ssprintf(<<d>>)>>
  /\ UNCHANGED <<cells, cursor, console, written>>

StdioNext ==
  /\ tried = <<>>
  /\ \/ \E s \in Streams, format \in Formats : Write(s, format)
     \/ written = [s \in Streams |-> <<>>] /\ \E d \in Directives : Try(d)

-----------------------------------------------------------------------------
\* The lines of a text, the last one without its end.
LineStarts(text) == {1} \cup {i + 1 : i \in {k \in DOMAIN text : text[k] = NewLine}}
LineLength(text, from) == Min({Len(text)} \cup {k \in from..Len(text) : text[k] = NewLine}) - from + 1

\* No line of a stream fills its buffer.
Short(s) == \A i \in LineStarts(written[s]) : LineLength(written[s], i) < BufferSize

\* Every character is on the console or waits in the buffer, in order.
Kept(s) == console[s] \o [i \in 1..cursor[s] - Start(s) |-> cells[Start(s) + i - 1]] = written[s]

\* Every stream keeps all its characters in order, between what is on the
\* console and what waits in its buffer, however calls on the streams
\* alternate, and with short lines nothing behind the buffers is written.  A
\* line on "out" that fills its buffer puts the end mark and then a character
\* in the buffer of "log", and one on "log" puts them in what lies behind
\* (stdio.cc:294-304).
StreamsKept ==
  /\ console["err"] = written["err"]
  /\ Short("out") => Kept("out")
  /\ Short("out") /\ Short("log") =>
       Kept("log") /\ \A k \in {2 * BufferSize, 2 * BufferSize + 1} : cells[k] = Foreign

\* A number can be read back from what num() wrote: one sign, prefix, digits,
\* with the value that the caller passed, over the whole range of its length,
\* and the padding fills the width and no more (stdio.cc:35-94, 187-221).  A
\* "+" or " " flag on an unsigned conversion is not counted for the width, and
\* precision and prefix add their zeroes to the digits.  Nothing is said of an
\* int under %d whose slot reads as another long, as a negative one may.
NumbersReadBack ==
  tried # <<>> /\ tried[1].conv \in {"d", "u", "o", "x", "X"} /\ Argument(tried[1]) = Passed(tried[1]) =>
    LET d == tried[1]
        text == tried[2].text
        digits == SelectSeq(text, LAMBDA c : c < 16)
        value == FoldLeft(LAMBDA x, c : x * Base(d.conv) + c, 0, digits)
        negative == \E i \in DOMAIN text : text[i] = Minus
        count(c) == Cardinality({i \in DOMAIN text : text[i] = c})
        extra == IF d.conv # "d" /\ d.flags \cap {"FPLUS", "SPLUS"} # {} /\ Passed(d) >= 0 THEN 1 ELSE 0
    IN /\ (IF negative THEN -value ELSE value) =
            (IF d.conv = "d" THEN Passed(d) ELSE Wrap(Passed(d), LongBits))
       /\ count(Minus) + count(Plus) <= 1 /\ count(LetterX) <= 1
       /\ Len(text) >= Width(d) + extra
       /\ (Len(text) > Width(d) + extra /\ d.precision < 1) =>
            /\ "SPLUS" \notin d.flags => count(Space) = 0
            /\ value # 0 /\ "PREFIX" \notin d.flags => digits[1] # 0
=============================================================================
