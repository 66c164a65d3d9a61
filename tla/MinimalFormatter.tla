-------------------------- MODULE MinimalFormatter --------------------------
(***************************************************************************)
(* The MinimalFormatter of signalhandler.cc, which the signal handler uses *)
(* in place of printf, and the line of DumpStackFrameInfo. A formatter is  *)
(* the text written so far, a sequence of characters, with the size of its *)
(* buffer.                                                                 *)
(***************************************************************************)
EXTENDS Integers, Sequences, SequencesExt, Numerals

Blank == " "

Formatter(size) == [text |-> <<>>, size |-> size]

Room(f) == f.size - Len(f.text)

AppendString(f, str) ==
  LET n == IF Len(str) < Room(f) THEN Len(str) ELSE Room(f)
  IN [f EXCEPT !.text = @ \o SubSeq(str, 1, n)]

DigitOf(d) == HexDigits[d + 1]

\* Left as it was written, the least significant digit first.
MutNotReversed(digits) == digits

\* std::reverse
Reversed(digits) == Reverse(digits)

\* The digits from the least significant on, as many as there is room for:
\* written[k] is the state of the loop when there is room for k more.
AppendUint64(f, number, radix) ==
  LET written[k \in 0..Room(f)] ==
        IF k = Room(f) THEN [number |-> number, digits |-> <<>>]
        ELSE LET w == written[k + 1]
             IN IF w.number = 0 /\ w.digits # <<>> THEN w
                ELSE [number |-> w.number \div radix,
                      digits |-> Append(w.digits, DigitOf(w.number % radix))]
  IN [f EXCEPT !.text = @ \o Reversed(written[0].digits)]

Spaces(n) == [i \in 1..n |-> Blank]

\* "0x" and the number, moved to the right behind spaces: the end of the
\* buffer is not looked at any more.
AppendHexWithPadding(f, number, width) ==
  LET bare == AppendUint64(AppendString(f, <<"0", "x">>), number, 16)
      hex == SubSeq(bare.text, Len(f.text) + 1, Len(bare.text))
  IN IF Len(hex) >= width THEN bare
     ELSE [f EXCEPT !.text = @ \o Spaces(width - Len(hex)) \o hex]

\* buf has size bytes, width is 2 * sizeof(void*) + 2.
DumpStackFrameInfo(prefix, pc, symbol, size, width) ==
  LET pointer == AppendHexWithPadding(
                   AppendString(AppendString(Formatter(size), prefix), <<"@", Blank>>),
                   pc, width)
  IN AppendString(AppendString(AppendString(pointer, <<Blank>>), symbol), <<"\n">>).text

=============================================================================
