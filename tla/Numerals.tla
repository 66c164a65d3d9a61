------------------------------ MODULE Numerals ------------------------------
(***************************************************************************)
(* Numerals, as sequences of one-character strings.                        *)
(***************************************************************************)
EXTENDS Integers, Sequences

Digits == <<"0", "1", "2", "3", "4", "5", "6", "7", "8", "9">>

HexDigits == <<"0", "1", "2", "3", "4", "5", "6", "7", "8", "9",
               "a", "b", "c", "d", "e", "f">>

IsDigit(c) == \E i \in DOMAIN Digits : Digits[i] = c

DigitValue(c) == (CHOOSE i \in DOMAIN Digits : Digits[i] = c) - 1

\* value[k] is the number that all but the last k digits make.
DecimalValue(digits) ==
  LET n == Len(digits)
      value[k \in 0..n] ==
        IF k = n THEN 0 ELSE 10 * value[k + 1] + DigitValue(digits[n - k])
  IN value[0]

=============================================================================
