---------------------------- MODULE VModuleText ----------------------------
(***************************************************************************)
(* The text functions behind --vmodule (src/vlog_is_on.cc): the glob       *)
(* matcher, the parser of the flag, and the module name of a source file.  *)
(* A text is a sequence of characters; a character is a one-letter string. *)
(* Everything here is a pure function; the recursion of the code is written*)
(* with recursive functions, so that modules with proofs may use it.       *)
(***************************************************************************)
EXTENDS Integers, Sequences, SequencesExt, Numerals

----------------------------------------------------------------------------
(* The C library, as the code uses it; 0 stands for a null result. *)

strchr(text, c) == SelectInSeq(text, LAMBDA x : x = c)

strrchr(text, c) == SelectLastInSeq(text, LAMBDA x : x = c)

From(text, i) == SubSeq(text, i, Len(text))

Signed(text) == text # <<>> /\ text[1] \in {"-", "+"}

LeadingDigits(text) ==
  LET stop == SelectInSeq(text, LAMBDA x : ~IsDigit(x))
  IN IF stop = 0 THEN text ELSE SubSeq(text, 1, stop - 1)

\* sscanf("%d"): the set of the one number read, empty when none is there.
\* White space before the number and numbers beyond an int are left out.
ScanInt(text) ==
  LET digits == LeadingDigits(IF Signed(text) THEN From(text, 2) ELSE text)
  IN IF digits = <<>> THEN {}
     ELSE {IF Signed(text) /\ text[1] = "-" THEN 0 - DecimalValue(digits) ELSE DecimalValue(digits)}

----------------------------------------------------------------------------
(* The matcher. m[p][s] is the answer of the loop with p characters of the *)
(* pattern and s characters of the string consumed.                        *)

\* The answer when the string is used up and the pattern is not.
OnlyStarLeft(pattern, p) == p + 1 = Len(pattern) /\ pattern[p + 1] = "*"

\* Where in a string of S characters the pattern behind a '*' is tried:
\* on every non-empty rest.
MutStarTakesOne(s, S) == (s + 1)..(S - 1)

StarStops(s, S) == s..(S - 1)

SafeFNMatch(pattern, str) ==
  LET P == Len(pattern)
      S == Len(str)
      m[p \in 0..P] == [s \in 0..S |->
        \/ p = P /\ s = S
        \/ p < P /\ s = S /\ OnlyStarLeft(pattern, p)
        \/ /\ p < P /\ s < S
           /\ IF pattern[p + 1] \in {str[s + 1], "?"} THEN m[p + 1][s + 1]
              ELSE /\ pattern[p + 1] = "*"
                   /\ p + 1 = P \/ \E r \in StarStops(s, S) : m[p + 1][r]]
  IN m[0][0]

----------------------------------------------------------------------------
(* VLOG2Initializer's loop over the flag's text. entries[i] is what it     *)
(* makes of the text behind its first i characters: the part before the    *)
(* next '=' is a pattern, dropped when no number follows the '='; the next *)
(* entry starts after the first ',' behind that '='.                       *)

Comma == ","

\* The text behind an entry's '=' gives at most one level.
MutMissingLevelIsZero(text) == IF ScanInt(text) = {} THEN {0} ELSE ScanInt(text)

EntryLevel(text) == ScanInt(text)

ParseVmodule(text) ==
  LET entries[i \in 0..Len(text)] ==
        LET rest == From(text, i + 1)
            sep == strchr(rest, "=")
            levels == EntryLevel(From(rest, sep + 1))
            comma == strchr(From(rest, sep), Comma)
        IN IF sep = 0 THEN <<>>
           ELSE SetToSeq({[module_pattern |-> SubSeq(rest, 1, sep - 1),
                           vlog_level |-> v] : v \in levels})
                \o IF comma = 0 THEN <<>> ELSE entries[i + sep - 1 + comma]
  IN entries[0]

----------------------------------------------------------------------------
(* InitVLOG3__'s module name of a source file: no directory, nothing from  *)
(* the first '.' on, no trailing "-inl".                                   *)

TrimInl(base) ==
  IF IsSuffix(<<"-", "i", "n", "l">>, base)
    THEN SubSeq(base, 1, Len(base) - 4) ELSE base

BaseEnd(base) == strchr(base, ".")

BaseName(fname) ==
  LET base == From(fname, strrchr(fname, "/") + 1)
      dot == BaseEnd(base)
  IN TrimInl(IF dot = 0 THEN base ELSE SubSeq(base, 1, dot - 1))

============================================================================
