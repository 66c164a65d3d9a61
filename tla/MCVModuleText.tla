--------------------------- MODULE MCVModuleText ---------------------------
(***************************************************************************)
(* Bounded inputs for VModuleText. A behaviour grows one input, a          *)
(* character or a flag entry at a time; the invariants compare what the    *)
(* functions make of it with independent definitions.                      *)
(***************************************************************************)
EXTENDS Naturals, Sequences, SequencesExt, VModuleText

CONSTANTS PatternChars,   \* characters of a module pattern
          NameChars,      \* characters of the string matched against it
          MaxPattern, MaxName, MaxEntries

\* A module name has no directory and no dot, and does not end in "-inl".
ASSUME NameAssumption == /\ {"/", "."} \cap NameChars = {}
                         /\ ~({"-", "i", "n", "l"} \subseteq NameChars)

VARIABLES pattern, matched, flag

vmoduleVars == <<pattern, matched, flag>>

(* What may stand before and after the '=' of a flag entry. *)
EntryPatterns == {<<"a">>, <<"g", "*">>, <<>>}

EntryLevels == {<<"3">>, <<"-", "1">>, <<"1", "0">>, <<>>, <<"x">>, <<"2", "x">>}

LevelOf(text) == CASE text = <<"3">> -> 3
                   [] text = <<"-", "1">> -> 0 - 1
                   [] text = <<"1", "0">> -> 10
                   [] text = <<"2", "x">> -> 2
                   [] OTHER -> 0

VModuleInit == pattern = <<>> /\ matched = <<>> /\ flag = <<>>

GrowPattern == /\ Len(pattern) < MaxPattern /\ flag = <<>>
               /\ \E c \in PatternChars : pattern' = Append(pattern, c)
               /\ UNCHANGED <<matched, flag>>

GrowString == /\ Len(matched) < MaxName /\ flag = <<>>
              /\ \E c \in NameChars : matched' = Append(matched, c)
              /\ UNCHANGED <<pattern, flag>>

GrowFlag == /\ Len(flag) < MaxEntries
            /\ pattern = <<>> /\ matched = <<>>
            /\ \E p \in EntryPatterns, l \in EntryLevels :
                 flag' = Append(flag, [pattern |-> p, level |-> l])
            /\ UNCHANGED <<pattern, matched>>

VModuleNext == GrowPattern \/ GrowString \/ GrowFlag

----------------------------------------------------------------------------
(* The meaning of a glob: the string can be cut into one piece for each    *)
(* character of the pattern, any piece for '*', one character for '?', the *)
(* character itself otherwise. cut[i] is where the i-th piece ends.        *)
Glob(p, s) ==
  \E cut \in [0..Len(p) -> 0..Len(s)] :
    /\ cut[0] = 0 /\ cut[Len(p)] = Len(s)
    /\ \A i \in 1..Len(p) :
         IF p[i] = "*" THEN cut[i - 1] <= cut[i]
         ELSE /\ cut[i] = cut[i - 1] + 1
              /\ p[i] \in {"?", s[cut[i]]}

StarRun(p) == \E i \in 1..(Len(p) - 1) : p[i] = "*" /\ p[i + 1] = "*"

(* The files of one module: in any directory, also one with a dot, and     *)
(* with any suffix from the first dot on, "-inl" before it included.       *)
Directories == {<<>>, <<"a", "/">>, <<"/", "a", ".", "a", "/">>}

FileEndings == {<<>>, <<".", "c", "c">>, <<".", "p", ".", "h">>,
             <<"-", "i", "n", "l", ".", "h">>}

Files(module) == {dir \o module \o suffix : dir \in Directories, suffix \in FileEndings}

(* A pattern governs the files of the modules it describes                 *)
(* (googlelog/logging.h.in:273) and no others: the module name is cut out  *)
(* of every path, SafeFNMatch_ accepts no name outside the glob's language *)
(* whatever stars pattern and name hold, and misses none, where the        *)
(* pattern has no two stars in a row and the name none: its loop that      *)
(* stops short of the empty rest, and its greedy single-character case,    *)
(* lose nothing there.                                                     *)
PatternGoverns ==
  /\ \A file \in Files(matched) : BaseName(file) = matched
  /\ SafeFNMatch(pattern, matched) => Glob(pattern, matched)
  /\ Glob(pattern, matched) =>
       \/ SafeFNMatch(pattern, matched)
       \/ StarRun(pattern) \/ Contains(matched, "*")

(* A flag's text from its k-th entry on, and the entries from there on     *)
(* that have a number.                                                     *)
RenderedFrom ==
  LET n == Len(flag)
      text[k \in 0..n] ==
        IF k = n THEN <<>>
        ELSE flag[k + 1].pattern \o (<<"=">> \o (flag[k + 1].level \o
               IF k + 1 = n THEN <<>> ELSE <<Comma>> \o text[k + 1]))
  IN text

Readable(e) == e.level \notin {<<>>, <<"x">>}

ReadableFrom ==
  LET n == Len(flag)
      list[k \in 0..n] ==
        IF k = n THEN <<>>
        ELSE (IF Readable(flag[k + 1])
              THEN <<[module_pattern |-> flag[k + 1].pattern,
                      vlog_level |-> LevelOf(flag[k + 1].level)]>>
              ELSE <<>>) \o list[k + 1]
  IN list

(* The flag parser recovers from entries it cannot read: whatever follows  *)
(* the '=' of one entry, exactly the entries with a number make it into    *)
(* the list, in order, each with its own pattern and number.               *)
FlagEntriesRecovered == ParseVmodule(RenderedFrom[0]) = ReadableFrom[0]

============================================================================
