----------------------------- MODULE MCDemangle -----------------------------
(***************************************************************************)
(* Bounded inputs for Demangle. A behaviour either grows a C++ entity, one *)
(* scope at a time, whose mangled name and whose printed name are known,   *)
(* or grows an arbitrary text, a character at a time, after an opening     *)
(* that gets the parser deep into the grammar.                             *)
(***************************************************************************)
EXTENDS Integers, Sequences, FiniteSets, Functions, Demangle

CONSTANTS Openings,    \* the texts an arbitrary input starts with
          Alphabet,    \* the characters it is continued with
          MaxTail,     \* at most this many of them
          MaxScopes    \* components of an entity's qualified name

(* No number of a text is negative: after an "n" no digit follows. *)
ASSUME InputsAssumption ==
  /\ \A o \in Openings : o \in Seq(STRING) /\ "n" \notin Range(o)
  /\ Alphabet \subseteq STRING /\ "n" \notin Alphabet
  /\ Text("ab") \in Seq(STRING)

VARIABLES opening,     \* empty when the demangler is not tried at all
          tail, scopes

demangleVars == <<opening, tail, scopes>>

input == opening \o tail

(* More bytes than any demangled text of these bounds needs. *)
Ample == 200

----------------------------------------------------------------------------
(* The components of a qualified name: how the ABI encodes each one, how   *)
(* the demangler is meant to print it, and the class name a constructor    *)
(* that follows it repeats ("" where none can follow).                     *)
Component(code, print, class) == [code |-> code, print |-> print, class |-> class]

Containers ==
  {Component("1a", "a", "a"), Component("2bc", "bc", "bc"),
   Component("1aB1xB2yz", "a", "a"),
   Component("1aIiE", "a<>", "a"), Component("1aIN2bc1dEE", "a<>", "a"),
   Component("12_GLOBAL__N_1", "(anonymous namespace)", "")}

(* What only the first component may be. *)
Roots == {Component("St", "std", ""), Component("Ss", "std::string", "string"),
          Component("SbIcE", "std::basic_string<>", "basic_string"),
          Component("S_", "?", ""), Component("T0_", "?", "")}

(* What only the last component may be. *)
Leaves == {Component("pl", "operator+", ""), Component("nw", "operator new", ""),
           Component("lsIcE", "operator<< <>", ""), Component("cvPKc", "operator char", ""),
           Component("1fILi3EXplT_Lb1EEJiEE", "f<>", ""),
           Component("L1e", "e", ""), Component("C1", "", "C"), Component("D0", "~", "D")}

IsCtorDtor(c) == c.class \in {"C", "D"} /\ c.code \in {"C1", "D0"}

(* A function's parameters follow its name; data have none. *)
Signatures == {"", "v", "PFvRKN1a2bcEE", "A3_i", "M1aSt1x", "1xIiE"}

DemangleInit == /\ opening \in Openings \cup {<<>>} /\ tail = <<>> /\ scopes = <<>>

GrowTail == /\ opening # <<>> /\ Len(tail) < MaxTail /\ scopes = <<>>
            /\ \E c \in Alphabet : tail' = Append(tail, c)
            /\ UNCHANGED <<opening, scopes>>

GrowScopes ==
  /\ opening = CHOOSE o \in Openings : TRUE
  /\ tail = <<>> /\ Len(scopes) < MaxScopes
  /\ scopes # <<>> => scopes[Len(scopes)] \notin Leaves
  /\ \E c \in Containers \cup Leaves \cup (IF scopes = <<>> THEN Roots ELSE {}) :
       /\ IsCtorDtor(c) => scopes # <<>> /\ scopes[Len(scopes)].class # ""
       /\ scopes' = scopes \o <<c>>
  /\ UNCHANGED <<opening, tail>>

DemangleNext == GrowTail \/ GrowScopes

----------------------------------------------------------------------------
PrintComponent(q, i) ==
  IF IsCtorDtor(q[i]) THEN q[i].print \o q[i - 1].class ELSE q[i].print

PrintName(q) ==
  LET upto[n \in 1..Len(q)] ==
        IF n = 1 THEN PrintComponent(q, 1)
                 ELSE upto[n - 1] \o "::" \o PrintComponent(q, n)
  IN  upto[Len(q)]

MangleName(q) ==
  LET codes[n \in 0..Len(q)] == IF n = 0 THEN "" ELSE codes[n - 1] \o q[n].code
  IN  CASE Len(q) = 1 -> q[1].code
        [] Len(q) = 2 /\ q[1].code = "St" -> codes[2]
        [] OTHER -> "N" \o codes[Len(q)] \o "E"

PrintEntity(q, sig) == PrintName(q) \o (IF sig = "" THEN "" ELSE "()")

(* The entity grown so far; a root alone names none. *)
Entities == {q \in {scopes} : q # <<>> /\ q[Len(q)] \notin Roots}

(* What Demangle makes of a text, when there is room. *)
Result(mangled) == Demangle(Text(mangled), Ample)

Success(print) == [ok |-> TRUE, out |-> Text(print)]

(* What may follow a symbol of the given printed form. *)
SuffixesHandled(mangled, print) ==
  /\ \A clone \in {".ab.1", ".a.12.B.3"} : Result(mangled \o clone) = Success(print)
  /\ Result(mangled \o "@@A_1.2") = Success(print \o "@@A_1.2")
  /\ \A wrong \in {".a", ".a.b", ".1.1", ".a.1x", ".a.1.b", "..1"} :
       ~Result(mangled \o wrong).ok

(* Demangling inverts mangling: the name of every entity built from these  *)
(* components, with every signature, as a data member, in a local scope    *)
(* and behind a special name, is printed with its scopes joined by "::",   *)
(* its constructors and destructors under the name of the class right      *)
(* before them, and its template arguments and parameters left out. The    *)
(* clone suffixes a toolchain adds to it disappear, however many, a        *)
(* version suffix is kept, and any other makes the whole name fail.        *)
DemangleInverts ==
  \A q \in Entities, sig \in Signatures :
    LET code  == MangleName(q) \o sig
        print == PrintEntity(q, sig)
    IN  \A case \in {<<"_Z" \o code, print>>} \cup
                    (IF sig # "v" THEN {} ELSE
                     {<<"_ZZ" \o code \o "E1x_0", print \o "::x">>,
                      <<"_ZZ" \o code \o "EN1xC1Ev", print \o "::x::x()">>,
                      <<"_ZThn8_" \o code, print>>}) :
          /\ Result(case[1]) = Success(case[2])
          /\ Len(q) = 1 => SuffixesHandled(case[1], case[2])

----------------------------------------------------------------------------
(* A parse in the middle of a name: the cursor past the opening, output    *)
(* already written, inside or outside a nested name, with the append mode  *)
(* on or off, in a buffer that is ample or nearly full.                    *)
Written(size) ==
  MaybeAppend([InitState(input, size) EXCEPT !.cur = Len(opening) + 1], Text("ab"))

Amid(size, nest_level, append) ==
  [Written(size) EXCEPT !.nest_level = nest_level, !.append = append]

Midway == {Amid(Ample, 1, TRUE), Amid(4, -1, TRUE), Amid(Ample, 0, FALSE)}

(* The productions that consume a first token before they fail. *)
EatsFirst == {"ParseMangledName", "ParseAbiTag", "ParseNVOffset"}

(* f, called in state s, has returned with r. *)
KeepsConvention(f, s, r) ==
  IF r.ok
  THEN /\ r.nest_level = s.nest_level /\ r.append = s.append
       /\ s.cur < r.cur /\ r.cur <= Len(input) + 1
  ELSE Succeed(r) = [s EXCEPT !.cur = IF f \in EatsFirst THEN r.cur ELSE @]

(* Every parsing function keeps its part of the convention the parser      *)
(* stands on. One that fails leaves output, overflow, nesting and append   *)
(* mode as they were ("Otherwise, don't change the state and returns       *)
(* false"), and the cursor too but for the three that do not save it, so   *)
(* that the next alternative starts from what the caller saw. One that     *)
(* succeeds has met every EnterNestedName with its LeaveNestedName and     *)
(* every DisableAppend with its RestoreAppend, has consumed something,     *)
(* which is why the loops end, and nothing past the end of the text.       *)
ParseConvention == opening # <<>> =>
  \A f \in DOMAIN Productions, s \in Midway : KeepsConvention(f, s, Parse(f, s))

(* r is the result with a buffer of that size, full with an ample one. *)
FullOrRefused(size, r, full) ==
  LET spare == IF "N" \in Range(input) THEN 2 ELSE 0
  IN  /\ r.out # <<>> => Len(r.out) < size
      /\ r.ok => r = full
      /\ full.ok /\ size > Len(full.out) + spare => r.ok

(* The buffer decides only between the full name and a refusal: with any   *)
(* size, what is written fits with its terminator, success means the same  *)
(* string an ample buffer gets, and the room of the string itself is       *)
(* enough, plus the two bytes of a "::" written and taken back at the end  *)
(* of a nested name. A text that does not demangle does so in no buffer.   *)
BufferAllOrNothing == opening # <<>> =>
  \A full \in {Demangle(input, Ample)} :
    \A size \in IF full.ok THEN 0..(Len(full.out) + 3) ELSE {1, 3} : FullOrRefused(size, Demangle(input, size), full)

=============================================================================
