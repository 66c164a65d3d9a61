------------------------------ MODULE Demangle ------------------------------
(***************************************************************************)
(* The demangler of demangle.cc: a backtracking recursive-descent parser   *)
(* of Itanium C++ ABI names that writes what it recognises to a buffer of  *)
(* fixed size. Each parsing function of the code is a production here:     *)
(* the sequence of its alternatives, an alternative being the chain of     *)
(* calls the code joins with &&. Parse interprets the productions the way  *)
(* C evaluates them: left to right, the first alternative that succeeds    *)
(* wins, and the state is put back after a failed one only where the code  *)
(* says "*state = copy".                                                   *)
(*                                                                         *)
(* What is read and what is written are sequences of characters, one-letter*)
(* strings; literals become such by Text. Numbers are taken to fit an int  *)
(* and source-name lengths to be non-negative (demangle.cc:609 "positive   *)
(* length number").                                                        *)
(***************************************************************************)
EXTENDS Integers, Sequences, FiniteSetsExt, Functions, Numerals

Text(str) == [i \in 1..Len(str) |-> SubSeq(str, i, i)]

Chars(str) == {SubSeq(str, i, i) : i \in 1..Len(str)}

LowerChars == Chars("abcdefghijklmnopqrstuvwxyz")

UpperChars == Chars("ABCDEFGHIJKLMNOPQRSTUVWXYZ")

DigitChars == {Digits[i] : i \in DOMAIN Digits}

AlphaChars == LowerChars \cup UpperChars

kOperatorList ==
  [nw |-> "new", na |-> "new[]", dl |-> "delete", da |-> "delete[]",
   ps |-> "+", ng |-> "-", ad |-> "&", de |-> "*", co |-> "~", pl |-> "+",
   mi |-> "-", ml |-> "*", dv |-> "/", rm |-> "%", an |-> "&", or |-> "|",
   eo |-> "^", aS |-> "=", pL |-> "+=", mI |-> "-=", mL |-> "*=",
   dV |-> "/=", rM |-> "%=", aN |-> "&=", oR |-> "|=", eO |-> "^=",
   ls |-> "<<", rs |-> ">>", lS |-> "<<=", rS |-> ">>=", eq |-> "==",
   ne |-> "!=", lt |-> "<", gt |-> ">", le |-> "<=", ge |-> ">=", nt |-> "!",
   aa |-> "&&", oo |-> "||", pp |-> "++", mm |-> "--", cm |-> ",",
   pm |-> "->*", pt |-> "->", cl |-> "()", ix |-> "[]", qu |-> "?",
   st |-> "sizeof", sz |-> "sizeof"]

kBuiltinTypeList ==
  [v |-> "void", w |-> "wchar_t", b |-> "bool", c |-> "char",
   a |-> "signed char", h |-> "unsigned char", s |-> "short",
   t |-> "unsigned short", i |-> "int", j |-> "unsigned int", l |-> "long",
   m |-> "unsigned long", x |-> "long long", y |-> "unsigned long long",
   n |-> "__int128", o |-> "unsigned __int128", f |-> "float",
   d |-> "double", e |-> "long double", g |-> "__float128", z |-> "ellipsis"]

kSubstitutionList ==
  [t |-> "", a |-> "allocator", b |-> "basic_string", s |-> "string",
   i |-> "istream", o |-> "ostream", d |-> "iostream"]

(* What the parser looks for, and what it writes. To a prover a string is  *)
(* no sequence, so that what TLC finds of these literals is assumed.       *)
Tokens ==
  {"_Z", "A", "B", "C", "D", "Dp", "E", "Es", "F", "GA", "GR", "GV", "I", "L",
   "LZ", "M", "N", "S", "S_", "St", "T", "TC", "T_", "Tc", "U", "X", "Y", "Z",
   "_", "cv", "h", "sr", "st", "u", "v"}

Words ==
  {" ", "::", "std", "std::", "operator", "operator ", "~", "?", "()", "<>",
   "(anonymous namespace)"}
    \cup Range(kOperatorList) \cup Range(kBuiltinTypeList) \cup Range(kSubstitutionList)

ASSUME TextsAssumption ==
  /\ \A str \in Tokens : Text(str) \in Seq(STRING) \ {<<>>}
  /\ \A str \in Words : Text(str) \in Seq(STRING)

----------------------------------------------------------------------------
(* The State structure: the cursor into the mangled text, the bytes before *)
(* out_cur, the size of the buffer, where prev_name starts in it (0 for    *)
(* NULL), and the flags. ok is what the last parsing function returned.    *)
InitState(mangled, out_size) ==
  [text |-> mangled, cur |-> 1, out |-> <<>>, size |-> out_size,
   prev_name |-> 0, prev_name_length |-> -1, nest_level |-> -1,
   append |-> TRUE, overflowed |-> FALSE, ok |-> TRUE]

Succeed(s) == [s EXCEPT !.ok = TRUE]

Fail(s) == [s EXCEPT !.ok = FALSE]

AtLeastNumCharsRemaining(s, n) == s.cur + n - 1 <= Len(s.text)

(* The n characters at the cursor; fewer where the text ends. *)
Ahead(s, n) ==
  IF AtLeastNumCharsRemaining(s, n) THEN SubSeq(s.text, s.cur, s.cur + n - 1)
                                    ELSE SubSeq(s.text, s.cur, Len(s.text))

StrPrefix(s, prefix) == Ahead(s, Len(prefix)) = prefix

\* The character at the cursor is in a class.
NextIn(s, class) == AtLeastNumCharsRemaining(s, 1) /\ s.text[s.cur] \in class

Advance(s, n) == [s EXCEPT !.cur = @ + n, !.ok = TRUE]

(* How many characters from a place on are in a class, in a row. *)
RunFrom(text, cur, class) ==
  LET stops == {k \in cur..Len(text) : text[k] \notin class}
  IN  (IF stops = {} THEN Len(text) + 1 ELSE Min(stops)) - cur

Span(s, class) == RunFrom(s.text, s.cur, class)

----------------------------------------------------------------------------
Copied(s, str, n) ==
  [s EXCEPT !.out = @ \o SubSeq(str, 1, n), !.overflowed = @ \/ n < Len(str)]

\* No byte is kept for the terminator.
MutNoTerminator(s, str) ==
  Copied(s, str, Min({Len(str), Max({0, s.size - Len(s.out)})}))

(* Append: copy what fits, leaving a byte for the terminator; what does    *)
(* not fit sets overflowed, which only a restored state clears.            *)
AppendOut(s, str) ==
  Copied(s, str, Min({Len(str), Max({0, s.size - 1 - Len(s.out)})}))

StartsWith(str, class) == str # <<>> /\ str[1] \in class

EndsWith(str, c) == str # <<>> /\ str[Len(str)] = c

AvoidTripleLess(s, str) ==
  IF StartsWith(str, {"<"}) /\ EndsWith(s.out, "<") THEN AppendOut(s, Text(" ")) ELSE s

\* Any string written is remembered as the last name.
MutRememberAll(s, str, length) ==
  [s EXCEPT !.prev_name = Len(s.out) + 1, !.prev_name_length = length]

(* prev_name is the last identifier, whatever else is written after it. *)
RememberName(s, str, length) ==
  IF StartsWith(str, AlphaChars \cup {"_"})
  THEN [s EXCEPT !.prev_name = Len(s.out) + 1, !.prev_name_length = length]
  ELSE s

MaybeAppendWithLength(s, str, length) ==
  IF s.append /\ length > 0
  THEN AppendOut(RememberName(AvoidTripleLess(s, str), str, length), str)
  ELSE s

MaybeAppend(s, str) == MaybeAppendWithLength(s, str, Len(str))

(* A constructor's name is the last identifier written. Its bytes are in   *)
(* the buffer unless the output overflowed; what is copied then does not   *)
(* matter, because Demangle fails.                                         *)
MaybeAppendPrevName(s) ==
  LET last == Min({Len(s.out), s.prev_name + s.prev_name_length - 1})
  IN  IF s.prev_name = 0 \/ last < s.prev_name THEN s
      ELSE MaybeAppendWithLength(s, SubSeq(s.out, s.prev_name, last),
                                 s.prev_name_length)

(* nest_level is a short, of 16 bits. *)
AsShort(n) == IF n > 32767 THEN n - 65536 ELSE n

MaybeIncreaseNestLevel(s) ==
  IF s.nest_level > -1 THEN [s EXCEPT !.nest_level = AsShort(@ + 1)] ELSE s

MaybeAppendSeparator(s) ==
  IF s.nest_level >= 1 THEN MaybeAppend(s, Text("::")) ELSE s

MaybeCancelLastSeparator(s) ==
  IF s.nest_level >= 1 /\ s.append /\ Len(s.out) >= 2
  THEN [s EXCEPT !.out = SubSeq(@, 1, Len(@) - 2)] ELSE s

----------------------------------------------------------------------------
(* The functions that read the text themselves.                            *)

(* [n] digits: the sign stays consumed when no digit follows it.           *)
ParseNumber(s) ==
  LET p == IF NextIn(s, {"n"}) THEN Advance(s, 1) ELSE s
      n == Span(p, DigitChars)
  IN  IF n > 0 THEN Advance(p, n) ELSE Fail(p)

(* What ParseNumber leaves in *number_out. *)
NumberOut(s) ==
  LET digits(p) == Ahead(p, Span(p, DigitChars))
  IN  IF NextIn(s, {"n"}) THEN 0 - DecimalValue(digits(Advance(s, 1)))
                           ELSE DecimalValue(digits(s))

ParseFloatNumber(s) ==
  LET n == Span(s, DigitChars \cup Chars("abcdef"))
  IN  IF n > 0 THEN Advance(s, n) ELSE Fail(s)

ParseSeqId(s) ==
  LET n == Span(s, DigitChars \cup UpperChars)
  IN  IF n > 0 THEN Advance(s, n) ELSE Fail(s)

IdentifierIsAnonymousNamespace(s, length) ==
  length > Len("_GLOBAL__N_") /\ StrPrefix(s, Text("_GLOBAL__N_"))

ParseIdentifier(s, length) ==
  IF length = -1 \/ ~AtLeastNumCharsRemaining(s, length) THEN Fail(s)
  ELSE IF IdentifierIsAnonymousNamespace(s, length)
  THEN Advance(MaybeAppend(s, Text("(anonymous namespace)")), length)
  ELSE Advance(MaybeAppendWithLength(s, Ahead(s, length), length), length)

ParseSourceName(s) ==
  LET number == ParseNumber(s)
      name   == ParseIdentifier(number, NumberOut(s))
  IN  IF number.ok /\ name.ok THEN name ELSE Fail(s)

ParseCVQualifiers(s) ==
  LET skip(t, c) == IF NextIn(t, {c}) THEN Advance(t, 1) ELSE t
      r == skip(skip(skip(s, "r"), "V"), "K")
  IN  IF r.cur > s.cur THEN Succeed(r) ELSE Fail(s)

(* The table look-ups that end ParseOperatorName, begin ParseBuiltinType   *)
(* and end ParseSubstitution.                                              *)
OperatorFromList(s) ==
  LET abbrev == s.text[s.cur] \o s.text[s.cur + 1]
      name   == Text(kOperatorList[abbrev])
      spaced == IF StartsWith(name, LowerChars)
                THEN MaybeAppend(MaybeAppend(s, Text("operator")), Text(" "))
                ELSE MaybeAppend(s, Text("operator"))
  IN  IF AtLeastNumCharsRemaining(s, 2) /\ abbrev \in DOMAIN kOperatorList
      THEN Advance(MaybeAppend(spaced, name), 2) ELSE Fail(s)

BuiltinFromList(s) ==
  IF NextIn(s, DOMAIN kBuiltinTypeList)
  THEN Advance(MaybeAppend(s, Text(kBuiltinTypeList[s.text[s.cur]])), 1) ELSE Fail(s)

SubstitutionFromList(s) ==
  LET std  == MaybeAppend(s, Text("std"))
      name == Text(kSubstitutionList[s.text[s.cur]])
  IN  IF ~NextIn(s, DOMAIN kSubstitutionList) THEN Fail(s)
      ELSE IF name = <<>> THEN Advance(std, 1)
      ELSE Advance(MaybeAppend(MaybeAppend(std, Text("::")), name), 1)

----------------------------------------------------------------------------
(* The steps an alternative is made of. *)
Token(str)     == [op |-> "token", str |-> Text(str)]
CharClass(str) == [op |-> "class", class |-> Chars(str)]
Call(f)        == [op |-> "call", f |-> f]
Optional(step) == [op |-> "optional", step |-> step]
OneOrMore(f)   == [op |-> "oneOrMore", f |-> f]
ZeroOrMore(f)  == [op |-> "zeroOrMore", f |-> f]
Write(str)     == [op |-> "write", str |-> Text(str)]
WritePrevName  == [op |-> "writePrevName"]
EnterNestedName == [op |-> "enter"]
LeaveNestedName == [op |-> "leave"]
DisableAppend   == [op |-> "disable"]
RestoreAppend   == [op |-> "restore"]

(* An alternative after which the state is put back if it fails, and one   *)
(* whose failure is left to the calls it makes.                            *)
Saved(steps) == [restore |-> TRUE, steps |-> steps]
Plain(steps) == [restore |-> FALSE, steps |-> steps]

----------------------------------------------------------------------------
ParseMangledName == <<Plain(<<Token("_Z"), Call("ParseEncoding")>>)>>

ParseEncoding ==
  <<Saved(<<Call("ParseName"), Call("ParseBareFunctionType")>>),
    Plain(<<Call("ParseName")>>),
    Plain(<<Call("ParseSpecialName")>>)>>

ParseName ==
  <<Plain(<<Call("ParseNestedName")>>),
    Plain(<<Call("ParseLocalName")>>),
    Saved(<<Call("ParseUnscopedTemplateName"), Call("ParseTemplateArgs")>>),
    Plain(<<Call("ParseUnscopedName")>>)>>

ParseUnscopedName ==
  <<Plain(<<Call("ParseUnqualifiedName")>>),
    Saved(<<Token("St"), Write("std::"), Call("ParseUnqualifiedName")>>)>>

ParseUnscopedTemplateName ==
  <<Plain(<<Call("ParseUnscopedName")>>), Plain(<<Call("ParseSubstitution")>>)>>

\* The nest level is not restored.
MutNeverLeaves ==
  <<Saved(<<Token("N"), EnterNestedName, Optional(Call("ParseCVQualifiers")),
            Call("ParsePrefix"), Token("E")>>)>>

ParseNestedName ==
  <<Saved(<<Token("N"), EnterNestedName, Optional(Call("ParseCVQualifiers")),
            Call("ParsePrefix"), LeaveNestedName, Token("E")>>)>>

(* One round of ParsePrefix's loop. *)
PrefixPart ==
  <<Plain(<<Call("ParseTemplateParam")>>), Plain(<<Call("ParseSubstitution")>>),
    Plain(<<Call("ParseUnscopedName")>>)>>

ParseUnqualifiedName ==
  <<Plain(<<Call("ParseOperatorName")>>),
    Plain(<<Call("ParseCtorDtorName")>>),
    Plain(<<Call("ParseSourceName"), Optional(Call("ParseAbiTags"))>>),
    Plain(<<Call("ParseLocalSourceName"), Optional(Call("ParseAbiTags"))>>)>>

ParseLocalSourceName ==
  <<Saved(<<Token("L"), Call("ParseSourceName"),
            Optional(Call("ParseDiscriminator"))>>)>>

ParseAbiTags ==
  <<Saved(<<DisableAppend, OneOrMore("ParseAbiTag"), RestoreAppend>>)>>

ParseAbiTag == <<Plain(<<Token("B"), Call("ParseSourceName")>>)>>

(* Every abbreviation of the list is a lower-case letter and a letter, so  *)
(* the early tests on the next two characters only save time.              *)
ParseOperatorName ==
  <<Saved(<<Token("cv"), Write("operator "), EnterNestedName,
            Call("ParseType"), LeaveNestedName>>),
    Saved(<<Token("v"), CharClass("0123456789"), Call("ParseSourceName")>>),
    Plain(<<Call("OperatorFromList")>>)>>

ParseSpecialName ==
  <<Saved(<<Token("T"), CharClass("VTIS"), Call("ParseType")>>),
    Saved(<<Token("Tc"), Call("ParseCallOffset"), Call("ParseCallOffset"),
            Call("ParseEncoding")>>),
    Saved(<<Token("GV"), Call("ParseName")>>),
    Saved(<<Token("T"), Call("ParseCallOffset"), Call("ParseEncoding")>>),
    Saved(<<Token("TC"), Call("ParseType"), Call("ParseNumber"), Token("_"),
            DisableAppend, Call("ParseType"), RestoreAppend>>),
    Saved(<<Token("T"), CharClass("FJ"), Call("ParseType")>>),
    Saved(<<Token("GR"), Call("ParseName")>>),
    Saved(<<Token("GA"), Call("ParseEncoding")>>),
    Saved(<<Token("T"), CharClass("hv"), Call("ParseCallOffset"),
            Call("ParseEncoding")>>)>>

ParseCallOffset ==
  <<Saved(<<Token("h"), Call("ParseNVOffset"), Token("_")>>),
    Saved(<<Token("v"), Call("ParseVOffset"), Token("_")>>)>>

ParseNVOffset == <<Plain(<<Call("ParseNumber")>>)>>

ParseVOffset ==
  <<Saved(<<Call("ParseNumber"), Token("_"), Call("ParseNumber")>>)>>

ParseCtorDtorName ==
  <<Saved(<<Token("C"), CharClass("123"), WritePrevName>>),
    Saved(<<Token("D"), CharClass("012"), Write("~"), WritePrevName>>)>>

ParseType ==
  <<Saved(<<Call("ParseCVQualifiers"), Call("ParseType")>>),
    Saved(<<CharClass("OPRCG"), Call("ParseType")>>),
    Saved(<<Token("Dp"), Call("ParseType")>>),
    Saved(<<Token("D"), CharClass("tT"), Call("ParseExpression"), Token("E")>>),
    Saved(<<Token("U"), Call("ParseSourceName"), Call("ParseType")>>),
    Plain(<<Call("ParseBuiltinType")>>),
    Plain(<<Call("ParseFunctionType")>>),
    Plain(<<Call("ParseClassEnumType")>>),
    Plain(<<Call("ParseArrayType")>>),
    Plain(<<Call("ParsePointerToMemberType")>>),
    Plain(<<Call("ParseSubstitution")>>),
    Saved(<<Call("ParseTemplateTemplateParam"), Call("ParseTemplateArgs")>>),
    Plain(<<Call("ParseTemplateParam")>>)>>

ParseBuiltinType ==
  <<Plain(<<Call("BuiltinFromList")>>),
    Saved(<<Token("u"), Call("ParseSourceName")>>)>>

ParseFunctionType ==
  <<Saved(<<Token("F"), Optional(Token("Y")), Call("ParseBareFunctionType"),
            Token("E")>>)>>

ParseBareFunctionType ==
  <<Saved(<<DisableAppend, OneOrMore("ParseType"), RestoreAppend,
            Write("()")>>)>>

ParseClassEnumType == <<Plain(<<Call("ParseName")>>)>>

ParseArrayType ==
  <<Saved(<<Token("A"), Call("ParseNumber"), Token("_"), Call("ParseType")>>),
    Saved(<<Token("A"), Optional(Call("ParseExpression")), Token("_"),
            Call("ParseType")>>)>>

ParsePointerToMemberType ==
  <<Saved(<<Token("M"), Call("ParseType"), Call("ParseType")>>)>>

ParseTemplateParam ==
  <<Plain(<<Token("T_"), Write("?")>>),
    Saved(<<Token("T"), Call("ParseNumber"), Token("_"), Write("?")>>)>>

ParseTemplateTemplateParam ==
  <<Plain(<<Call("ParseTemplateParam")>>), Plain(<<Call("ParseSubstitution")>>)>>

ParseTemplateArgs ==
  <<Saved(<<DisableAppend, Token("I"), OneOrMore("ParseTemplateArg"),
            Token("E"), RestoreAppend, Write("<>")>>)>>

ParseTemplateArg ==
  <<Saved(<<CharClass("IJ"), ZeroOrMore("ParseTemplateArg"), Token("E")>>),
    Plain(<<Call("ParseType")>>),
    Saved(<<Call("ParseExprPrimary")>>),
    Saved(<<Token("X"), Call("ParseExpression"), Token("E")>>)>>

ParseExpression ==
  <<Plain(<<Call("ParseTemplateParam")>>), Plain(<<Call("ParseExprPrimary")>>),
    Saved(<<Call("ParseOperatorName"), Call("ParseExpression"),
            Call("ParseExpression"), Call("ParseExpression")>>),
    Saved(<<Call("ParseOperatorName"), Call("ParseExpression"),
            Call("ParseExpression")>>),
    Saved(<<Call("ParseOperatorName"), Call("ParseExpression")>>),
    Saved(<<Token("st"), Call("ParseType")>>),
    Saved(<<Token("sr"), Call("ParseType"), Call("ParseUnqualifiedName"),
            Call("ParseTemplateArgs")>>),
    Saved(<<Token("sr"), Call("ParseType"), Call("ParseUnqualifiedName")>>)>>

ParseExprPrimary ==
  <<Saved(<<Token("L"), Call("ParseType"), Call("ParseNumber"), Token("E")>>),
    Saved(<<Token("L"), Call("ParseType"), Call("ParseFloatNumber"), Token("E")>>),
    Saved(<<Token("L"), Call("ParseMangledName"), Token("E")>>),
    Saved(<<Token("LZ"), Call("ParseEncoding"), Token("E")>>)>>

ParseLocalName ==
  <<Saved(<<Token("Z"), Call("ParseEncoding"), Token("E"), Write("::"),
            Call("ParseName"), Optional(Call("ParseDiscriminator"))>>),
    Saved(<<Token("Z"), Call("ParseEncoding"), Token("Es"),
            Optional(Call("ParseDiscriminator"))>>)>>

ParseDiscriminator == <<Saved(<<Token("_"), Call("ParseNumber")>>)>>

ParseSubstitution ==
  <<Plain(<<Token("S_"), Write("?")>>),
    Saved(<<Token("S"), Call("ParseSeqId"), Token("_"), Write("?")>>),
    Saved(<<Token("S"), Call("SubstitutionFromList")>>)>>

Productions ==
  [ParseMangledName |-> ParseMangledName, ParseEncoding |-> ParseEncoding,
   ParseName |-> ParseName, ParseUnscopedName |-> ParseUnscopedName,
   ParseUnscopedTemplateName |-> ParseUnscopedTemplateName,
   ParseNestedName |-> ParseNestedName,
   ParseUnqualifiedName |-> ParseUnqualifiedName,
   ParseLocalSourceName |-> ParseLocalSourceName,
   ParseAbiTags |-> ParseAbiTags, ParseAbiTag |-> ParseAbiTag,
   ParseOperatorName |-> ParseOperatorName,
   ParseSpecialName |-> ParseSpecialName, ParseCallOffset |-> ParseCallOffset,
   ParseNVOffset |-> ParseNVOffset, ParseVOffset |-> ParseVOffset,
   ParseCtorDtorName |-> ParseCtorDtorName, ParseType |-> ParseType,
   ParseBuiltinType |-> ParseBuiltinType,
   ParseFunctionType |-> ParseFunctionType,
   ParseBareFunctionType |-> ParseBareFunctionType,
   ParseClassEnumType |-> ParseClassEnumType, ParseArrayType |-> ParseArrayType,
   ParsePointerToMemberType |-> ParsePointerToMemberType,
   ParseTemplateParam |-> ParseTemplateParam, PrefixPart |-> PrefixPart,
   ParseTemplateTemplateParam |-> ParseTemplateTemplateParam,
   ParseTemplateArgs |-> ParseTemplateArgs, ParseTemplateArg |-> ParseTemplateArg,
   ParseExpression |-> ParseExpression, ParseExprPrimary |-> ParseExprPrimary,
   ParseLocalName |-> ParseLocalName, ParseDiscriminator |-> ParseDiscriminator,
   ParseSubstitution |-> ParseSubstitution]

----------------------------------------------------------------------------
(* The functions that are not productions. *)
Readers ==
  {"ParseSourceName", "ParseNumber", "ParseFloatNumber", "ParseSeqId",
   "ParseCVQualifiers", "OperatorFromList", "BuiltinFromList",
   "SubstitutionFromList"}

ReadBy(f, s) ==
  CASE f = "ParseSourceName"      -> ParseSourceName(s)
    [] f = "ParseNumber"          -> ParseNumber(s)
    [] f = "ParseFloatNumber"     -> ParseFloatNumber(s)
    [] f = "ParseSeqId"           -> ParseSeqId(s)
    [] f = "ParseCVQualifiers"    -> ParseCVQualifiers(s)
    [] f = "OperatorFromList"     -> OperatorFromList(s)
    [] f = "BuiltinFromList"      -> BuiltinFromList(s)
    [] f = "SubstitutionFromList" -> SubstitutionFromList(s)

(* The recursion of the code is one function of what is to be done, a      *)
(* task: the call of a function, the rest of a call from its i-th          *)
(* alternative or from the j-th step of that on, or the rest of a loop;    *)
(* copy is the state at the call. In what follows done[u] is the state a   *)
(* task u leaves, when it is done as a part of this one.                   *)
Task(do, f, i, j, s, copy) ==
  [do |-> do, f |-> f, i |-> i, j |-> j, s |-> s, copy |-> copy]

Calling(f, s)           == Task("call", f, 0, 0, s, s)
Trying(f, i, s, copy)   == Task("try", f, i, 0, s, copy)
Going(f, i, j, s, copy) == Task("go", f, i, j, s, copy)
Repeating(f, s)         == Task("repeat", f, 0, 0, s, s)
Prefixing(s)            == Task("prefix", "ParsePrefix", 0, 0, s, s)
PrefixingOn(s)          == Task("prefixOn", "ParsePrefix", 0, 0, s, s)

CallTo(done, f, s) ==
  CASE f \in Readers      -> ReadBy(f, s)
    [] f = "ParsePrefix" -> done[Prefixing(s)]
    [] OTHER             -> done[Trying(f, 1, s, s)]

(* The alternatives from the i-th on; r is what the i-th one makes of the  *)
(* state.                                                                  *)
Try(done, f, i, s, copy) ==
  LET r == done[Going(f, i, 1, Succeed(s), copy)]
  IN  CASE i > Len(Productions[f])           -> Fail(s)
        [] i <= Len(Productions[f]) /\ r.ok -> r
        [] OTHER -> done[Trying(f, i + 1, IF Productions[f][i].restore THEN copy ELSE r, copy)]

(* while (parse_func(state)); what the failing call leaves is kept. *)
MoreOf(done, f, r) == IF r.ok THEN done[Repeating(f, r)] ELSE r

Repeat(done, f, s) == Succeed(MoreOf(done, f, done[Calling(f, s)]))

SimpleStep(done, step, s, copy) ==
  CASE step.op = "call"       -> done[Calling(step.f, s)]
    [] step.op = "token"      -> IF StrPrefix(s, step.str)
                                 THEN Advance(s, Len(step.str)) ELSE Fail(s)
    [] step.op = "class"      -> IF NextIn(s, step.class)
                                 THEN Advance(s, 1) ELSE Fail(s)
    [] step.op = "oneOrMore"  -> MoreOf(done, step.f, done[Calling(step.f, s)])
    [] step.op = "zeroOrMore" -> done[Repeating(step.f, s)]
    [] step.op = "write"      -> MaybeAppend(s, step.str)
    [] step.op = "writePrevName" -> MaybeAppendPrevName(s)
    [] step.op = "enter"      -> [s EXCEPT !.nest_level = 0]
    [] step.op = "leave"      -> [s EXCEPT !.nest_level = copy.nest_level]
    [] step.op = "disable"    -> [s EXCEPT !.append = FALSE]
    [] step.op = "restore"    -> [s EXCEPT !.append = copy.append]

RunStep(done, step, s, copy) ==
  IF step.op = "optional" THEN Succeed(SimpleStep(done, step.step, s, copy))
                          ELSE SimpleStep(done, step, s, copy)

(* step_j && step_j+1 && ...; r is what step_j makes of the state. *)
Chain(done, f, i, j, s, copy) ==
  LET steps == Productions[f][i].steps
      r     == RunStep(done, steps[j], s, copy)
  IN  CASE j > Len(steps)           -> Succeed(s)
        [] j <= Len(steps) /\ r.ok -> done[Going(f, i, j + 1, r, copy)]
        [] OTHER                    -> r

(* After the template arguments the prefix may go on; r is what            *)
(* ParseTemplateArgs made of the state.                                    *)
AfterArgs(done, r) == IF r.ok THEN done[Prefixing(r)] ELSE Succeed(r)

(* The rest of a round of the loop; part is what its first test left. *)
PrefixRound(done, part, has_something) ==
  IF part.ok THEN done[PrefixingOn(MaybeIncreaseNestLevel(part))]
  ELSE IF has_something
  THEN AfterArgs(done, done[Calling("ParseTemplateArgs", MaybeCancelLastSeparator(part))])
  ELSE Succeed(MaybeCancelLastSeparator(part))

ParsePrefix(done, s, has_something) ==
  PrefixRound(done, done[Calling("PrefixPart", MaybeAppendSeparator(s))], has_something)

Do(done, t) ==
  CASE t.do = "call"     -> CallTo(done, t.f, t.s)
    [] t.do = "try"      -> Try(done, t.f, t.i, t.s, t.copy)
    [] t.do = "go"       -> Chain(done, t.f, t.i, t.j, t.s, t.copy)
    [] t.do = "repeat"   -> Repeat(done, t.f, t.s)
    [] t.do = "prefix"   -> ParsePrefix(done, t.s, FALSE)
    [] t.do = "prefixOn" -> ParsePrefix(done, t.s, TRUE)

State(text) ==
  [text: {text}, cur: Nat, out: Seq(STRING), size: Nat, prev_name: Nat,
   prev_name_length: Int, nest_level: Int, append: BOOLEAN,
   overflowed: BOOLEAN, ok: BOOLEAN]

Tasks(text) ==
  [do: {"call", "try", "go", "repeat", "prefix", "prefixOn"},
   f: DOMAIN Productions \cup Readers \cup {"ParsePrefix"},
   i: Nat, j: Nat, s: State(text), copy: State(text)]

(* No task has that many others around it: fewer than 10000 begin between  *)
(* two characters consumed.                                                *)
Deepest(text) == 10000 * (Len(text) + 1)

(* The call of a parsing function. *)
Parse(f, s) ==
  LET tasks == Tasks(s.text)
      deepest == Deepest(s.text)
      did[depth \in 0..deepest] ==
        IF depth = deepest THEN [t \in tasks |-> t.s] ELSE [t \in tasks |-> Do(did[depth + 1], t)]
  IN  did[0][Calling(f, s)]

----------------------------------------------------------------------------
(* (.<alpha>+.<digit>+)+ up to the end of the text, or nothing. *)
IsFunctionCloneSuffix(text, start) ==
  LET dot(cur) == cur <= Len(text) /\ text[cur] = "."
      clones[cur \in Nat] ==
        LET name   == RunFrom(text, cur + 1, AlphaChars)
            number == RunFrom(text, cur + name + 2, DigitChars)
        IN  \/ cur > Len(text)
            \/ /\ dot(cur) /\ name > 0
               /\ dot(cur + name + 1) /\ number > 0
               /\ clones[cur + name + number + 2]
  IN  clones[start]

AfterMangledName(r) ==
  CASE ~r.ok                      -> r
    [] r.ok /\ IsFunctionCloneSuffix(r.text, r.cur) -> r
    [] r.ok /\ NextIn(r, {"@"})  ->
         MaybeAppend(r, Ahead(r, Len(r.text) - r.cur + 1))
    [] OTHER                      -> Fail(r)

ParseTopLevelMangledName(s) == AfterMangledName(Parse("ParseMangledName", s))

(* What the caller gets: the result, and the string in the buffer. *)
Outcome(r) == [ok |-> r.ok /\ ~r.overflowed, out |-> r.out]

Demangle(mangled, out_size) ==
  Outcome(ParseTopLevelMangledName(InitState(mangled, out_size)))
=============================================================================
