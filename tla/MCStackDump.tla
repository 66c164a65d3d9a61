---------------------------- MODULE MCStackDump ----------------------------
(***************************************************************************)
(* Bounded inputs for Unwind and MinimalFormatter: memory that holds any   *)
(* links, a sound stack of some depth, and a symbol of some length.        *)
(***************************************************************************)
EXTENDS Integers, Sequences, SequencesExt, FiniteSets, Unwind, MinimalFormatter

CONSTANTS FrameAddresses,  \* where the frames are, the innermost first
          Links,           \* what a link may hold
          MaxStack,        \* calls of a sound stack
          MaxSkip, MaxDepth,  \* of a call of GetStackTrace
          MaxSymbol,       \* characters of a symbol
          Pointers,        \* addresses, with their hexadecimal numerals
          BufSize, Width   \* of DumpStackFrameInfo: 1024 and 18

VARIABLES frames, depth, symbol

dumpVars == <<frames, depth, symbol>>

DumpInit == frames = <<>> /\ depth = 0 /\ symbol = <<>>

GrowMemory ==
  /\ Len(frames) < Len(FrameAddresses) /\ depth = 0 /\ symbol = <<>>
  /\ \E l \in Links, r \in {0, 1} :
       frames' = Append(frames, [link |-> l, ret |-> r * (Len(frames) + 1)])
  /\ UNCHANGED <<depth, symbol>>

GrowStack == /\ depth < MaxStack /\ frames = <<>> /\ symbol = <<>>
             /\ depth' = depth + 1
             /\ UNCHANGED <<frames, symbol>>

GrowSymbol == /\ Len(symbol) < MaxSymbol /\ frames = <<>> /\ depth = 0
              /\ \E c \in {"a", "b"} : symbol' = Append(symbol, c)
              /\ UNCHANGED <<frames, depth>>

DumpNext == GrowMemory \/ GrowStack \/ GrowSymbol

----------------------------------------------------------------------------
Addresses == Range(FrameAddresses)

memory == [a \in Addresses |-> frames[CHOOSE i \in DOMAIN frames : FrameAddresses[i] = a]]

Plausible(arch, a, b) ==
  /\ a < b /\ b - a <= LargestFrame /\ b % WordSize = 0
  /\ arch = "i386" => b < LastPages

\* What looks like a frame can be read; elsewhere the code may crash.
ASSUME FramesAssumption ==
  /\ FrameAddresses \in Seq(Nat \ {0}) /\ FrameAddresses # <<>>
  /\ \A i, j \in DOMAIN FrameAddresses : i < j => FrameAddresses[i] < FrameAddresses[j]
  /\ Links \subseteq Nat
  /\ \A arch \in Archs, a \in Addresses, l \in Links :
       Plausible(arch, a, l) => l \in Addresses

\* The frames that plausible links lead to from the first, as the least set
\* that is closed under them; stops says which frames lead nowhere.
Reached(arch, stops) ==
  LET Closed(S) == /\ FrameAddresses[1] \in S
                   /\ \A a \in S \ stops :
                        Plausible(arch, a, memory[a].link) => memory[a].link \in S
  IN {a \in Addresses : \A S \in SUBSET Addresses : Closed(S) => a \in S}

\* The frames of a set, the innermost first.
InOrder(S) == {e \in [1..Cardinality(S) -> S] :
                 \A i \in 1..(Cardinality(S) - 1) : e[i] < e[i + 1]}

\* Of the return addresses in these frames, those behind the skipped ones.
Returns(e, skip, n) ==
  SubSeq([i \in 1..Len(e) |-> memory[e[i]].ret], skip + 1, Least(skip + n, Len(e)))

X86Builds == Archs \ {"powerpc"}

(* A corrupt stack, whatever its links and return addresses hold (loops,   *)
(* frames below, far above or misaligned), ends the walk after at most one *)
(* round for each frame, and what the walk returns is what stands, in      *)
(* order, in the frames that plausible links lead to. x86 stops at a       *)
(* return address of 0, and as i386 before the last two pages; PowerPC     *)
(* does neither and skips the top entry.                                   *)
WalkExact ==
  Len(frames) = Len(FrameAddresses) =>
    \A skip_count \in 0..MaxSkip, max_depth \in 0..MaxDepth :
      LET zero == {a \in Addresses : memory[a].ret = 0}
          ppc == GetStackTrace_powerpc(memory, FrameAddresses[1], max_depth, skip_count)
      IN /\ \A arch \in X86Builds :
              LET x86 == GetStackTrace_x86(arch, memory, FrameAddresses[1], max_depth, skip_count)
              IN /\ x86.ended
                 /\ \E e \in InOrder(Reached(arch, zero) \ zero) :
                      x86.result = Returns(e, skip_count, max_depth)
         /\ ppc.ended
         /\ \E e \in InOrder(Reached("powerpc", {})) :
              ppc.result = Returns(e, skip_count + 1, max_depth)

\* The smallest frame of a sound stack is no larger than the largest.
ASSUME StackAssumption ==
  WordSize <= LargestFrame /\ MaxSkip \in Nat /\ MaxDepth \in Nat

stack == [i \in 1..depth |-> 100 + i]

\* A sound stack: return address i is that of call i + offset.
Sound(n, offset) ==
  [a \in {WordSize * i : i \in 1..n} |->
     [link |-> IF a = WordSize * n THEN 0 ELSE a + WordSize,
      ret |-> stack[(a \div WordSize) + offset]]]

(* On a sound stack the six implementations are one function: the callers  *)
(* of GetStackTrace without the skipped ones, max_depth of them; but for   *)
(* the generic one and Windows, which lose what is beyond kStackLength,    *)
(* and for i386 where the stack reaches the last two pages.                *)
BuildsAgree ==
  depth > 1 =>
    \A skip_count \in 0..MaxSkip, max_depth \in 0..MaxDepth :
      LET callers == SubSeq(stack, skip_count + 2, Least(skip_count + 1 + max_depth, depth))
          generic == GetStackTrace_generic(stack, max_depth, skip_count)
          windows == GetStackTrace_windows(stack, max_depth, skip_count)
      IN /\ \A arch \in X86Builds :
              ~TooHigh(arch, WordSize * (depth - 1)) =>
                GetStackTrace_x86(arch, Sound(depth - 1, 1), WordSize, max_depth,
                                  skip_count).result = callers
         /\ GetStackTrace_powerpc(Sound(depth, 0), WordSize, max_depth, skip_count).result = callers
         /\ GetStackTrace_libunwind(stack, max_depth, skip_count, FALSE) = callers
         /\ GetStackTrace_unwind(stack, max_depth, skip_count, TRUE) = callers
         /\ IsPrefix(generic, callers) /\ IsPrefix(windows, callers)
         /\ depth <= kStackLength => generic = callers /\ windows = callers

\* value[k] is the number that all but the last k digits make.
HexValue(hex) ==
  LET n == Len(hex)
      value[k \in 0..n] ==
        IF k = n THEN 0
        ELSE 16 * value[k + 1] + (CHOOSE d \in 0..15 : HexDigits[d + 1] = hex[n - k])
  IN value[0]

\* Width has room for 0x and any address, and the buffer for that behind the
\* longest prefix.
ASSUME PointersAssumption ==
  /\ Width \in Nat /\ BufSize \in Nat /\ 6 + Width <= BufSize
  /\ \A p \in Pointers :
       /\ p.hex \in Seq(Range(HexDigits)) /\ HexValue(p.hex) = p.number
       /\ Len(p.hex) \in 1..(Width - 2)
       /\ p.hex[1] = "0" => Len(p.hex) = 1

(* A line of the stack dump is its full text cut off at the end of the     *)
(* buffer, for symbols shorter and longer than what is left of it: the     *)
(* padding, which is moved without a look at the end, always fits behind   *)
(* the prefixes in use, and numbers come out in the right order.           *)
FrameLineExact ==
  \A prefix \in {<<"P", "C", ":", Blank>>, <<Blank, Blank, Blank, Blank>>}, p \in Pointers :
    LET padding == [i \in 1..(Width - 2 - Len(p.hex)) |-> Blank]
        full == prefix \o <<"@", Blank>> \o padding \o (<<"0", "x">> \o p.hex)
                  \o <<Blank>> \o symbol \o <<"\n">>
    IN DumpStackFrameInfo(prefix, p.number, symbol, BufSize, Width)
         = SubSeq(full, 1, Least(BufSize, Len(full)))

=============================================================================
