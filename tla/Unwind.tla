------------------------------- MODULE Unwind -------------------------------
(***************************************************************************)
(* GetStackTrace in its six implementations. Those for x86 and PowerPC     *)
(* walk the frames in memory, which may be corrupt; the others take the    *)
(* calls, innermost first and GetStackTrace's own first of all, from a     *)
(* library. Addresses are numbers, 0 is NULL; memory maps the address of a *)
(* frame to its link, the pointer to the next frame, and to the return     *)
(* address beside it. Everything here is a pure function.                  *)
(***************************************************************************)
EXTENDS Integers, Sequences, FiniteSets

CONSTANTS kStackLength,   \* of the generic version; 64 of the Windows one
          LargestFrame,   \* 100000 bytes
          WordSize,       \* sizeof(void*)
          LastPages       \* 0xffffe000, where the last two pages begin

ASSUME UnwindAssumption ==
  /\ kStackLength \in Nat /\ LargestFrame \in Nat /\ WordSize \in Nat \ {0}
  /\ LastPages \in Nat

Least(a, b) == IF a < b THEN a ELSE b

OrNone(n) == IF n < 0 THEN 0 ELSE n

\* n rounds of a loop; state[left] is what it has when left are to come.
Rounds(n, start, Step(_, _)) ==
  LET state[left \in 0..n] ==
        IF left = n THEN start ELSE Step(state[left + 1], n - left)
  IN state[0]

-----------------------------------------------------------------------------
(* The frame walkers *)

\* What they are compiled for; the first two are builds of the x86 version.
Archs == {"x86_64", "i386", "powerpc"}

\* A frame may point to itself or to one that was there before.
MutAnyOrder(old_sp, new_sp) == new_sp = 0

NotAbove(old_sp, new_sp) == new_sp <= old_sp

TooHigh(arch, new_sp) == arch = "i386" /\ new_sp >= LastPages

\* NextStackFrame<true>
NextStackFrame(arch, memory, old_sp) ==
  LET new_sp == memory[old_sp].link
  IN IF \/ NotAbove(old_sp, new_sp)
        \/ new_sp - old_sp > LargestFrame
        \/ new_sp % WordSize # 0
        \/ TooHigh(arch, new_sp)
     THEN 0 ELSE new_sp

\* PowerPC does not look for a return address of 0.
ZeroEnds(arch) == arch # "powerpc"

\* One round of the loop, when its tests let it go on.
Round(w, memory, max_depth, arch) ==
  IF \/ w.sp = 0 \/ Len(w.result) = max_depth
     \/ ZeroEnds(arch) /\ memory[w.sp].ret = 0
  THEN [w EXCEPT !.ended = TRUE]
  ELSE [sp |-> NextStackFrame(arch, memory, w.sp),
        skip_count |-> OrNone(w.skip_count - 1),
        result |-> IF w.skip_count > 0 THEN w.result ELSE Append(w.result, memory[w.sp].ret),
        ended |-> FALSE]

\* A round for each frame, and one to see the end.
Walk(memory, sp, max_depth, skip_count, arch) ==
  Rounds(Cardinality(DOMAIN memory) + 1,
         [sp |-> sp, skip_count |-> skip_count, result |-> <<>>, ended |-> FALSE],
         LAMBDA w, i : IF w.ended THEN w ELSE Round(w, memory, max_depth, arch))

GetStackTrace_x86(arch, memory, sp, max_depth, skip_count) ==
  Walk(memory, sp, max_depth, skip_count, arch)

\* The link register of the top entry is not set yet.
GetStackTrace_powerpc(memory, sp, max_depth, skip_count) ==
  Walk(memory, sp, max_depth, skip_count + 1, "powerpc")

-----------------------------------------------------------------------------
(* The ones on a library *)

\* From the frame after the skipped ones on.
Segment(calls, skip, n) == SubSeq(calls, skip + 1, skip + n)

\* The test for max_depth comes before each call is taken; a trace within a
\* trace of the same thread is empty.
GetStackTrace_libunwind(calls, max_depth, skip_count, g_tl_entered) ==
  IF g_tl_entered THEN <<>>
  ELSE Rounds(Len(calls), [skip_count |-> skip_count + 1, result |-> <<>>],
              LAMBDA w, i : IF Len(w.result) = max_depth THEN w
                            ELSE IF w.skip_count > 0 THEN [w EXCEPT !.skip_count = @ - 1]
                            ELSE [w EXCEPT !.result = Append(@, calls[i])]).result

\* GetOneFrame, called by _Unwind_Backtrace for every call until it says that
\* the stack ends.
GetOneFrame(targ, ip, max_depth) ==
  LET next == IF targ.skip_count > 0 THEN [targ EXCEPT !.skip_count = @ - 1]
              ELSE [targ EXCEPT !.result = Append(@, ip)]
  IN [next EXCEPT !.ended = Len(next.result) = max_depth]

GetStackTrace_unwind(calls, max_depth, skip_count, ready_to_run) ==
  IF ~ready_to_run THEN <<>>
  ELSE Rounds(Len(calls), [skip_count |-> skip_count + 1, result |-> <<>>, ended |-> FALSE],
              LAMBDA targ, i : IF targ.ended THEN targ
                               ELSE GetOneFrame(targ, calls[i], max_depth)).result

\* The own frame is not skipped.
MutKeepOwnFrame(skip_count) == skip_count

Skipped(skip_count) == skip_count + 1

\* backtrace gives at most kStackLength calls.
GetStackTrace_generic(calls, max_depth, skip_count) ==
  LET size == Least(Len(calls), kStackLength)
      result_count == Least(OrNone(size - Skipped(skip_count)), max_depth)
  IN [i \in 1..result_count |-> calls[i + Skipped(skip_count)]]

\* CaptureStackBackTrace
GetStackTrace_windows(calls, max_depth, skip_count) ==
  LET rest == OrNone(Len(calls) - (skip_count + 1))
  IN Segment(calls, skip_count + 1, Least(Least(max_depth, kStackLength), rest))

=============================================================================
