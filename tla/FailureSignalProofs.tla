------------------------ MODULE FailureSignalProofs ------------------------
(***************************************************************************)
(* Proofs about FailureSignal, for any threads, signals and stack depth:   *)
(* the handler's state is sound, all output is the beginning of one dump,  *)
(* and the process does not die before that dump is complete, but for the  *)
(* reasons DumpBeforeDeath lists.                                          *)
(***************************************************************************)
EXTENDS FailureSignal, SequenceTheorems, FiniteSetTheorems, TLAPS

Pointer == g_entered_thread_id_pointer

\* Where the invocation is that g_entered_thread_id_pointer was set by.
FirstLabels == Dumping \cup {"default", "kill", "return"}

Positions(t) == 1..Len(frames[t])

Installed == {kFailureSignals[n] : n \in 1..installed}

StateTyped ==
  /\ disposition \in [Signals -> Dispositions]
  /\ installed \in 0..Len(kFailureSignals)
  /\ g_failure_writer \in Writers
  /\ Pointer \in (Threads \X Nat) \cup {NULL}
  /\ frames \in [Threads -> Seq(Frame)]
  /\ user \in [Threads -> {"run", "fail", "abort", "aborted"}]
  /\ pending \in SUBSET Signals
  /\ flushed \in BOOLEAN
  /\ killed_by \in Signals \cup {NULL}
  /\ signals \in 0..MaxSignals

(* A handler is called for the signals it is installed for, once at a time *)
(* in a thread.                                                            *)
SignalsInv ==
  /\ \A s \in Signals : disposition[s] = "FailureSignalHandler" => s \in Installed
  /\ \A t \in Threads : \A n \in Positions(t) :
       /\ frames[t][n].signal \in Installed
       /\ \A m \in Positions(t) : frames[t][m].signal = frames[t][n].signal => m = n

(* One invocation dumps; who finds itself in the handler again is above it. *)
FramesInv ==
  \A t \in Threads : \A n \in Positions(t) :
    /\ frames[t][n].at # "enter" => Pointer # NULL
    /\ frames[t][n].at \in FirstLabels => Pointer = <<t, n>>
    /\ frames[t][n].at \in {"again_default", "again_kill"} =>
         Pointer[1] = t /\ Pointer[2] < n

First == frames[Pointer[1]][Pointer[2]]

Live == Pointer[2] \in Positions(Pointer[1]) /\ First.at \in FirstLabels

(* The first invocation has returned, and its signal is about to kill. *)
Doomed == \E s \in pending : /\ s \notin Blocked(Pointer[1])
                             /\ disposition[s] = "SIG_DFL" /\ s \in Installed

LiveInv ==
  Pointer # NULL =>
    /\ Running => Live \/ Doomed
    /\ Live /\ First.at \in {"kill", "return"} => disposition[First.signal] = "SIG_DFL"
    /\ Live /\ First.at = "return" /\ Running => First.signal \in pending

(* Who has set the default handler of a signal that had ours. *)
DefaultInv ==
  \A s \in Signals : s \in Installed /\ disposition[s] = "SIG_DFL" =>
    \/ Pointer # NULL /\ (flushed \/ Reentered)
    \/ s = SIGABRT /\ \E t \in Threads : user[t] \in {"abort", "aborted"}

(* How many lines the first invocation has written. *)
Count(frame) == CASE frame.at = "time" -> 0
                  [] frame.at = "PC" -> 1
                  [] frame.at = "signal" -> 2
                  [] frame.at = "stack" -> frame.i + 2
                  [] OTHER -> Depth + 3

What(s, n) == CASE n = 1 -> "time"
                [] n = 2 -> "PC"
                [] n = 3 -> s
                [] OTHER -> "stack"

OutputInv ==
  /\ output \in Seq(Line)
  /\ Pointer = NULL => output = <<>> /\ ~flushed
  /\ Pointer # NULL =>
       \E s \in Signals :
         /\ Live => /\ s = First.signal
                    /\ Len(output) = Count(First)
                    /\ First.at \in {"time", "PC", "signal"} => First.i = 0
                    /\ First.at = "stack" => First.i \in 1..Depth
                    /\ First.at \in {"default", "kill", "return"} => flushed
         /\ Len(output) <= Depth + 3
         /\ flushed => Len(output) = Depth + 3
         /\ \A n \in DOMAIN output :
              /\ output[n].by = Pointer[1] /\ output[n].what = What(s, n)
              /\ output[n].i = IF n <= 3 THEN 0 ELSE n - 3
  /\ \A n \in DOMAIN output : output[n].to = "custom" => g_failure_writer = "custom"
  /\ \A m, n \in DOMAIN output :
       m < n /\ output[m].to = "custom" => output[n].to = "custom"

HandlerSound == StateTyped /\ SignalsInv /\ FramesInv /\ LiveInv /\ DefaultInv /\ OutputInv

IInv == HandlerSound /\ DumpBeforeDeath

-----------------------------------------------------------------------------
(* The stacks of invocations *)

(* What a step does to them, place by place: the running invocation of t   *)
(* goes on, a signal interrupts t, an invocation returns.                  *)
GoesOn(t, label, i) ==
  /\ \A r \in Threads :
       /\ Len(frames'[r]) = Len(frames[r])
       /\ \A n \in 1..Len(frames[r]) :
            /\ frames'[r][n].signal = frames[r][n].signal
            /\ r # t \/ n # Len(frames[t]) => frames'[r][n] = frames[r][n]
  /\ frames'[t][Len(frames[t])].at = label
  /\ frames'[t][Len(frames[t])].i = i

IsInterrupted(t, s) ==
  /\ frames'[t][Len(frames[t]) + 1] = Entering(s)
  /\ \A r \in Threads :
       /\ Len(frames'[r]) = IF r = t THEN Len(frames[r]) + 1 ELSE Len(frames[r])
       /\ \A n \in 1..Len(frames[r]) : frames'[r][n] = frames[r][n]

Returns(t) ==
  \A r \in Threads :
    /\ Len(frames'[r]) = IF r = t THEN Len(frames[r]) - 1 ELSE Len(frames[r])
    /\ \A n \in 1..Len(frames'[r]) : frames'[r][n] = frames[r][n]

(* A stack is a sequence; the running invocation is its last. *)
LEMMA StackFacts ==
  ASSUME StateTyped, NEW t \in Threads
  PROVE  /\ frames[t] \in Seq(Frame) /\ Len(frames[t]) \in Nat
         /\ \A n \in 1..Len(frames[t]) :
              /\ frames[t][n] \in Frame /\ frames[t][n].signal \in Signals
              /\ frames[t][n].at \in At /\ frames[t][n].i \in Nat
         /\ frames[t] # <<>> => /\ Len(frames[t]) \in 1..Len(frames[t])
                                /\ Top(t) = frames[t][Len(frames[t])]
<1>1. frames[t] \in Seq(Frame)
  BY DEF StateTyped
<1>2. \A n \in 1..Len(frames[t]) : frames[t][n] \in Frame
  BY <1>1
<1> QED
  BY <1>1, <1>2 DEF Frame, Top, Last

(* A stack without the running invocation. *)
LEMMA FrontFacts ==
  ASSUME NEW q \in Seq(Frame), q # <<>>
  PROVE  /\ Front(q) \in Seq(Frame) /\ Len(Front(q)) = Len(q) - 1
         /\ \A n \in 1..(Len(q) - 1) : Front(q)[n] = q[n]
<1> DEFINE len == Len(q)
<1>1. len \in Nat /\ len >= 1 /\ \A n \in 1..(len - 1) : q[n] \in Frame
  BY EmptySeq
<1> HIDE DEF len
<1> DEFINE front == SubSeq(q, 1, len - 1)
<1>2. Front(q) = front
  BY DEF Front, len
<1>3. /\ front \in Seq(Frame)
      /\ Len(front) = IF 1 <= len - 1 THEN (len - 1) - 1 + 1 ELSE 0
      /\ \A n \in 1..((len - 1) - 1 + 1) : front[n] = q[1 + n - 1]
  BY <1>1, SubSeqProperties
<1> HIDE DEF front
<1>4. Len(front) = len - 1
  BY <1>1, <1>3
<1>5. \A n \in 1..(len - 1) : n \in 1..((len - 1) - 1 + 1) /\ 1 + n - 1 = n
  BY <1>1
<1>6. \A n \in 1..(len - 1) : front[n] = q[n]
  BY <1>3, <1>5
<1> QED
  BY <1>2, <1>3, <1>4, <1>6 DEF len

(* The running invocation of t goes on to a label. *)
LEMMA MovedFacts ==
  ASSUME StateTyped, NEW t \in Threads, frames[t] # <<>>, NEW label \in At, NEW i \in Nat,
         frames' = Moved(t, label, i)
  PROVE  frames' \in [Threads -> Seq(Frame)] /\ GoesOn(t, label, i)
<1> DEFINE f == [signal |-> Top(t).signal, at |-> label, i |-> i]
           len == Len(frames[t])
<1>1. /\ frames[t] \in Seq(Frame) /\ len \in Nat /\ len \in 1..len
      /\ Top(t) = frames[t][len] /\ frames[t][len].signal \in Signals
  BY StackFacts
<1>2. f \in Frame
  BY <1>1 DEF Frame
<1>3. /\ Front(frames[t]) \in Seq(Frame) /\ Len(Front(frames[t])) = len - 1
      /\ \A n \in 1..(len - 1) : Front(frames[t])[n] = frames[t][n]
  BY <1>1, FrontFacts
<1> HIDE DEF f
<1> DEFINE new == Append(Front(frames[t]), f)
<1>4. /\ new \in Seq(Frame) /\ Len(new) = len /\ new[len] = f
      /\ \A n \in 1..(len - 1) : new[n] = frames[t][n]
  BY <1>1, <1>2, <1>3, AppendProperties
<1>5. frames' = [frames EXCEPT ![t] = new] /\ frames \in [Threads -> Seq(Frame)]
  BY DEF Moved, f, StateTyped
<1> HIDE DEF new
<1>6. frames' \in [Threads -> Seq(Frame)] /\ frames'[t] = new
      /\ \A r \in Threads : r # t => frames'[r] = frames[r]
  BY <1>4, <1>5
<1>7. /\ f.signal = frames[t][len].signal /\ f.at = label /\ f.i = i
  BY <1>1 DEF f
<1>8. \A n \in 1..len : /\ new[n].signal = frames[t][n].signal
                        /\ n # len => new[n] = frames[t][n]
  BY <1>1, <1>4, <1>7
<1> QED
  BY <1>1, <1>4, <1>6, <1>7, <1>8 DEF GoesOn

(* A signal interrupts t: a new invocation on top. *)
LEMMA InterruptedFacts ==
  ASSUME StateTyped, NEW t \in Threads, NEW s \in Signals,
         frames' = [frames EXCEPT ![t] = Append(@, Entering(s))]
  PROVE  frames' \in [Threads -> Seq(Frame)] /\ IsInterrupted(t, s)
<1>1. Entering(s) \in Frame
  BY DEF Entering, Frame, At
<1>2. frames[t] \in Seq(Frame) /\ frames \in [Threads -> Seq(Frame)]
  BY DEF StateTyped
<1> DEFINE new == Append(frames[t], Entering(s))
<1>3. /\ new \in Seq(Frame) /\ Len(new) = Len(frames[t]) + 1
      /\ new[Len(frames[t]) + 1] = Entering(s)
      /\ \A n \in 1..Len(frames[t]) : new[n] = frames[t][n]
  BY <1>1, <1>2, AppendProperties
<1>4. frames' = [frames EXCEPT ![t] = new]
  OBVIOUS
<1> HIDE DEF new
<1>5. frames' \in [Threads -> Seq(Frame)] /\ frames'[t] = new
      /\ \A r \in Threads : r # t => frames'[r] = frames[r]
  BY <1>2, <1>3, <1>4
<1> QED
  BY <1>3, <1>5 DEF IsInterrupted

(* The running invocation of t returns. *)
LEMMA ReturnFacts ==
  ASSUME StateTyped, NEW t \in Threads, frames[t] # <<>>,
         frames' = [frames EXCEPT ![t] = Front(@)]
  PROVE  frames' \in [Threads -> Seq(Frame)] /\ Returns(t)
<1> DEFINE len == Len(frames[t])
<1>1. /\ frames[t] \in Seq(Frame) /\ len \in Nat /\ len \in 1..len
      /\ frames \in [Threads -> Seq(Frame)]
  BY StackFacts DEF StateTyped
<1> DEFINE new == Front(frames[t])
<1>2. /\ new \in Seq(Frame) /\ Len(new) = len - 1
      /\ \A n \in 1..(len - 1) : new[n] = frames[t][n]
  BY <1>1, FrontFacts
<1>3. frames' = [frames EXCEPT ![t] = new]
  OBVIOUS
<1> HIDE DEF new
<1>4. frames' \in [Threads -> Seq(Frame)] /\ frames'[t] = new
      /\ \A r \in Threads : r # t => frames'[r] = frames[r]
  BY <1>1, <1>2, <1>3
<1> QED
  BY <1>1, <1>2, <1>4 DEF Returns

-----------------------------------------------------------------------------
(* What keeps each part of the invariant *)

(* The signals of a thread's invocations are blocked in it. *)
LEMMA BlockedIs ==
  ASSUME frames \in [Threads -> Seq(Frame)], NEW t \in Threads
  PROVE  Blocked(t) = {frames[t][n].signal : n \in 1..Len(frames[t])}
BY DEF Blocked

(* g_entered_thread_id_pointer, once it is set, leads to a thread. *)
LEMMA PointerTyped ==
  StateTyped /\ Pointer # NULL =>
    /\ Pointer[1] \in Threads /\ Pointer[2] \in Nat /\ Pointer = <<Pointer[1], Pointer[2]>>
BY DEF StateTyped

(* Signals stay installed, and each is once in a thread. *)
LEMMA SignalsKept ==
  ASSUME StateTyped, SignalsInv, frames' \in [Threads -> Seq(Frame)],
         \A s \in Signals : s \in Installed => s \in Installed',
         \A s \in Signals : disposition'[s] = "FailureSignalHandler" => s \in Installed',
         \/ UNCHANGED frames
         \/ \E t \in Threads, label \in At, i \in Nat : GoesOn(t, label, i)
         \/ \E t \in Threads : Returns(t)
         \/ \E t \in Threads, s \in Signals :
              IsInterrupted(t, s) /\ s \notin Blocked(t) /\ s \in Installed
  PROVE  SignalsInv'
<1>1. \A t \in Threads : /\ frames'[t] \in Seq(Frame) /\ Len(frames'[t]) \in Nat
                         /\ Len(frames[t]) \in Nat
                         /\ \A n \in 1..Len(frames[t]) : frames[t][n].signal \in Signals
  BY StackFacts
<1>2. \A t \in Threads : \A n \in 1..Len(frames[t]) :
        /\ frames[t][n].signal \in Installed'
        /\ \A m \in 1..Len(frames[t]) : frames[t][m].signal = frames[t][n].signal => m = n
  BY <1>1 DEF SignalsInv, Positions
<1> SUFFICES \A t \in Threads : \A n \in 1..Len(frames'[t]) :
               /\ frames'[t][n].signal \in Installed'
               /\ \A m \in 1..Len(frames'[t]) :
                    frames'[t][m].signal = frames'[t][n].signal => m = n
  BY DEF SignalsInv, Positions
<1>3. CASE UNCHANGED frames
  BY <1>2, <1>3
<1>4. ASSUME NEW t \in Threads, NEW label \in At, NEW i \in Nat, GoesOn(t, label, i)
      PROVE  \A r \in Threads : /\ Len(frames'[r]) = Len(frames[r])
                                /\ \A n \in 1..Len(frames[r]) :
                                     frames'[r][n].signal = frames[r][n].signal
  BY <1>4 DEF GoesOn
<1>5. ASSUME NEW t \in Threads, Returns(t)
      PROVE  \A r \in Threads : \A n \in 1..Len(frames'[r]) :
               n \in 1..Len(frames[r]) /\ frames'[r][n] = frames[r][n]
  BY <1>1, <1>5 DEF Returns
<1>6. ASSUME NEW t \in Threads, NEW s \in Signals, IsInterrupted(t, s), s \notin Blocked(t),
             s \in Installed
      PROVE  \A r \in Threads : \A n \in 1..Len(frames'[r]) :
               /\ frames'[r][n].signal \in Installed'
               /\ \A m \in 1..Len(frames'[r]) :
                    frames'[r][m].signal = frames'[r][n].signal => m = n
  <2> SUFFICES ASSUME NEW r \in Threads, NEW n \in 1..Len(frames'[r])
               PROVE  /\ frames'[r][n].signal \in Installed'
                      /\ \A m \in 1..Len(frames'[r]) :
                           frames'[r][m].signal = frames'[r][n].signal => m = n
    OBVIOUS
  <2>1. CASE r # t
    BY <1>1, <1>2, <1>6, <2>1 DEF IsInterrupted
  <2>2. CASE r = t
    <3>1. \A m \in 1..Len(frames[t]) : frames[t][m].signal # s
      BY <1>6, BlockedIs DEF StateTyped
    <3>2. /\ Len(frames'[t]) = Len(frames[t]) + 1
          /\ frames'[t][Len(frames[t]) + 1].signal = s
          /\ \A m \in 1..Len(frames[t]) : frames'[t][m].signal = frames[t][m].signal
      BY <1>6 DEF IsInterrupted, Entering
    <3>3. s \in Installed'
      BY <1>6
    <3>4. CASE n = Len(frames[t]) + 1
      BY <1>1, <2>2, <3>1, <3>2, <3>3, <3>4
    <3>5. CASE n \in 1..Len(frames[t])
      <4>1. frames'[t][n].signal = frames[t][n].signal
        BY <3>2, <3>5
      <4>2. ASSUME NEW m \in 1..Len(frames'[t]), frames'[t][m].signal = frames'[t][n].signal
            PROVE  m = n
        <5>1. m \in 1..Len(frames[t]) \/ m = Len(frames[t]) + 1
          BY <1>1, <3>2
        <5>2. m \in 1..Len(frames[t])
          BY <3>1, <3>2, <3>5, <4>1, <4>2, <5>1
        <5> QED
          BY <1>2, <3>2, <3>5, <4>1, <4>2, <5>2
      <4> QED
        BY <1>2, <2>2, <3>5, <4>1, <4>2
    <3> QED
      BY <1>1, <2>2, <3>2, <3>4, <3>5
  <2> QED
    BY <2>1, <2>2
<1> QED
  <2>1. ASSUME NEW t \in Threads, NEW label \in At, NEW i \in Nat, GoesOn(t, label, i)
        PROVE  \A r \in Threads : \A n \in 1..Len(frames'[r]) :
                 /\ frames'[r][n].signal \in Installed'
                 /\ \A m \in 1..Len(frames'[r]) :
                      frames'[r][m].signal = frames'[r][n].signal => m = n
    BY <1>2, <1>4, <2>1
  <2>2. ASSUME NEW t \in Threads, Returns(t)
        PROVE  \A r \in Threads : \A n \in 1..Len(frames'[r]) :
                 /\ frames'[r][n].signal \in Installed'
                 /\ \A m \in 1..Len(frames'[r]) :
                      frames'[r][m].signal = frames'[r][n].signal => m = n
    BY <1>2, <1>5, <2>2
  <2> QED
    BY <1>3, <1>6, <2>1, <2>2

(* The first invocation goes on as it was, or is doomed as it was. *)
LEMMA LiveKept ==
  ASSUME StateTyped, SignalsInv, LiveInv, UNCHANGED Pointer,
         Pointer # NULL => /\ Live' => Live /\ UNCHANGED First
                           /\ Live /\ Running' => Live'
                           /\ Running' /\ Doomed => Doomed',
         Running' => Running,
         \A s \in Signals : s \in Installed /\ disposition[s] = "SIG_DFL" =>
           disposition'[s] = "SIG_DFL" /\ (Running' /\ s \in pending => s \in pending')
  PROVE  LiveInv'
<1>1. SUFFICES ASSUME Pointer # NULL
               PROVE  /\ Running' => Live' \/ Doomed'
                      /\ Live' /\ First'.at \in {"kill", "return"} =>
                           disposition'[First'.signal] = "SIG_DFL"
                      /\ Live' /\ First'.at = "return" /\ Running' => First'.signal \in pending'
  BY DEF LiveInv
<1>2. Running' => Live' \/ Doomed'
  BY <1>1 DEF LiveInv
<1>3. ASSUME Live' PROVE First' = First /\ First.signal \in Installed \cap Signals
  BY <1>1, <1>3, PointerTyped, StackFacts DEF Live, First, Positions, SignalsInv
<1>4. ASSUME Live', First'.at \in {"kill", "return"}
      PROVE  /\ disposition[First.signal] = "SIG_DFL" /\ disposition'[First'.signal] = "SIG_DFL"
             /\ First'.at = "return" /\ Running' => First'.signal \in pending'
  BY <1>1, <1>3, <1>4 DEF LiveInv
<1> QED
  BY <1>2, <1>4

(* Nobody has set a default handler, or those who have are as they were. *)
LEMMA DefaultKept ==
  ASSUME DefaultInv, UNCHANGED Pointer, flushed => flushed', Reentered => Reentered' \/ flushed',
         \A t \in Threads : user[t] \in {"abort", "aborted"} => user'[t] \in {"abort", "aborted"},
         \A s \in Signals : s \in Installed' /\ disposition'[s] = "SIG_DFL" =>
           \/ s \in Installed /\ disposition[s] = "SIG_DFL"
           \/ Pointer # NULL /\ (flushed' \/ Reentered')
           \/ s = SIGABRT /\ \E t \in Threads : user'[t] \in {"abort", "aborted"}
  PROVE  DefaultInv'
<1>1. SUFFICES ASSUME NEW s \in Signals, s \in Installed', disposition'[s] = "SIG_DFL"
               PROVE  \/ Pointer # NULL /\ (flushed' \/ Reentered')
                      \/ s = SIGABRT /\ \E t \in Threads : user'[t] \in {"abort", "aborted"}
  BY DEF DefaultInv
<1>2. CASE s \in Installed /\ disposition[s] = "SIG_DFL"
  <2>1. \/ Pointer # NULL /\ (flushed \/ Reentered)
        \/ s = SIGABRT /\ \E t \in Threads : user[t] \in {"abort", "aborted"}
    BY <1>2 DEF DefaultInv
  <2> QED
    BY <2>1
<1> QED
  BY <1>1, <1>2

(* Nothing is written or flushed. *)
LEMMA OutputKept ==
  ASSUME OutputInv, UNCHANGED <<output, flushed, Pointer>>,
         Pointer # NULL /\ Live' => Live /\ UNCHANGED First,
         g_failure_writer = "custom" => g_failure_writer' = "custom"
  PROVE  OutputInv'
<1>1. UNCHANGED <<output, flushed, Pointer>>
  OBVIOUS
<1>2. CASE Pointer = NULL
  BY <1>1, <1>2 DEF OutputInv
<1>3. CASE Pointer # NULL
  <2>1. PICK s \in Signals :
          /\ Live => /\ s = First.signal
                     /\ Len(output) = Count(First)
                     /\ First.at \in {"time", "PC", "signal"} => First.i = 0
                     /\ First.at = "stack" => First.i \in 1..Depth
                     /\ First.at \in {"default", "kill", "return"} => flushed
          /\ Len(output) <= Depth + 3
          /\ flushed => Len(output) = Depth + 3
          /\ \A n \in DOMAIN output :
               /\ output[n].by = Pointer[1] /\ output[n].what = What(s, n)
               /\ output[n].i = IF n <= 3 THEN 0 ELSE n - 3
    BY <1>3 DEF OutputInv
  <2>2. Live' => /\ s = First'.signal
                 /\ Len(output) = Count(First')
                 /\ First'.at \in {"time", "PC", "signal"} => First'.i = 0
                 /\ First'.at = "stack" => First'.i \in 1..Depth
                 /\ First'.at \in {"default", "kill", "return"} => flushed
    <3>1. Live' => Live /\ First' = First
      BY <1>3
    <3> QED
      BY <2>1, <3>1
  <2>3. \A n \in DOMAIN output : output[n].to = "custom" => g_failure_writer' = "custom"
    BY DEF OutputInv
  <2> QED
    BY <1>1, <1>3, <2>1, <2>2, <2>3 DEF OutputInv
<1> QED
  BY <1>2, <1>3

-----------------------------------------------------------------------------
(* Steps of the handler *)

(* A thread at a label of the first invocation is in it. *)
LEMMA FirstAtTop ==
  ASSUME StateTyped, FramesInv, NEW t \in Threads, frames[t] # <<>>, Top(t).at \in FirstLabels
  PROVE  /\ Pointer = <<t, Len(frames[t])>> /\ Pointer # NULL /\ Live
         /\ Pointer[1] = t /\ Pointer[2] = Len(frames[t])
         /\ First = Top(t) /\ First = frames[t][Len(frames[t])]
         /\ First.signal \in Signals /\ ~Reentered
<1>1. /\ Len(frames[t]) \in 1..Len(frames[t]) /\ Top(t) = frames[t][Len(frames[t])]
      /\ Len(frames[t]) \in Nat /\ frames[t][Len(frames[t])].signal \in Signals
  BY StackFacts
<1>2. Pointer = <<t, Len(frames[t])>>
  BY <1>1 DEF FramesInv, Positions
<1>3. Pointer # NULL /\ Pointer[1] = t /\ Pointer[2] = Len(frames[t])
  BY <1>1, <1>2, NullAssumption
<1> QED
  <2>1. ~Reentered
    BY <1>1, <1>3 DEF Reentered, Dumper, DumperFrame, Pointer
  <2>2. First = frames[t][Len(frames[t])]
    BY <1>3 DEF First
  <2>3. Live
    BY <1>1, <1>3, <2>2 DEF Live, Positions
  <2> QED
    BY <1>1, <1>2, <1>3, <2>1, <2>2, <2>3

(* A thread that can run in the handler while another one, or itself,      *)
(* dumps, finds that invocation alive.                                     *)
LEMMA DumperIsLive ==
  ASSUME StateTyped, LiveInv, NEW t \in Threads, Undisturbed(t), Pointer # NULL, Pointer[1] = t
  PROVE  Live
BY DEF LiveInv, Undisturbed, Doomed

(* The first invocation goes on to its next label. *)
LEMMA FirstMoves ==
  ASSUME StateTyped, SignalsInv, FramesInv, NEW t \in Threads, frames[t] # <<>>,
         Top(t).at \in FirstLabels, NEW label \in FirstLabels, NEW i \in Nat,
         frames' = Moved(t, label, i), UNCHANGED <<Pointer, installed>>,
         \A s \in Signals : disposition'[s] = "FailureSignalHandler" =>
                              disposition[s] = "FailureSignalHandler"
  PROVE  /\ frames' \in [Threads -> Seq(Frame)] /\ SignalsInv' /\ FramesInv' /\ Live'
         /\ First'.signal = First.signal /\ First'.at = label /\ First'.i = i
         /\ Pointer # NULL
<1>1. label \in At
  BY DEF FirstLabels, At
<1>2. frames' \in [Threads -> Seq(Frame)] /\ GoesOn(t, label, i)
  BY <1>1, MovedFacts
<1>3. SignalsInv'
  BY <1>1, <1>2, SignalsKept DEF SignalsInv, Installed
<1>4. /\ Pointer = <<t, Len(frames[t])>> /\ Pointer # NULL
      /\ Pointer[1] = t /\ Pointer[2] = Len(frames[t])
      /\ First = frames[t][Len(frames[t])]
  BY FirstAtTop
<1>5. Len(frames[t]) \in 1..Len(frames[t]) /\ Len(frames'[t]) = Len(frames[t])
  BY <1>2, StackFacts DEF GoesOn
<1>6. /\ First' = frames'[t][Len(frames[t])] /\ First'.at = label /\ First'.i = i
      /\ First'.signal = First.signal /\ Live'
  BY <1>2, <1>4, <1>5 DEF GoesOn, First, Live, Positions
<1>7. FramesInv'
  <2>1. SUFFICES ASSUME NEW r \in Threads, NEW n \in 1..Len(frames[r])
                 PROVE  /\ frames'[r][n].at # "enter" => Pointer # NULL
                        /\ frames'[r][n].at \in FirstLabels => Pointer = <<r, n>>
                        /\ frames'[r][n].at \in {"again_default", "again_kill"} =>
                             Pointer[1] = r /\ Pointer[2] < n
    BY <1>2 DEF FramesInv, Positions, GoesOn
  <2>2. CASE r = t /\ n = Len(frames[t])
    BY <1>2, <1>4, <2>2 DEF GoesOn, FirstLabels, Dumping
  <2>3. CASE r # t \/ n # Len(frames[t])
    BY <1>2, <2>3 DEF GoesOn, FramesInv, Positions
  <2> QED
    BY <2>2, <2>3
<1> QED
  BY <1>2, <1>3, <1>4, <1>6, <1>7

(* Another invocation goes on: the first one is where it was. *)
LEMMA OtherMoves ==
  ASSUME StateTyped, SignalsInv, FramesInv, NEW t \in Threads, frames[t] # <<>>,
         Top(t).at \notin FirstLabels, NEW label \in At, label \notin FirstLabels,
         label \in {"again_default", "again_kill"} =>
           Pointer[1] = t /\ Pointer[2] < Len(frames[t]),
         frames' = Moved(t, label, 0), UNCHANGED <<Pointer, installed>>, Pointer # NULL,
         \A s \in Signals : disposition'[s] = "FailureSignalHandler" =>
                              disposition[s] = "FailureSignalHandler"
  PROVE  /\ frames' \in [Threads -> Seq(Frame)] /\ SignalsInv' /\ FramesInv'
         /\ Live' <=> Live
         /\ Live => UNCHANGED First
         /\ \A r \in Threads : UNCHANGED Blocked(r)
         /\ Reentered <=> Reentered'
<1>1. frames' \in [Threads -> Seq(Frame)] /\ GoesOn(t, label, 0)
  BY MovedFacts
<1>2. SignalsInv'
  BY <1>1, SignalsKept DEF SignalsInv, Installed
<1>3. Pointer[1] \in Threads /\ Pointer[2] \in Nat
  BY PointerTyped
<1>4. Len(frames[t]) \in 1..Len(frames[t]) /\ Top(t) = frames[t][Len(frames[t])]
  BY StackFacts
<1>5. \A r \in Threads : Len(frames'[r]) = Len(frames[r])
  BY <1>1 DEF GoesOn
<1>6. ASSUME Live \/ Live' PROVE Live /\ Live' /\ First' = First
  <2>1. Pointer[2] \in 1..Len(frames[Pointer[1]])
    BY <1>3, <1>5, <1>6 DEF Live, Positions
  <2>2. Pointer[1] # t \/ Pointer[2] # Len(frames[t])
    BY <1>1, <1>4, <1>6 DEF GoesOn, Live, First
  <2>3. frames'[Pointer[1]][Pointer[2]] = frames[Pointer[1]][Pointer[2]]
    BY <1>1, <1>3, <2>1, <2>2 DEF GoesOn
  <2> QED
    BY <1>3, <1>5, <1>6, <2>1, <2>3 DEF Live, First, Positions
<1>7. FramesInv'
  <2>1. SUFFICES ASSUME NEW r \in Threads, NEW n \in 1..Len(frames[r])
                 PROVE  /\ frames'[r][n].at # "enter" => Pointer # NULL
                        /\ frames'[r][n].at \in FirstLabels => Pointer = <<r, n>>
                        /\ frames'[r][n].at \in {"again_default", "again_kill"} =>
                             Pointer[1] = r /\ Pointer[2] < n
    BY <1>1 DEF FramesInv, Positions, GoesOn
  <2>2. CASE r = t /\ n = Len(frames[t])
    BY <1>1, <2>2 DEF GoesOn
  <2>3. CASE r # t \/ n # Len(frames[t])
    BY <1>1, <2>3 DEF GoesOn, FramesInv, Positions
  <2> QED
    BY <2>2, <2>3
<1>8. ASSUME NEW r \in Threads PROVE Blocked(r)' = Blocked(r)
  <2>1. /\ Blocked(r) = {frames[r][n].signal : n \in 1..Len(frames[r])}
        /\ Blocked(r)' = {frames'[r][n].signal : n \in 1..Len(frames'[r])}
    BY <1>1, BlockedIs DEF StateTyped, Blocked
  <2> QED
    BY <1>1, <2>1 DEF GoesOn
<1>9. Reentered <=> Reentered'
  BY <1>3, <1>5 DEF Reentered, Dumper, DumperFrame, Pointer
<1> QED
  BY <1>1, <1>2, <1>6, <1>7, <1>8, <1>9

(* The running invocation, when its thread can go on. *)
LEMMA RunningFacts ==
  ASSUME HandlerSound, NEW t \in Threads, NEW label \in At, AtLabel(t, label)
  PROVE  /\ StateTyped /\ SignalsInv /\ FramesInv /\ LiveInv /\ DefaultInv /\ OutputInv
         /\ frames[t] # <<>> /\ Top(t).at = label /\ Top(t).signal \in Signals
         /\ Top(t).i \in Nat /\ Undisturbed(t) /\ Running
         /\ Top(t) = frames[t][Len(frames[t])] /\ Len(frames[t]) \in 1..Len(frames[t])
         /\ label # "enter" => Pointer # NULL /\ Pointer[1] \in Threads
<1>1. /\ StateTyped /\ SignalsInv /\ FramesInv /\ LiveInv /\ DefaultInv /\ OutputInv
      /\ frames[t] # <<>> /\ Top(t).at = label /\ Undisturbed(t) /\ Running
  BY DEF HandlerSound, AtLabel, Undisturbed
<1>2. /\ Top(t) = frames[t][Len(frames[t])] /\ Len(frames[t]) \in 1..Len(frames[t])
      /\ Top(t).signal \in Signals /\ Top(t).i \in Nat
  BY <1>1, StackFacts
<1>3. label # "enter" => Pointer # NULL
  BY <1>1, <1>2 DEF FramesInv, Positions
<1> QED
  BY <1>1, <1>2, <1>3, PointerTyped

(* An invocation that is not the first goes on; it may set a default       *)
(* handler only above the first one.                                       *)
LEMMA OtherMovesSound ==
  ASSUME HandlerSound, NEW t \in Threads, frames[t] # <<>>, Top(t).at \notin FirstLabels,
         NEW label \in At, label \notin FirstLabels,
         label \in {"again_default", "again_kill"} =>
           Pointer[1] = t /\ Pointer[2] < Len(frames[t]),
         frames' = Moved(t, label, 0), Pointer # NULL,
         UNCHANGED <<Pointer, installed, g_failure_writer, user, output, flushed, killed_by,
                     signals>>,
         pending \subseteq pending', pending' \subseteq Signals,
         disposition' \in [Signals -> Dispositions],
         \A s \in Signals : \/ disposition'[s] = disposition[s]
                            \/ disposition'[s] = "SIG_DFL" /\ Reentered
  PROVE  HandlerSound'
<1>1. StateTyped /\ SignalsInv /\ FramesInv /\ LiveInv /\ DefaultInv /\ OutputInv
  BY DEF HandlerSound
<1>2. \A s \in Signals : disposition'[s] = "FailureSignalHandler" =>
                           disposition[s] = "FailureSignalHandler"
  OBVIOUS
<1>3. /\ frames' \in [Threads -> Seq(Frame)] /\ SignalsInv' /\ FramesInv'
      /\ Live' <=> Live
      /\ Live => UNCHANGED First
      /\ \A r \in Threads : UNCHANGED Blocked(r)
      /\ Reentered <=> Reentered'
  BY <1>1, <1>2, OtherMoves
<1>4. StateTyped'
  BY <1>1, <1>3 DEF StateTyped, Pointer
<1>5. Pointer[1] \in Threads
  BY <1>1, PointerTyped
<1>6. Installed' = Installed /\ Installed \subseteq Signals /\ pending \subseteq Signals
      /\ (Running' <=> Running)
  BY <1>1 DEF Installed, StateTyped, Signals, Running
<1>7. \A s \in Signals : disposition[s] = "SIG_DFL" => disposition'[s] = "SIG_DFL"
  OBVIOUS
<1>8. Doomed => Doomed'
  BY <1>3, <1>5, <1>6, <1>7 DEF Doomed
<1>9. LiveInv'
  BY <1>1, <1>3, <1>6, <1>7, <1>8, LiveKept
<1>10. DefaultInv'
  BY <1>1, <1>3, <1>6, DefaultKept
<1>11. OutputInv'
  BY <1>1, <1>3, OutputKept
<1> QED
  BY <1>3, <1>4, <1>9, <1>10, <1>11 DEF HandlerSound

(* The compare-and-swap: the first to enter sets the pointer. *)
LEMMA EnterSound ==
  ASSUME HandlerSound, NEW t \in Threads, Enter(t)
  PROVE  HandlerSound'
<1>1. AtLabel(t, "enter") /\ "enter" \in At
  BY DEF Enter, At
<1>2. /\ StateTyped /\ SignalsInv /\ FramesInv /\ LiveInv /\ DefaultInv /\ OutputInv
      /\ frames[t] # <<>> /\ Top(t).at = "enter" /\ Undisturbed(t) /\ Running
      /\ Top(t) = frames[t][Len(frames[t])] /\ Len(frames[t]) \in 1..Len(frames[t])
      /\ Top(t).signal \in Signals
  BY <1>1, RunningFacts
<1>3. UNCHANGED <<disposition, installed, g_failure_writer, user, pending, output, flushed,
                  killed_by, signals>>
  BY DEF Enter
<1>4. "enter" \notin FirstLabels
  BY DEF FirstLabels, Dumping
<1>5. CASE FirstToEnter
  <2>1. /\ Pointer = NULL /\ Pointer' = <<t, Len(frames[t])>> /\ frames' = Moved(t, "time", 0)
    BY <1>5 DEF Enter, FirstToEnter, Pointer
  <2>2. "time" \in At /\ "time" \in FirstLabels
    BY DEF At, FirstLabels, Dumping
  <2>3. frames' \in [Threads -> Seq(Frame)] /\ GoesOn(t, "time", 0)
    BY <1>2, <2>1, <2>2, MovedFacts
  <2>4. SignalsInv'
    BY <1>2, <1>3, <2>2, <2>3, SignalsKept DEF SignalsInv, Installed
  <2>5. /\ Pointer' # NULL /\ Pointer'[1] = t /\ Pointer'[2] = Len(frames[t])
        /\ Pointer' \in Threads \X Nat
    BY <1>2, <2>1, NullAssumption
  <2>6. StateTyped'
    BY <1>2, <1>3, <2>3, <2>5 DEF StateTyped, Pointer
  <2>7. /\ First'.at = "time" /\ First'.i = 0 /\ First'.signal = Top(t).signal /\ Live'
    BY <1>2, <2>2, <2>3, <2>5 DEF First, Live, Positions, GoesOn
  <2>8. FramesInv'
    <3>1. SUFFICES ASSUME NEW r \in Threads, NEW n \in 1..Len(frames[r])
                   PROVE  /\ frames'[r][n].at \in FirstLabels => Pointer' = <<r, n>>
                          /\ frames'[r][n].at \notin {"again_default", "again_kill"}
      BY <2>3, <2>5 DEF FramesInv, Positions, GoesOn
    <3>2. CASE r = t /\ n = Len(frames[t])
      BY <2>1, <2>3, <3>2 DEF GoesOn
    <3>3. CASE r # t \/ n # Len(frames[t])
      <4>1. frames[r][n].at = "enter"
        BY <1>2, <2>1 DEF FramesInv, Positions
      <4> QED
        BY <1>4, <2>3, <3>3, <4>1 DEF GoesOn
    <3> QED
      BY <3>2, <3>3
  <2>9. LiveInv'
    BY <2>7 DEF LiveInv
  <2>10. DefaultInv'
    BY <1>2, <1>3, <2>1 DEF DefaultInv, Installed
  <2>11. OutputInv'
    <3>1. output = <<>> /\ ~flushed /\ output \in Seq(Line) /\ Depth \in Nat
      BY <1>2, <2>1, BoundsAssumption DEF OutputInv
    <3>2. /\ Live' => /\ Top(t).signal = First'.signal
                      /\ Len(output) = Count(First')
                      /\ First'.at \in {"time", "PC", "signal"} => First'.i = 0
                      /\ First'.at = "stack" => First'.i \in 1..Depth
                      /\ First'.at \in {"default", "kill", "return"} => flushed
          /\ Len(output) <= Depth + 3 /\ DOMAIN output = {}
      BY <2>7, <3>1 DEF Count
    <3> QED
      BY <1>2, <1>3, <2>5, <3>1, <3>2 DEF OutputInv
  <2> QED
    BY <2>4, <2>6, <2>8, <2>9, <2>10, <2>11 DEF HandlerSound
<1>6. CASE ~FirstToEnter
  <2>1. Pointer # NULL /\ UNCHANGED Pointer /\ frames' = Moved(t, "check", 0)
    BY <1>6 DEF Enter, FirstToEnter, Pointer
  <2>2. "check" \in At /\ "check" \notin FirstLabels
    BY DEF At, FirstLabels, Dumping
  <2> QED
    BY <1>2, <1>3, <1>4, <2>1, <2>2, OtherMovesSound DEF StateTyped
<1> QED
  BY <1>5, <1>6

(* A thread that finds somebody inside: itself, below, or another one. *)
LEMMA CheckSound ==
  ASSUME HandlerSound, NEW t \in Threads, Check(t)
  PROVE  HandlerSound'
<1>1. AtLabel(t, "check") /\ "check" \in At /\ "check" \notin FirstLabels
      /\ {"again_default", "sleep"} \subseteq At /\ {"again_default", "sleep"} \cap FirstLabels = {}
  BY DEF Check, At, FirstLabels, Dumping
<1>2. /\ StateTyped /\ LiveInv
      /\ frames[t] # <<>> /\ Top(t).at = "check" /\ Undisturbed(t)
      /\ Top(t) = frames[t][Len(frames[t])] /\ Len(frames[t]) \in 1..Len(frames[t])
      /\ Pointer # NULL
  BY <1>1, RunningFacts
<1>3. /\ UNCHANGED <<disposition, installed, g_failure_writer, Pointer, user, pending, output,
                     flushed, killed_by, signals>>
      /\ pending' \subseteq Signals /\ disposition' \in [Signals -> Dispositions]
  BY <1>2 DEF Check, Pointer, StateTyped
<1>4. CASE Reentering(t)
  <2>1. frames' = Moved(t, "again_default", 0) /\ Pointer[1] = t
    BY <1>4 DEF Check, Reentering, Pointer
  <2>2. Live
    BY <1>2, <2>1, DumperIsLive
  <2>3. Pointer[2] < Len(frames[t])
    BY <1>1, <1>2, <2>1, <2>2, PointerTyped DEF Live, First, Positions
  <2> QED
    BY <1>1, <1>2, <1>3, <2>1, <2>3, OtherMovesSound
<1>5. CASE ~Reentering(t)
  <2>1. frames' = Moved(t, "sleep", 0)
    BY <1>5 DEF Check
  <2> QED
    BY <1>1, <1>2, <1>3, <2>1, OtherMovesSound
<1> QED
  BY <1>4, <1>5

(* InvokeDefaultSignalHandler of a thread that is interrupted while it     *)
(* dumps.                                                                  *)
LEMMA AgainSound ==
  ASSUME HandlerSound, NEW t \in Threads,
         \/ SetDefault(t) /\ AtLabel(t, "again_default")
         \/ Kill(t) /\ AtLabel(t, "again_kill")
  PROVE  HandlerSound'
<1>1. /\ {"again_default", "again_kill", "sleep"} \subseteq At
      /\ {"again_default", "again_kill", "sleep"} \cap FirstLabels = {}
  BY DEF At, FirstLabels, Dumping
<1>2. /\ StateTyped /\ FramesInv /\ frames[t] # <<>>
      /\ Top(t).at \in {"again_default", "again_kill"}
      /\ Top(t) = frames[t][Len(frames[t])] /\ Len(frames[t]) \in 1..Len(frames[t])
      /\ Pointer # NULL /\ Top(t).signal \in Signals
  BY <1>1, RunningFacts
<1>3. Pointer[1] = t /\ Pointer[2] < Len(frames[t])
  BY <1>2 DEF FramesInv, Positions
<1>4. Reentered
  BY <1>2, <1>3 DEF Reentered, Dumper, DumperFrame, Pointer
<1>5. CASE SetDefault(t) /\ AtLabel(t, "again_default")
  <2>1. /\ frames' = Moved(t, "again_kill", 0)
        /\ UNCHANGED <<installed, g_failure_writer, Pointer, user, pending, output, flushed,
                       killed_by, signals>>
        /\ disposition' = [disposition EXCEPT ![Top(t).signal] = "SIG_DFL"]
    BY <1>5 DEF SetDefault, AtLabel, WithDefault, Pointer
  <2>2. /\ disposition' \in [Signals -> Dispositions] /\ pending' \subseteq Signals
        /\ \A s \in Signals : disposition'[s] = disposition[s] \/ disposition'[s] = "SIG_DFL"
    BY <1>2, <2>1 DEF StateTyped, Dispositions
  <2> QED
    BY <1>1, <1>2, <1>3, <1>4, <2>1, <2>2, OtherMovesSound
<1>6. CASE Kill(t) /\ AtLabel(t, "again_kill")
  <2>1. /\ frames' = Moved(t, "sleep", 0)
        /\ UNCHANGED <<disposition, installed, g_failure_writer, Pointer, user, output, flushed,
                       killed_by, signals>>
        /\ pending' = pending \cup {Top(t).signal}
    BY <1>6 DEF Kill, AtLabel, Pointer
  <2>2. disposition' \in [Signals -> Dispositions] /\ pending' \subseteq Signals
    BY <1>2, <2>1 DEF StateTyped
  <2> QED
    BY <1>1, <1>2, <2>1, <2>2, OtherMovesSound
<1> QED
  BY <1>5, <1>6

(* The first invocation goes on; it sets the default handler after the     *)
(* flush, and kills after that.                                            *)
LEMMA FirstMovesSound ==
  ASSUME HandlerSound, NEW t \in Threads, frames[t] # <<>>, Top(t).at \in FirstLabels,
         NEW label \in FirstLabels, NEW i \in Nat, frames' = Moved(t, label, i),
         UNCHANGED <<Pointer, installed, g_failure_writer, user, killed_by, signals>>,
         flushed' \in BOOLEAN, flushed => flushed', pending' \subseteq Signals,
         disposition' \in [Signals -> Dispositions],
         \A s \in Signals : \/ disposition'[s] = disposition[s]
                            \/ disposition'[s] = "SIG_DFL" /\ flushed',
         label \in {"kill", "return"} => disposition'[Top(t).signal] = "SIG_DFL",
         label = "return" => Top(t).signal \in pending'
  PROVE  /\ StateTyped' /\ SignalsInv' /\ FramesInv' /\ LiveInv' /\ DefaultInv' /\ Live'
         /\ First'.signal = Top(t).signal /\ First'.at = label /\ First'.i = i
         /\ First = Top(t) /\ Live /\ Pointer # NULL /\ Pointer[1] = t
<1>1. StateTyped /\ SignalsInv /\ FramesInv /\ LiveInv /\ DefaultInv /\ OutputInv
  BY DEF HandlerSound
<1>2. /\ First = Top(t) /\ Live /\ Pointer # NULL /\ Pointer[1] = t /\ ~Reentered
  BY <1>1, FirstAtTop
<1>3. /\ frames' \in [Threads -> Seq(Frame)] /\ SignalsInv' /\ FramesInv' /\ Live'
      /\ First'.signal = First.signal /\ First'.at = label /\ First'.i = i
  BY <1>1, FirstMoves
<1>4. StateTyped'
  BY <1>1, <1>3 DEF StateTyped, Pointer
<1>5. LiveInv'
  BY <1>2, <1>3 DEF LiveInv
<1>6. DefaultInv'
  BY <1>1, <1>2, DefaultKept DEF Installed
<1> QED
  BY <1>2, <1>3, <1>4, <1>5, <1>6

(* What is known of the lines written so far while the first invocation    *)
(* runs.                                                                   *)
LEMMA OutputFacts ==
  ASSUME OutputInv, Pointer # NULL, Live
  PROVE  /\ output \in Seq(Line) /\ Len(output) = Count(First) /\ Len(output) <= Depth + 3
         /\ First.at \in {"time", "PC", "signal"} => First.i = 0
         /\ First.at = "stack" => First.i \in 1..Depth
         /\ First.at \in {"default", "kill", "return"} => flushed
         /\ flushed => Len(output) = Depth + 3
         /\ \A n \in DOMAIN output :
              /\ output[n].by = Pointer[1] /\ output[n].what = What(First.signal, n)
              /\ output[n].i = IF n <= 3 THEN 0 ELSE n - 3
         /\ \A n \in DOMAIN output : output[n].to = "custom" => g_failure_writer = "custom"
BY DEF OutputInv

(* One line more at the end of what has been written. *)
LEMMA LineAppended ==
  ASSUME output \in Seq(Line), NEW line \in Line, output' = Append(output, line)
  PROVE  /\ output' \in Seq(Line) /\ Len(output) \in Nat /\ Len(output') = Len(output) + 1
         /\ output'[Len(output) + 1] = line
         /\ \A n \in DOMAIN output' : n \in DOMAIN output \/ n = Len(output) + 1
         /\ \A n \in DOMAIN output : n \in 1..Len(output) /\ output'[n] = output[n]
<1>1. /\ Len(output') = Len(output) + 1 /\ output' \in Seq(Line)
      /\ output'[Len(output) + 1] = line
      /\ \A n \in 1..Len(output) : output'[n] = output[n]
  BY AppendProperties
<1>2. /\ DOMAIN output = 1..Len(output) /\ DOMAIN output' = 1..(Len(output) + 1)
      /\ Len(output) \in Nat
  BY <1>1
<1> QED
  BY <1>1, <1>2

(* The next line of the dump: what it is, and what follows it. *)
LEMMA WriteOutput ==
  ASSUME HandlerSound, Pointer # NULL, Pointer[1] \in Threads, Live,
         UNCHANGED <<Pointer, flushed, g_failure_writer>>,
         NEW line \in Line, output' = Append(output, line),
         line.by = Pointer[1], line.to = g_failure_writer,
         line.what = What(First.signal, Len(output) + 1),
         line.i = (IF Len(output) + 1 <= 3 THEN 0 ELSE Len(output) + 1 - 3),
         First.signal \in Signals, Len(output) < Depth + 3,
         Live' => /\ First'.signal = First.signal
                  /\ Count(First') = Len(output) + 1
                  /\ First'.at \in {"time", "PC", "signal"} => First'.i = 0
                  /\ First'.at = "stack" => First'.i \in 1..Depth
                  /\ First'.at \notin {"default", "kill", "return"}
  PROVE  OutputInv'
<1>1. /\ output \in Seq(Line) /\ Depth \in Nat /\ OutputInv
  BY BoundsAssumption DEF HandlerSound, OutputInv
<1>2. /\ output' \in Seq(Line) /\ Len(output) \in Nat /\ Len(output') = Len(output) + 1
      /\ output'[Len(output) + 1] = line
      /\ \A n \in DOMAIN output' : n \in DOMAIN output \/ n = Len(output) + 1
      /\ \A n \in DOMAIN output : n \in 1..Len(output) /\ output'[n] = output[n]
  BY <1>1, LineAppended
<1>3. /\ \A n \in DOMAIN output :
           /\ output[n].by = Pointer[1] /\ output[n].what = What(First.signal, n)
           /\ output[n].i = IF n <= 3 THEN 0 ELSE n - 3
      /\ \A n \in DOMAIN output : output[n].to = "custom" => g_failure_writer = "custom"
      /\ flushed => Len(output) = Depth + 3
  BY <1>1, OutputFacts
<1>4. ~flushed
  BY <1>1, <1>2, <1>3
<1>5. \A n \in DOMAIN output' :
        /\ output'[n].by = Pointer[1] /\ output'[n].what = What(First.signal, n)
        /\ output'[n].i = IF n <= 3 THEN 0 ELSE n - 3
        /\ output'[n].to = "custom" => g_failure_writer = "custom"
  <2>1. SUFFICES ASSUME NEW n \in DOMAIN output'
                 PROVE  /\ output'[n].by = Pointer[1]
                        /\ output'[n].what = What(First.signal, n)
                        /\ output'[n].i = IF n <= 3 THEN 0 ELSE n - 3
                        /\ output'[n].to = "custom" => g_failure_writer = "custom"
    OBVIOUS
  <2>2. CASE n = Len(output) + 1
    BY <1>2, <2>2
  <2>3. CASE n \in DOMAIN output
    BY <1>2, <1>3, <2>3
  <2> QED
    BY <1>2, <2>2, <2>3
<1>6. \A m, n \in DOMAIN output' :
        m < n /\ output'[m].to = "custom" => output'[n].to = "custom"
  <2>1. SUFFICES ASSUME NEW m \in DOMAIN output', NEW n \in DOMAIN output', m < n,
                        output'[m].to = "custom"
                 PROVE  output'[n].to = "custom"
    OBVIOUS
  <2>2. CASE n = Len(output) + 1
    BY <1>2, <1>5, <2>1, <2>2
  <2>3. CASE n \in DOMAIN output
    <3>1. m \in DOMAIN output
      BY <1>2, <2>1, <2>3
    <3> QED
      BY <1>1, <1>2, <2>1, <2>3, <3>1 DEF OutputInv
  <2> QED
    BY <1>2, <2>2, <2>3
<1>7. Len(output') <= Depth + 3
  BY <1>1, <1>2
<1>8. /\ Live' => /\ First.signal = First'.signal
                  /\ Len(output') = Count(First')
                  /\ First'.at \in {"time", "PC", "signal"} => First'.i = 0
                  /\ First'.at = "stack" => First'.i \in 1..Depth
                  /\ First'.at \in {"default", "kill", "return"} => flushed'
  BY <1>2
<1> QED
  BY <1>2, <1>4, <1>5, <1>6, <1>7, <1>8 DEF OutputInv

(* Count, label by label. *)
LEMMA CountIs ==
  ASSUME NEW f
  PROVE  /\ f.at = "time" => Count(f) = 0
         /\ f.at = "PC" => Count(f) = 1
         /\ f.at = "signal" => Count(f) = 2
         /\ f.at = "stack" => Count(f) = f.i + 2
         /\ f.at \in {"flush", "default", "kill", "return"} => Count(f) = Depth + 3
BY DEF Count

(* A line of the dump is written by the first invocation. *)
LEMMA WriteSound ==
  ASSUME HandlerSound, NEW t \in Threads, NEW from \in FirstLabels,
         NEW to \in {"PC", "signal", "stack", "flush"}, NEW i \in Nat,
         NEW what \in {"time", "PC", "stack"} \cup Signals, Write(t, from, what, to, i),
         what = What(Top(t).signal, Count(Top(t)) + 1), Top(t).i \in 0..Depth,
         Top(t).i = (IF Count(Top(t)) + 1 <= 3 THEN 0 ELSE Count(Top(t)) + 1 - 3),
         Count(Top(t)) < Depth + 3,
         \A f : f.at = to /\ f.i = i => Count(f) = Count(Top(t)) + 1,
         to \in {"PC", "signal"} => i = 0, to = "stack" => i \in 1..Depth
  PROVE  HandlerSound'
<1>1. /\ AtLabel(t, from) /\ from \in At /\ to \in FirstLabels
      /\ to \notin {"time", "default", "kill", "return"}
  BY DEF Write, At, FirstLabels, Dumping
<1>2. /\ StateTyped /\ OutputInv /\ frames[t] # <<>> /\ Top(t).at = from
      /\ Top(t).signal \in Signals
  BY <1>1, RunningFacts
<1>3. /\ frames' = Moved(t, to, i) /\ output' = Written(t, what, Top(t).i)
      /\ UNCHANGED <<disposition, installed, g_failure_writer, Pointer, user, pending, flushed,
                     killed_by, signals>>
      /\ pending' \subseteq Signals /\ disposition' \in [Signals -> Dispositions]
      /\ flushed' \in BOOLEAN
  BY <1>2 DEF Write, Pointer, StateTyped
<1>4. /\ StateTyped' /\ SignalsInv' /\ FramesInv' /\ LiveInv' /\ DefaultInv' /\ Live'
      /\ First'.signal = Top(t).signal /\ First'.at = to /\ First'.i = i
      /\ First = Top(t) /\ Live /\ Pointer # NULL /\ Pointer[1] = t
  BY <1>1, <1>2, <1>3, FirstMovesSound
<1> DEFINE line == [by |-> t, what |-> what, i |-> Top(t).i, to |-> g_failure_writer]
<1>5. /\ line \in Line /\ output' = Append(output, line)
      /\ line.by = Pointer[1] /\ line.to = g_failure_writer
      /\ line.what = what /\ line.i = Top(t).i
  BY <1>2, <1>3, <1>4 DEF Line, Written, StateTyped
<1> HIDE DEF line
<1>6. Len(output) = Count(Top(t)) /\ Count(First') = Count(Top(t)) + 1
  BY <1>2, <1>4, OutputFacts
<1>7. OutputInv'
  BY <1>1, <1>2, <1>3, <1>4, <1>5, <1>6, WriteOutput
<1> QED
  BY <1>4, <1>7 DEF HandlerSound

(* The four kinds of lines. *)
LEMMA DumpSound ==
  ASSUME HandlerSound, NEW t \in Threads,
         DumpTimeInfo(t) \/ DumpPC(t) \/ DumpSignalInfo(t) \/ DumpStackFrameInfo(t)
  PROVE  HandlerSound'
<1> DEFINE c == Count(Top(t))
<1>1. /\ {"time", "PC", "signal", "stack"} \subseteq FirstLabels /\ FirstLabels \subseteq At
      /\ Depth \in Nat
  BY BoundsAssumption DEF FirstLabels, Dumping, At
<1>2. ASSUME NEW from \in {"time", "PC", "signal", "stack"}, AtLabel(t, from)
      PROVE  /\ Top(t).at = from /\ Top(t).signal \in Signals
             /\ from # "stack" => Top(t).i = 0
             /\ from = "stack" => Top(t).i \in 1..Depth
  <2>1. /\ StateTyped /\ FramesInv /\ OutputInv /\ frames[t] # <<>> /\ Top(t).at = from
        /\ Top(t).signal \in Signals
    BY <1>1, <1>2, RunningFacts
  <2>2. First = Top(t) /\ Live /\ Pointer # NULL
    BY <1>1, <2>1, FirstAtTop
  <2> QED
    BY <1>2, <2>1, <2>2, OutputFacts
<1>3. CASE DumpTimeInfo(t)
  <2>1. Write(t, "time", "time", "PC", 0) /\ Top(t).at = "time" /\ Top(t).i = 0
    BY <1>2, <1>3 DEF DumpTimeInfo, Write
  <2>2. c = 0 /\ \A f : f.at = "PC" => Count(f) = 1
    BY <2>1, CountIs
  <2>3. What(Top(t).signal, 1) = "time"
    BY DEF What
  <2> QED
    BY <1>1, <2>1, <2>2, <2>3, WriteSound
<1>4. CASE DumpPC(t)
  <2>1. Write(t, "PC", "PC", "signal", 0) /\ Top(t).at = "PC" /\ Top(t).i = 0
    BY <1>2, <1>4 DEF DumpPC, Write
  <2>2. c = 1 /\ \A f : f.at = "signal" => Count(f) = 2
    BY <2>1, CountIs
  <2>3. What(Top(t).signal, 2) = "PC"
    BY DEF What
  <2> QED
    BY <1>1, <2>1, <2>2, <2>3, WriteSound
<1>5. CASE DumpSignalInfo(t)
  <2> DEFINE s == Top(t).signal
  <2>1. /\ Write(t, "signal", s, AfterFrame(0), 1)
        /\ Top(t).at = "signal" /\ Top(t).i = 0 /\ s \in Signals
    BY <1>2, <1>5 DEF DumpSignalInfo, Write
  <2>2. c = 2
    BY <2>1, CountIs
  <2>3. /\ s \in {"time", "PC", "stack"} \cup Signals
        /\ s = What(Top(t).signal, c + 1) /\ Top(t).i \in 0..Depth
        /\ Top(t).i = (IF c + 1 <= 3 THEN 0 ELSE c + 1 - 3) /\ c < Depth + 3
        /\ "signal" \in FirstLabels
    BY <1>1, <2>1, <2>2 DEF What
  <2> HIDE DEF s, c
  <2>4. CASE 0 < Depth
    <3>1. /\ AfterFrame(0) = "stack" /\ 1 \in 1..Depth
          /\ \A f : f.at = "stack" /\ f.i = 1 => Count(f) = c + 1
      BY <1>1, <2>2, <2>4, CountIs DEF AfterFrame, MoreFrames
    <3>2. Write(t, "signal", s, "stack", 1)
      BY <2>1, <3>1
    <3> QED
      BY <1>1, <2>3, <3>1, <3>2, WriteSound DEF c
  <2>5. CASE Depth = 0
    <3>1. /\ AfterFrame(0) = "flush"
          /\ \A f : f.at = "flush" /\ f.i = 1 => Count(f) = c + 1
      BY <2>2, <2>5, CountIs DEF AfterFrame, MoreFrames
    <3>2. Write(t, "signal", s, "flush", 1)
      BY <2>1, <3>1
    <3> QED
      BY <1>1, <2>3, <3>1, <3>2, WriteSound DEF c
  <2> QED
    BY <1>1, <2>4, <2>5
<1>6. CASE DumpStackFrameInfo(t)
  <2> DEFINE i == Top(t).i
  <2>1. /\ Write(t, "stack", "stack", AfterFrame(i), i + 1)
        /\ Top(t).at = "stack" /\ i \in 1..Depth
    BY <1>2, <1>6 DEF DumpStackFrameInfo, Write
  <2>2. c = i + 2
    BY <2>1, CountIs
  <2>3. What(Top(t).signal, i + 3) = "stack"
    BY <1>1, <2>1 DEF What
  <2>4. CASE i < Depth
    <3>1. AfterFrame(i) = "stack" /\ \A f : f.at = "stack" /\ f.i = i + 1 => Count(f) = i + 3
      BY <1>1, <2>1, <2>4, CountIs DEF AfterFrame, MoreFrames
    <3> QED
      BY <1>1, <2>1, <2>2, <2>3, <2>4, <3>1, WriteSound
  <2>5. CASE i = Depth
    <3>1. AfterFrame(i) = "flush" /\ \A f : f.at = "flush" => Count(f) = i + 3
      BY <1>1, <2>1, <2>5, CountIs DEF AfterFrame, MoreFrames
    <3> QED
      BY <1>1, <2>1, <2>2, <2>3, <2>5, <3>1, WriteSound
  <2> QED
    BY <1>1, <2>1, <2>4, <2>5
<1> QED
  BY <1>3, <1>4, <1>5, <1>6

(* The dump is complete and the log files are flushed: the first           *)
(* invocation goes on to let its signal kill.                              *)
LEMMA AfterDump ==
  ASSUME HandlerSound, NEW t \in Threads, frames[t] # <<>>,
         Top(t).at \in {"flush", "default", "kill"}, NEW label \in {"default", "kill", "return"},
         frames' = Moved(t, label, 0),
         UNCHANGED <<Pointer, installed, g_failure_writer, user, killed_by, signals, output>>,
         flushed', flushed' \in BOOLEAN, pending' \subseteq Signals,
         disposition' \in [Signals -> Dispositions],
         \A s \in Signals : disposition'[s] = disposition[s] \/ disposition'[s] = "SIG_DFL",
         label \in {"kill", "return"} => disposition'[Top(t).signal] = "SIG_DFL",
         label = "return" => Top(t).signal \in pending'
  PROVE  HandlerSound'
<1>1. /\ {"flush", "default", "kill", "return"} \subseteq FirstLabels
      /\ label \in FirstLabels /\ Top(t).at \in FirstLabels
  BY DEF FirstLabels, Dumping
<1>2. StateTyped /\ FramesInv /\ OutputInv
  BY DEF HandlerSound
<1>3. /\ StateTyped' /\ SignalsInv' /\ FramesInv' /\ LiveInv' /\ DefaultInv' /\ Live'
      /\ First'.signal = Top(t).signal /\ First'.at = label
      /\ First = Top(t) /\ Live /\ Pointer # NULL
  BY <1>1, FirstMovesSound
<1>4. First.signal \in Signals
  BY <1>1, <1>2, FirstAtTop
<1>5. /\ Len(output) = Depth + 3
      /\ \A n \in DOMAIN output :
           /\ output[n].by = Pointer[1] /\ output[n].what = What(First.signal, n)
           /\ output[n].i = IF n <= 3 THEN 0 ELSE n - 3
  BY <1>2, <1>3, CountIs, OutputFacts
<1>6. Count(First') = Depth + 3 /\ First'.at \notin {"time", "PC", "signal", "stack"}
  BY <1>3, CountIs
<1>7. Len(output) <= Depth + 3
  BY <1>2, <1>3, OutputFacts
<1>8. OutputInv'
  BY <1>2, <1>3, <1>4, <1>5, <1>6, <1>7 DEF OutputInv
<1> QED
  BY <1>3, <1>8 DEF HandlerSound

(* The log files are flushed, and the first invocation lets its signal     *)
(* kill.                                                                   *)
LEMMA EndDumpSound ==
  ASSUME HandlerSound, NEW t \in Threads,
         \/ FlushLogFilesUnsafe(t)
         \/ SetDefault(t) /\ AtLabel(t, "default")
         \/ Kill(t) /\ AtLabel(t, "kill")
  PROVE  HandlerSound'
<1>1. {"flush", "default", "kill"} \subseteq FirstLabels /\ FirstLabels \subseteq At
  BY DEF FirstLabels, Dumping, At
<1>2. ASSUME NEW label \in {"flush", "default", "kill"}, AtLabel(t, label)
      PROVE  /\ frames[t] # <<>> /\ Top(t).at = label /\ Top(t).signal \in Signals
             /\ disposition \in [Signals -> Dispositions] /\ pending \subseteq Signals
             /\ flushed \in BOOLEAN
             /\ label \in {"default", "kill"} => flushed
             /\ label = "kill" => disposition[Top(t).signal] = "SIG_DFL"
  <2>1. /\ StateTyped /\ FramesInv /\ LiveInv /\ OutputInv
        /\ frames[t] # <<>> /\ Top(t).at = label /\ Top(t).signal \in Signals
    BY <1>1, <1>2, RunningFacts
  <2>2. First = Top(t) /\ Live /\ Pointer # NULL
    BY <1>1, <2>1, FirstAtTop
  <2>3. label = "kill" => disposition[Top(t).signal] = "SIG_DFL"
    BY <2>1, <2>2 DEF LiveInv
  <2>4. label \in {"default", "kill"} => flushed
    BY <2>1, <2>2, OutputFacts
  <2> QED
    BY <2>1, <2>3, <2>4 DEF StateTyped
<1>3. CASE FlushLogFilesUnsafe(t)
  <2>1. /\ AtLabel(t, "flush") /\ flushed' = TRUE /\ frames' = Moved(t, "default", 0)
        /\ UNCHANGED <<disposition, installed, g_failure_writer, Pointer, user, pending, output,
                       killed_by, signals>>
    BY <1>3 DEF FlushLogFilesUnsafe, Pointer
  <2> QED
    BY <1>2, <2>1, AfterDump
<1>4. CASE SetDefault(t) /\ AtLabel(t, "default")
  <2>1. /\ Top(t).at = "default" /\ Top(t).signal \in Signals /\ flushed /\ frames[t] # <<>>
        /\ disposition \in [Signals -> Dispositions] /\ pending \subseteq Signals
    BY <1>2, <1>4
  <2>2. /\ disposition' = [disposition EXCEPT ![Top(t).signal] = "SIG_DFL"]
        /\ frames' = Moved(t, "kill", 0)
        /\ UNCHANGED <<installed, g_failure_writer, Pointer, user, pending, output, flushed,
                       killed_by, signals>>
    BY <1>4, <2>1 DEF SetDefault, WithDefault, Pointer
  <2>3. /\ disposition' \in [Signals -> Dispositions] /\ disposition'[Top(t).signal] = "SIG_DFL"
        /\ \A s \in Signals : disposition'[s] = disposition[s] \/ disposition'[s] = "SIG_DFL"
    BY <2>1, <2>2 DEF Dispositions
  <2> QED
    BY <1>2, <1>4, <2>1, <2>2, <2>3, AfterDump
<1>5. CASE Kill(t) /\ AtLabel(t, "kill")
  <2>1. /\ Top(t).at = "kill" /\ Top(t).signal \in Signals /\ flushed /\ frames[t] # <<>>
        /\ disposition \in [Signals -> Dispositions] /\ pending \subseteq Signals
        /\ disposition[Top(t).signal] = "SIG_DFL"
    BY <1>2, <1>5
  <2>2. /\ pending' = pending \cup {Top(t).signal} /\ frames' = Moved(t, "return", 0)
        /\ UNCHANGED <<disposition, installed, g_failure_writer, Pointer, user, output, flushed,
                       killed_by, signals>>
    BY <1>5, <2>1 DEF Kill, Pointer
  <2> QED
    BY <1>2, <1>5, <2>1, <2>2, AfterDump
<1> QED
  BY <1>3, <1>4, <1>5

(* The first invocation returns: its signal, which no invocation of its    *)
(* thread blocks any more, is left to kill the process.                    *)
LEMMA ReturnSound ==
  ASSUME HandlerSound, NEW t \in Threads, Return(t)
  PROVE  HandlerSound'
<1>1. AtLabel(t, "return") /\ "return" \in At /\ "return" \in FirstLabels
  BY DEF Return, At, FirstLabels
<1>2. /\ StateTyped /\ SignalsInv /\ FramesInv /\ LiveInv /\ DefaultInv /\ OutputInv
      /\ frames[t] # <<>> /\ Top(t).at = "return" /\ Running
      /\ Top(t) = frames[t][Len(frames[t])] /\ Len(frames[t]) \in 1..Len(frames[t])
  BY <1>1, RunningFacts
<1>3. /\ Pointer # NULL /\ Live /\ Pointer[1] = t /\ Pointer[2] = Len(frames[t])
      /\ First = Top(t) /\ First.signal \in Signals /\ ~Reentered
  BY <1>1, <1>2, FirstAtTop
<1>4. /\ UNCHANGED <<disposition, installed, g_failure_writer, Pointer, user, pending, output,
                     flushed, killed_by, signals>>
      /\ frames' = [frames EXCEPT ![t] = Front(@)]
  BY DEF Return, Pointer
<1>5. frames' \in [Threads -> Seq(Frame)] /\ Returns(t)
  BY <1>2, <1>4, ReturnFacts
<1>6. \A r \in Threads : /\ Len(frames[r]) \in Nat /\ Len(frames'[r]) \in Nat
                         /\ Len(frames'[r]) <= Len(frames[r])
  BY <1>2, <1>5, StackFacts DEF Returns
<1>7. \A r \in Threads : \A n \in 1..Len(frames'[r]) :
        n \in 1..Len(frames[r]) /\ frames'[r][n] = frames[r][n]
  BY <1>5, <1>6 DEF Returns
<1>8. StateTyped'
  BY <1>2, <1>4, <1>5 DEF StateTyped, Pointer
<1>9. SignalsInv'
  BY <1>2, <1>4, <1>5, SignalsKept DEF SignalsInv, Installed
<1>10. FramesInv'
  BY <1>2, <1>4, <1>7 DEF FramesInv, Positions
<1>11. Len(frames'[t]) = Len(frames[t]) - 1
  BY <1>5 DEF Returns
<1>12. ~Live'
  BY <1>2, <1>3, <1>4, <1>6, <1>11 DEF Live, Positions
<1>13. Doomed'
  <2>1. /\ First.signal \in pending /\ disposition[First.signal] = "SIG_DFL"
        /\ First.signal \in Installed
    BY <1>2, <1>3 DEF LiveInv, SignalsInv, Positions
  <2>2. Blocked(t)' = {frames'[t][n].signal : n \in 1..Len(frames'[t])}
    BY <1>5 DEF Blocked
  <2>3. \A n \in 1..Len(frames'[t]) : n # Len(frames[t]) /\ n \in 1..Len(frames[t])
    BY <1>6, <1>7, <1>11
  <2>4. \A n \in 1..Len(frames'[t]) : frames'[t][n].signal # First.signal
    BY <1>2, <1>3, <1>7, <2>3 DEF SignalsInv, Positions
  <2>5. First.signal \notin Blocked(t)'
    BY <2>2, <2>4
  <2>6. Pointer'[1] = t /\ Installed' = Installed
    BY <1>3, <1>4 DEF Installed
  <2>7. \A s : s \notin Blocked(t)' => s \notin Blocked(Pointer[1])'
    BY <2>6 DEF Blocked
  <2> QED
    BY <1>4, <2>1, <2>5, <2>6, <2>7 DEF Doomed
<1>14. LiveInv'
  BY <1>12, <1>13 DEF LiveInv
<1>15. DefaultInv'
  BY <1>2, <1>3, <1>4, DefaultKept DEF Installed
<1>16. OutputInv'
  BY <1>2, <1>4, <1>12, OutputKept
<1> QED
  BY <1>8, <1>9, <1>10, <1>14, <1>15, <1>16 DEF HandlerSound

-----------------------------------------------------------------------------
(* Steps of the kernel and of the program around the handler *)

(* A signal for which the handler is installed interrupts a thread that    *)
(* does not block it: the first invocation stays where it is.              *)
LEMMA InterruptedSound ==
  ASSUME HandlerSound, NEW t \in Threads, NEW s \in Signals, s \notin Blocked(t),
         disposition[s] # "SIG_DFL",
         frames' = [frames EXCEPT ![t] = Append(@, Entering(s))],
         UNCHANGED <<disposition, installed, g_failure_writer, Pointer, output, flushed,
                     killed_by>>,
         pending' \subseteq pending, \A r \in pending : r # s => r \in pending',
         user' \in [Threads -> {"run", "fail", "abort", "aborted"}],
         \A r \in Threads : user[r] \in {"abort", "aborted"} => user'[r] \in {"abort", "aborted"},
         signals' \in 0..MaxSignals
  PROVE  HandlerSound'
<1>1. StateTyped /\ SignalsInv /\ FramesInv /\ LiveInv /\ DefaultInv /\ OutputInv
  BY DEF HandlerSound
<1>2. frames' \in [Threads -> Seq(Frame)] /\ IsInterrupted(t, s)
  BY <1>1, InterruptedFacts
<1>3. s \in Installed
  BY <1>1 DEF SignalsInv, StateTyped, Dispositions
<1>4. StateTyped'
  BY <1>1, <1>2 DEF StateTyped, Pointer
<1>5. SignalsInv'
  BY <1>1, <1>2, <1>3, SignalsKept DEF SignalsInv, Installed
<1>6. \A r \in Threads : Len(frames[r]) \in Nat
  BY <1>1, StackFacts
<1>7. /\ Entering(s).at = "enter" /\ Entering(s).signal = s
      /\ "enter" \notin FirstLabels
  BY DEF Entering, FirstLabels, Dumping
<1>8. FramesInv'
  <2>1. SUFFICES ASSUME NEW r \in Threads, NEW n \in 1..Len(frames'[r])
                 PROVE  /\ frames'[r][n].at # "enter" => Pointer # NULL
                        /\ frames'[r][n].at \in FirstLabels => Pointer = <<r, n>>
                        /\ frames'[r][n].at \in {"again_default", "again_kill"} =>
                             Pointer[1] = r /\ Pointer[2] < n
    BY DEF FramesInv, Positions
  <2>2. CASE r = t /\ n = Len(frames[t]) + 1
    BY <1>2, <1>7, <2>2 DEF IsInterrupted
  <2>3. CASE n \in 1..Len(frames[r])
    BY <1>1, <1>2, <2>3 DEF IsInterrupted, FramesInv, Positions
  <2> QED
    BY <1>2, <1>6, <2>2, <2>3 DEF IsInterrupted
<1>9. ASSUME Pointer # NULL, Live PROVE Live' /\ First' = First
  <2>1. Pointer[1] \in Threads /\ Pointer[2] \in 1..Len(frames[Pointer[1]])
    BY <1>1, <1>9, PointerTyped DEF Live, Positions
  <2>2. /\ frames'[Pointer[1]][Pointer[2]] = frames[Pointer[1]][Pointer[2]]
        /\ Pointer[2] \in 1..Len(frames'[Pointer[1]])
    BY <1>2, <1>6, <2>1 DEF IsInterrupted
  <2> QED
    BY <1>9, <2>2 DEF Live, First, Positions
<1>10. ASSUME Pointer # NULL, Live' PROVE Live
  <2>1. Pointer[1] \in Threads /\ Pointer[2] \in 1..Len(frames'[Pointer[1]])
    BY <1>1, <1>10, PointerTyped DEF Live, Positions
  <2>2. frames'[Pointer[1]][Pointer[2]].at \in FirstLabels
    BY <1>10 DEF Live, First
  <2>3. ~(Pointer[1] = t /\ Pointer[2] = Len(frames[t]) + 1)
    BY <1>2, <1>7, <2>2 DEF IsInterrupted
  <2>4. Pointer[2] \in 1..Len(frames[Pointer[1]])
    BY <1>2, <1>6, <2>1, <2>3 DEF IsInterrupted
  <2> QED
    BY <1>2, <2>1, <2>2, <2>4 DEF IsInterrupted, Live, First, Positions
<1>11. ASSUME Pointer # NULL, Doomed PROVE Doomed'
  <2>1. PICK r \in pending : /\ r \notin Blocked(Pointer[1]) /\ disposition[r] = "SIG_DFL"
                             /\ r \in Installed
    BY <1>11 DEF Doomed
  <2>2. Pointer[1] \in Threads
    BY <1>1, <1>11, PointerTyped
  <2>3. /\ Blocked(Pointer[1]) = {frames[Pointer[1]][n].signal : n \in 1..Len(frames[Pointer[1]])}
        /\ Blocked(Pointer[1])' = {frames'[Pointer[1]][n].signal : n \in 1..Len(frames'[Pointer[1]])}
    BY <1>1, <1>2, <2>2, BlockedIs DEF StateTyped, Blocked
  <2>4. ASSUME NEW n \in 1..Len(frames'[Pointer[1]])
        PROVE  frames'[Pointer[1]][n].signal # r
    <3>1. CASE Pointer[1] = t /\ n = Len(frames[t]) + 1
      BY <1>2, <1>7, <2>1, <3>1 DEF IsInterrupted
    <3>2. CASE n \in 1..Len(frames[Pointer[1]])
      BY <1>2, <2>1, <2>2, <2>3, <3>2 DEF IsInterrupted
    <3> QED
      BY <1>2, <1>6, <2>2, <3>1, <3>2 DEF IsInterrupted
  <2>5. r \notin Blocked(Pointer[1])'
    BY <2>3, <2>4
  <2>6. r \in pending' /\ Installed' = Installed
    BY <2>1 DEF Installed
  <2> QED
    BY <2>1, <2>5, <2>6 DEF Doomed
<1>12. LiveInv'
  BY <1>1, <1>9, <1>10, <1>11, LiveKept DEF Running
<1>13. Reentered => Reentered'
  BY <1>1, <1>2, <1>6, PointerTyped DEF Reentered, Dumper, DumperFrame, Pointer, IsInterrupted
<1>14. DefaultInv'
  BY <1>1, <1>13, DefaultKept DEF Installed
<1>15. OutputInv'
  BY <1>1, <1>9, <1>10, OutputKept
<1> QED
  BY <1>4, <1>5, <1>8, <1>12, <1>14, <1>15 DEF HandlerSound

(* Neither the invocations nor what they have written change; default      *)
(* handlers are set only in abort().                                       *)
LEMMA StacksUnchanged ==
  ASSUME HandlerSound, StateTyped', UNCHANGED <<frames, Pointer, output, flushed>>,
         Running' => Running /\ pending \subseteq pending',
         g_failure_writer = "custom" => g_failure_writer' = "custom",
         \A r \in Threads : user[r] \in {"abort", "aborted"} => user'[r] \in {"abort", "aborted"},
         \A s \in Signals : s \in Installed => s \in Installed',
         \A s \in Signals : disposition'[s] = "FailureSignalHandler" => s \in Installed',
         \A s \in Signals : s \in Installed /\ disposition[s] = "SIG_DFL" =>
                               disposition'[s] = "SIG_DFL",
         \A s \in Signals : s \in Installed' /\ disposition'[s] = "SIG_DFL" =>
           \/ s \in Installed /\ disposition[s] = "SIG_DFL"
           \/ s = SIGABRT /\ \E t \in Threads : user'[t] \in {"abort", "aborted"}
  PROVE  HandlerSound'
<1>1. StateTyped /\ SignalsInv /\ FramesInv /\ LiveInv /\ DefaultInv /\ OutputInv
  BY DEF HandlerSound
<1>2. SignalsInv'
  BY <1>1, SignalsKept DEF StateTyped
<1>3. FramesInv'
  BY <1>1 DEF FramesInv, Positions
<1>4. (Live' <=> Live) /\ First' = First /\ (Reentered' <=> Reentered)
  BY DEF Live, First, Positions, Reentered, Dumper, DumperFrame, Pointer
<1>5. ASSUME Running', Doomed PROVE Doomed'
  <2>1. \A s : s \in Blocked(Pointer[1])' <=> s \in Blocked(Pointer[1])
    BY DEF Blocked
  <2> QED
    BY <1>1, <1>5, <2>1 DEF Doomed, StateTyped
<1>6. LiveInv'
  BY <1>1, <1>4, <1>5, LiveKept
<1>7. DefaultInv'
  BY <1>1, <1>4, DefaultKept
<1>8. OutputInv'
  BY <1>1, <1>4, OutputKept
<1> QED
  BY <1>2, <1>3, <1>6, <1>7, <1>8 DEF HandlerSound

(* The dump, line by line. *)
LEMMA DumpIs ==
  ASSUME NEW t, NEW s
  PROVE  /\ DOMAIN Dump(t, s) = 1..(Depth + 3) /\ Depth \in Nat
         /\ Dump(t, s) = [n \in 1..(Depth + 3) |-> Dump(t, s)[n]]
         /\ \A n \in 1..(Depth + 3) :
              Dump(t, s)[n] = [by |-> t, what |-> What(s, n),
                               i |-> IF n <= 3 THEN 0 ELSE n - 3]
<1> DEFINE head == <<[by |-> t, what |-> "time", i |-> 0],
                     [by |-> t, what |-> "PC", i |-> 0],
                     [by |-> t, what |-> s, i |-> 0]>>
           stack == [i \in 1..Depth |-> [by |-> t, what |-> "stack", i |-> i]]
           M == {head[1], head[2], head[3]} \cup {[by |-> t, what |-> "stack", i |-> i] : i \in 1..Depth}
<1>1. Depth \in Nat
  BY BoundsAssumption
<1>2. head \in Seq(M) /\ Len(head) = 3
  OBVIOUS
<1>3. stack \in Seq(M) /\ Len(stack) = Depth
  BY <1>1
<1>4. /\ head[1] = [by |-> t, what |-> "time", i |-> 0]
      /\ head[2] = [by |-> t, what |-> "PC", i |-> 0]
      /\ head[3] = [by |-> t, what |-> s, i |-> 0]
      /\ \A n \in 1..Depth : stack[n] = [by |-> t, what |-> "stack", i |-> n]
  OBVIOUS
<1>5. Dump(t, s) = head \o stack
  BY DEF Dump
<1> HIDE DEF head, stack, M
<1>6. /\ Dump(t, s) \in Seq(M) /\ Len(Dump(t, s)) = Depth + 3
      /\ \A n \in 1..3 : Dump(t, s)[n] = head[n]
      /\ \A n \in 4..(Depth + 3) : Dump(t, s)[n] = stack[n - 3]
  <2>1. /\ head \o stack \in Seq(M) /\ Len(head \o stack) = Len(head) + Len(stack)
        /\ \A n \in 1..(Len(head) + Len(stack)) :
             (head \o stack)[n] = IF n <= Len(head) THEN head[n] ELSE stack[n - Len(head)]
    BY <1>2, <1>3, ConcatProperties
  <2>2. \A n \in 1..(Depth + 3) :
          (head \o stack)[n] = IF n <= 3 THEN head[n] ELSE stack[n - 3]
    BY <1>1, <1>2, <1>3, <2>1
  <2>3. /\ \A n \in 1..3 : n \in 1..(Depth + 3) /\ n <= 3
        /\ \A n \in 4..(Depth + 3) : n \in 1..(Depth + 3) /\ ~(n <= 3)
    BY <1>1
  <2> QED
    BY <1>1, <1>2, <1>3, <1>5, <2>1, <2>2, <2>3
<1>7. /\ DOMAIN Dump(t, s) = 1..(Depth + 3)
      /\ Dump(t, s) = [n \in 1..(Depth + 3) |-> Dump(t, s)[n]]
  BY <1>1, <1>6
<1>8. ASSUME NEW n \in 1..(Depth + 3)
      PROVE  Dump(t, s)[n] = [by |-> t, what |-> What(s, n), i |-> IF n <= 3 THEN 0 ELSE n - 3]
  <2>1. CASE n = 1
    BY <1>4, <1>6, <2>1 DEF What
  <2>2. CASE n = 2
    BY <1>4, <1>6, <2>2 DEF What
  <2>3. CASE n = 3
    BY <1>4, <1>6, <2>3 DEF What
  <2>4. CASE n \in 4..(Depth + 3)
    <3>1. n - 3 \in 1..Depth /\ ~(n <= 3)
      BY <1>1, <2>4
    <3>2. What(s, n) = "stack"
      BY <2>4 DEF What
    <3> QED
      BY <1>4, <1>6, <2>4, <3>1, <3>2
  <2> QED
    BY <1>1, <2>1, <2>2, <2>3, <2>4
<1> QED
  BY <1>1, <1>7, <1>8

(* The dump is complete once the log files are flushed. *)
LEMMA FlushedIsComplete ==
  ASSUME OutputInv, Pointer # NULL, flushed
  PROVE  Complete
<1>1. PICK s \in Signals :
        /\ Len(output) = Depth + 3
        /\ \A n \in DOMAIN output :
             /\ output[n].by = Pointer[1] /\ output[n].what = What(s, n)
             /\ output[n].i = IF n <= 3 THEN 0 ELSE n - 3
  BY DEF OutputInv
<1>2. output \in Seq(Line) /\ DOMAIN output = 1..(Depth + 3)
  BY <1>1 DEF OutputInv
<1>3. DOMAIN Lines = 1..(Depth + 3) /\ Lines = [n \in 1..(Depth + 3) |-> Lines[n]]
  BY <1>2 DEF Lines
<1>4. /\ Dump(Dumper, s) = [n \in 1..(Depth + 3) |-> Dump(Dumper, s)[n]]
      /\ \A n \in 1..(Depth + 3) :
           Dump(Dumper, s)[n] = [by |-> Dumper, what |-> What(s, n),
                                 i |-> IF n <= 3 THEN 0 ELSE n - 3]
  BY DumpIs
<1>5. \A n \in 1..(Depth + 3) : Lines[n] = Dump(Dumper, s)[n]
  BY <1>1, <1>2, <1>4 DEF Lines, Dumper, Pointer
<1>6. Lines = Dump(Dumper, s)
  BY <1>3, <1>4, <1>5
<1> QED
  BY <1>6 DEF Complete

(* A signal that has the default handler kills the process, or one that    *)
(* the dumping thread blocks, or the second SIGABRT of abort().            *)
LEMMA DeathSound ==
  ASSUME HandlerSound, NEW s \in Signals, killed_by' = s,
         UNCHANGED <<frames, disposition, installed, g_failure_writer, Pointer, output, flushed>>,
         pending' \subseteq Signals,
         user' \in [Threads -> {"run", "fail", "abort", "aborted"}],
         \A r \in Threads : user[r] \in {"abort", "aborted"} => user'[r] \in {"abort", "aborted"},
         signals' \in 0..MaxSignals,
         \/ disposition[s] = "SIG_DFL"
         \/ Pointer # NULL => s \in Blocked(Pointer[1])
         \/ s = SIGABRT /\ \E t \in Threads : user'[t] \in {"abort", "aborted"}
  PROVE  IInv'
<1>1. StateTyped /\ SignalsInv /\ DefaultInv /\ OutputInv
  BY DEF HandlerSound
<1>2. StateTyped' /\ ~Running'
  BY <1>1, NullAssumption DEF StateTyped, Pointer, Running
<1>3. HandlerSound'
  BY <1>1, <1>2, StacksUnchanged DEF SignalsInv, Installed
<1>4. ASSUME Pointer # NULL
      PROVE  \/ Complete'
             \/ Reentered'
             \/ s \in Blocked(Pointer[1])' /\ disposition[s] # "SIG_DFL"
             \/ s = SIGABRT /\ \E t \in Threads : user'[t] \in {"abort", "aborted"}
             \/ \E n \in (installed + 1)..Len(kFailureSignals) : s = kFailureSignals[n]
  <2>1. CASE disposition[s] = "SIG_DFL" /\ s \in Installed
    <3>1. \/ flushed \/ Reentered
          \/ s = SIGABRT /\ \E t \in Threads : user[t] \in {"abort", "aborted"}
      BY <1>1, <2>1 DEF DefaultInv
    <3>2. flushed => Complete
      BY <1>1, <1>4, FlushedIsComplete
    <3>3. (Complete => Complete') /\ (Reentered => Reentered')
      BY DEF Complete, Lines, Reentered, Dumper, DumperFrame, Pointer
    <3> QED
      BY <3>1, <3>2, <3>3
  <2>2. CASE s \notin Installed
    <3>1. PICK n \in DOMAIN kFailureSignals : s = kFailureSignals[n]
      BY DEF Signals
    <3>2. n \in 1..Len(kFailureSignals) /\ installed \in Nat
      BY <1>1, <3>1, SignalsAssumption DEF StateTyped
    <3>3. n \notin 1..installed
      BY <2>2, <3>1 DEF Installed
    <3> QED
      BY <3>1, <3>2, <3>3
  <2>3. CASE disposition[s] # "SIG_DFL"
    BY <1>4, <2>3 DEF Blocked
  <2> QED
    BY <2>1, <2>2, <2>3
<1>5. DumpBeforeDeath'
  BY <1>4 DEF DumpBeforeDeath, Dumper, Pointer, Blocked
<1> QED
  BY <1>3, <1>5 DEF IInv

(* The process dies only of a step that says so. *)
LEMMA AliveSound ==
  ASSUME HandlerSound', Running, UNCHANGED killed_by
  PROVE  IInv'
BY DEF IInv, DumpBeforeDeath, Running

(* A signal sent to the process waits to be taken. *)
LEMMA SendSound ==
  ASSUME IInv, NEW s \in Signals, Send(s)
  PROVE  IInv'
<1>1. HandlerSound /\ StateTyped /\ SignalsInv /\ Running
  BY DEF IInv, HandlerSound, Send
<1>2. /\ UNCHANGED <<disposition, installed, g_failure_writer, Pointer, frames, user, output,
                     flushed, killed_by>>
      /\ pending' = pending \cup {s} /\ signals' \in 0..MaxSignals
  BY <1>1, BoundsAssumption DEF Send, Pointer, StateTyped
<1>3. StateTyped' /\ (Running' <=> Running)
  BY <1>1, <1>2 DEF StateTyped, Pointer, Running
<1>4. HandlerSound'
  BY <1>1, <1>2, <1>3, StacksUnchanged DEF SignalsInv, Installed
<1> QED
  BY <1>1, <1>2, <1>4, AliveSound

(* A signal that thread t does not block interrupts it. *)
LEMMA InterruptSound ==
  ASSUME HandlerSound, NEW t \in Threads, NEW s \in Signals, s \notin Blocked(t), Running,
         Interrupt(t, s),
         UNCHANGED <<disposition, installed, g_failure_writer, Pointer, output, flushed>>,
         pending' \subseteq pending, \A r \in pending : r # s => r \in pending',
         user' \in [Threads -> {"run", "fail", "abort", "aborted"}],
         \A r \in Threads : user[r] \in {"abort", "aborted"} => user'[r] \in {"abort", "aborted"},
         signals' \in 0..MaxSignals
  PROVE  IInv'
<1>1. pending \subseteq Signals
  BY DEF HandlerSound, StateTyped
<1>2. CASE disposition[s] = "SIG_DFL"
  <2>1. killed_by' = s /\ UNCHANGED frames
    BY <1>2 DEF Interrupt
  <2> QED
    BY <1>1, <1>2, <2>1, DeathSound
<1>3. CASE disposition[s] # "SIG_DFL"
  <2>1. frames' = [frames EXCEPT ![t] = Append(@, Entering(s))] /\ UNCHANGED killed_by
    BY <1>3 DEF Interrupt
  <2>2. HandlerSound'
    BY <1>3, <2>1, InterruptedSound
  <2> QED
    BY <2>1, <2>2, AliveSound
<1> QED
  BY <1>2, <1>3

(* A pending signal is taken. *)
LEMMA TakeSound ==
  ASSUME IInv, NEW t \in Threads, NEW s \in Signals, Take(t, s)
  PROVE  IInv'
<1>1. HandlerSound /\ StateTyped
  BY DEF IInv, HandlerSound
<1>2. /\ Running /\ s \notin Blocked(t) /\ Interrupt(t, s) /\ pending' = pending \ {s}
      /\ UNCHANGED <<disposition, installed, g_failure_writer, Pointer, user, output, flushed,
                     signals>>
  BY DEF Take, Pointer
<1> QED
  BY <1>1, <1>2, InterruptSound DEF StateTyped

(* An instruction faults: in the handler that is the first invocation's.   *)
LEMMA FaultSound ==
  ASSUME IInv, NEW t \in Threads, NEW s \in Faults, Fault(t, s)
  PROVE  IInv'
<1>1. HandlerSound /\ StateTyped /\ FramesInv /\ s \in Signals
  BY SignalsAssumption DEF IInv, HandlerSound
<1>2. /\ Running /\ (frames[t] # <<>> => Top(t).at \in Dumping)
      /\ UNCHANGED <<disposition, installed, g_failure_writer, Pointer, user, pending, output,
                     flushed>>
      /\ signals' \in 0..MaxSignals
  BY <1>1, BoundsAssumption DEF Fault, Undisturbed, Pointer, StateTyped
<1>3. CASE s \in Blocked(t)
  <2>1. killed_by' = s /\ UNCHANGED frames
    BY <1>3 DEF Fault
  <2>2. frames[t] # <<>>
    BY <1>3 DEF Blocked
  <2>3. Pointer[1] = t
    BY <1>1, <1>2, <2>2, FirstAtTop DEF FirstLabels
  <2> QED
    BY <1>1, <1>2, <1>3, <2>1, <2>3, DeathSound DEF StateTyped
<1>4. CASE s \notin Blocked(t)
  <2>1. Interrupt(t, s)
    BY <1>4 DEF Fault
  <2> QED
    BY <1>1, <1>2, <1>4, <2>1, InterruptSound DEF StateTyped
<1> QED
  BY <1>3, <1>4

(* One more signal gets the handler; it had none before. *)
LEMMA InstallSound ==
  ASSUME IInv, InstallFailureSignalHandler
  PROVE  IInv'
<1> DEFINE s == kFailureSignals[installed + 1]
<1>1. HandlerSound /\ StateTyped /\ SignalsInv
  BY DEF IInv, HandlerSound
<1>2. /\ UNCHANGED <<g_failure_writer, Pointer, frames, user, pending, output, flushed, killed_by,
                     signals>>
      /\ disposition' = [disposition EXCEPT ![s] = "FailureSignalHandler"]
      /\ installed' = installed + 1 /\ installed < Len(kFailureSignals) /\ Running
  BY DEF InstallFailureSignalHandler, Pointer, InUser, Undisturbed
<1>3. /\ installed \in Nat /\ Len(kFailureSignals) \in Nat
      /\ DOMAIN kFailureSignals = 1..Len(kFailureSignals)
      /\ disposition \in [Signals -> Dispositions]
  BY <1>1, SignalsAssumption DEF StateTyped
<1>4. installed + 1 \in DOMAIN kFailureSignals /\ 1..installed \subseteq DOMAIN kFailureSignals
  BY <1>2, <1>3
<1>5. s \in Signals
  BY <1>4 DEF Signals
<1>6. s \notin Installed
  <2>1. ASSUME NEW n \in 1..installed PROVE kFailureSignals[n] # s
    BY <1>3, <1>4, SignalsAssumption
  <2> QED
    BY <2>1 DEF Installed
<1>7. \A r : r \in Installed' <=> r \in Installed \/ r = s
  BY <1>2, <1>3 DEF Installed
<1> HIDE DEF s
<1>8. /\ disposition' \in [Signals -> Dispositions] /\ disposition'[s] = "FailureSignalHandler"
      /\ \A r \in Signals : r # s => disposition'[r] = disposition[r]
  BY <1>2, <1>3, <1>5 DEF Dispositions
<1>9. StateTyped'
  BY <1>1, <1>2, <1>3, <1>8 DEF StateTyped, Pointer
<1>10. HandlerSound'
  BY <1>1, <1>2, <1>6, <1>7, <1>8, <1>9, StacksUnchanged DEF SignalsInv
<1> QED
  BY <1>2, <1>10, AliveSound

(* A custom writer, a LOG(FATAL) that begins to fail, and the default      *)
(* handler it sets for abort().                                            *)
LEMMA ProgramSound ==
  ASSUME IInv,
         InstallFailureWriter \/ \E t \in Threads : Fail(t) \/ ResetAbort(t)
  PROVE  IInv'
<1>1. HandlerSound /\ StateTyped /\ SignalsInv
  BY DEF IInv, HandlerSound
<1>2. CASE InstallFailureWriter
  <2>1. /\ UNCHANGED <<disposition, installed, Pointer, frames, user, pending, output, flushed,
                       killed_by, signals>>
        /\ g_failure_writer' = "custom" /\ Running
    BY <1>2 DEF InstallFailureWriter, Pointer, InUser, Undisturbed
  <2>2. StateTyped'
    BY <1>1, <2>1 DEF StateTyped, Pointer, Writers
  <2>3. HandlerSound'
    BY <1>1, <2>1, <2>2, StacksUnchanged DEF SignalsInv, Installed, Running
  <2> QED
    BY <2>1, <2>3, AliveSound
<1>3. ASSUME NEW t \in Threads, Fail(t) PROVE IInv'
  <2>1. /\ UNCHANGED <<disposition, installed, g_failure_writer, Pointer, frames, pending, output,
                       flushed, killed_by, signals>>
        /\ user' = [user EXCEPT ![t] = "fail"] /\ user[t] = "run" /\ Running
    BY <1>3 DEF Fail, Pointer, InUser, Undisturbed
  <2>2. StateTyped'
    BY <1>1, <2>1 DEF StateTyped, Pointer
  <2>3. \A r \in Threads : user[r] \in {"abort", "aborted"} => user'[r] \in {"abort", "aborted"}
    BY <1>1, <2>1 DEF StateTyped
  <2>4. HandlerSound'
    BY <1>1, <2>1, <2>2, <2>3, StacksUnchanged DEF SignalsInv, Installed, Running
  <2> QED
    BY <2>1, <2>4, AliveSound
<1>4. ASSUME NEW t \in Threads, ResetAbort(t) PROVE IInv'
  <2>1. /\ UNCHANGED <<installed, g_failure_writer, Pointer, frames, pending, output, flushed,
                       killed_by, signals>>
        /\ user' = [user EXCEPT ![t] = "abort"] /\ user[t] = "fail" /\ Running
    BY <1>4 DEF ResetAbort, Pointer, InUser, Undisturbed
  <2>2. /\ disposition' \in [Signals -> Dispositions]
        /\ \A s \in Signals : \/ disposition'[s] = disposition[s]
                              \/ disposition'[s] = "SIG_DFL" /\ s = SIGABRT
    BY <1>1, <1>4 DEF ResetAbort, StateTyped, Dispositions
  <2>3. StateTyped'
    BY <1>1, <2>1, <2>2 DEF StateTyped, Pointer
  <2>4. /\ user'[t] \in {"abort", "aborted"}
        /\ \A r \in Threads : user[r] \in {"abort", "aborted"} =>
                               user'[r] \in {"abort", "aborted"}
    BY <1>1, <2>1 DEF StateTyped
  <2>5. Installed' = Installed /\ (Running' <=> Running)
    BY <2>1 DEF Installed, Running
  <2>6. HandlerSound'
    BY <1>1, <2>1, <2>2, <2>3, <2>4, <2>5, StacksUnchanged DEF SignalsInv
  <2> QED
    BY <2>1, <2>6, AliveSound
<1> QED
  BY <1>2, <1>3, <1>4

(* abort() raises SIGABRT, once for the handler and once by default. *)
LEMMA AbortSound ==
  ASSUME IInv, NEW t \in Threads, Abort(t)
  PROVE  IInv'
<1>1. HandlerSound /\ StateTyped /\ SIGABRT \in Signals
  BY SignalsAssumption DEF IInv, HandlerSound
<1>2. /\ UNCHANGED <<disposition, installed, g_failure_writer, Pointer, pending, output, flushed,
                     signals>>
      /\ user' = [user EXCEPT ![t] = "aborted"] /\ user[t] \in {"abort", "aborted"} /\ Running
      /\ frames[t] = <<>>
  BY DEF Abort, Pointer, InUser, Undisturbed
<1>3. /\ user' \in [Threads -> {"run", "fail", "abort", "aborted"}] /\ user'[t] = "aborted"
      /\ \A r \in Threads : user[r] \in {"abort", "aborted"} => user'[r] \in {"abort", "aborted"}
  BY <1>1, <1>2 DEF StateTyped
<1>4. CASE user[t] = "abort"
  <2>1. Interrupt(t, SIGABRT) /\ SIGABRT \notin Blocked(t)
    BY <1>2, <1>4 DEF Abort, Blocked
  <2> QED
    BY <1>1, <1>2, <1>3, <2>1, InterruptSound DEF StateTyped
<1>5. CASE user[t] # "abort"
  <2>1. killed_by' = SIGABRT /\ UNCHANGED frames
    BY <1>5 DEF Abort
  <2> QED
    BY <1>1, <1>2, <1>3, <2>1, DeathSound DEF StateTyped
<1> QED
  BY <1>4, <1>5

(* A step of FailureSignalHandler. *)
LEMMA HandlerStepSound ==
  ASSUME IInv, NEW t \in Threads, HandlerStep(t)
  PROVE  IInv'
<1>1. HandlerSound
  BY DEF IInv
<1>2. Running /\ UNCHANGED killed_by
  BY DEF HandlerStep, Enter, Check, DumpTimeInfo, DumpPC, DumpSignalInfo, DumpStackFrameInfo,
     Write, FlushLogFilesUnsafe, SetDefault, Kill, Return, AtLabel, Undisturbed
<1>3. HandlerSound'
  <2>1. CASE Enter(t)
    BY <1>1, <2>1, EnterSound
  <2>2. CASE Check(t)
    BY <1>1, <2>2, CheckSound
  <2>3. CASE DumpTimeInfo(t) \/ DumpPC(t) \/ DumpSignalInfo(t) \/ DumpStackFrameInfo(t)
    BY <1>1, <2>3, DumpSound
  <2>4. CASE FlushLogFilesUnsafe(t)
    BY <1>1, <2>4, EndDumpSound
  <2>5. CASE SetDefault(t)
    <3>1. AtLabel(t, "default") \/ AtLabel(t, "again_default")
      BY <2>5 DEF SetDefault
    <3> QED
      BY <1>1, <2>5, <3>1, EndDumpSound, AgainSound
  <2>6. CASE Kill(t)
    <3>1. AtLabel(t, "kill") \/ AtLabel(t, "again_kill")
      BY <2>6 DEF Kill
    <3> QED
      BY <1>1, <2>6, <3>1, EndDumpSound, AgainSound
  <2>7. CASE Return(t)
    BY <1>1, <2>7, ReturnSound
  <2> QED
    BY <2>1, <2>2, <2>3, <2>4, <2>5, <2>6, <2>7 DEF HandlerStep
<1> QED
  BY <1>2, <1>3, AliveSound

(* Sequences that agree up to n have the same beginning. *)
LEMMA PrefixEqual ==
  ASSUME NEW q, NEW r, NEW n \in Nat, \A i \in 1..n : q[i] = r[i]
  PROVE  SubSeq(q, 1, n) = SubSeq(r, 1, n)
<1> DEFINE M == {q[i] : i \in 1..n}
<1>1. /\ SubSeq(q, 1, n) \in Seq(M) /\ Len(SubSeq(q, 1, n)) = n
      /\ \A i \in 1..n : SubSeq(q, 1, n)[i] = q[i]
  BY SubSeqProperties
<1>2. /\ SubSeq(r, 1, n) \in Seq(M) /\ Len(SubSeq(r, 1, n)) = n
      /\ \A i \in 1..n : SubSeq(r, 1, n)[i] = r[i]
  BY SubSeqProperties
<1> HIDE DEF M
<1> QED
  BY <1>1, <1>2, SeqEqual

-----------------------------------------------------------------------------
(* The theorems *)

(* In every reachable state one invocation of FailureSignalHandler dumps,  *)
(* alive or about to let its signal kill, and what has been written is     *)
(* what it has come to.                                                    *)
THEOREM HandlerInductive == Spec => []IInv
<1>1. Init => IInv
  <2> SUFFICES ASSUME Init PROVE IInv
    OBVIOUS
  <2>1. /\ Pointer = NULL /\ installed = 0 /\ output = <<>> /\ ~flushed /\ Running
        /\ frames = [t \in Threads |-> <<>>]
        /\ disposition = [s \in Signals |-> "SIG_DFL"]
    BY DEF Init, Pointer, Running
  <2>2. StateTyped
    <3>1. Len(kFailureSignals) \in Nat /\ MaxSignals \in Nat
      BY SignalsAssumption, BoundsAssumption
    <3>2. frames \in [Threads -> Seq(Frame)]
      BY <2>1
    <3>3. disposition \in [Signals -> Dispositions]
      BY <2>1 DEF Dispositions
    <3>4. user \in [Threads -> {"run", "fail", "abort", "aborted"}]
      BY DEF Init
    <3>5. installed \in 0..Len(kFailureSignals) /\ signals \in 0..MaxSignals
      BY <3>1 DEF Init
    <3>6. /\ g_failure_writer \in Writers /\ pending \in SUBSET Signals /\ flushed \in BOOLEAN
          /\ killed_by \in Signals \cup {NULL} /\ Pointer \in (Threads \X Nat) \cup {NULL}
      BY DEF Init, Writers, Pointer
    <3> QED
      BY <3>2, <3>3, <3>4, <3>5, <3>6 DEF StateTyped
  <2>3. \A t \in Threads : Positions(t) = {}
    BY <2>1 DEF Positions
  <2>4. Installed = {}
    BY <2>1 DEF Installed
  <2>5. SignalsInv /\ FramesInv
    BY <2>1, <2>3 DEF SignalsInv, FramesInv
  <2>6. LiveInv /\ DefaultInv
    BY <2>1, <2>4 DEF LiveInv, DefaultInv
  <2>7. OutputInv
    <3>1. output \in Seq(Line) /\ DOMAIN output = {}
      BY <2>1
    <3> QED
      BY <2>1, <3>1 DEF OutputInv
  <2> QED
    BY <2>1, <2>2, <2>5, <2>6, <2>7 DEF IInv, HandlerSound, DumpBeforeDeath
<1>2. IInv /\ [Next]_vars => IInv'
  <2> SUFFICES ASSUME IInv, [Next]_vars PROVE IInv'
    OBVIOUS
  <2>1. CASE UNCHANGED vars
    <3>1. UNCHANGED <<disposition, installed, g_failure_writer, g_entered_thread_id_pointer,
                      frames, user, pending, output, flushed, killed_by, signals>>
      BY <2>1 DEF vars
    <3>2. StateTyped' /\ HandlerSound /\ StateTyped /\ SignalsInv
      BY <3>1 DEF IInv, HandlerSound, StateTyped, Pointer
    <3>3. HandlerSound'
      BY <3>1, <3>2, StacksUnchanged DEF Pointer, Installed, SignalsInv, Running
    <3>4. DumpBeforeDeath'
      BY <3>1 DEF IInv, DumpBeforeDeath, Running, Complete, Lines, Reentered, Dumper, DumperFrame,
         Blocked
    <3> QED
      BY <3>3, <3>4 DEF IInv
  <2>2. ASSUME NEW s \in Signals, Send(s) PROVE IInv'
    BY <2>2, SendSound
  <2>3. CASE TakeAny
    BY <2>3, TakeSound DEF TakeAny
  <2>4. ASSUME NEW t \in Threads, NEW s \in Faults, Fault(t, s) PROVE IInv'
    BY <2>4, FaultSound
  <2>5. ASSUME NEW t \in Threads, Fail(t) PROVE IInv'
    BY <2>5, ProgramSound
  <2>6. ASSUME NEW t \in Threads, FailStep(t) PROVE IInv'
    BY <2>6, ProgramSound, AbortSound DEF FailStep
  <2>7. ASSUME NEW t \in Threads, HandlerStep(t) PROVE IInv'
    BY <2>7, HandlerStepSound
  <2>8. CASE InstallFailureSignalHandler
    BY <2>8, InstallSound
  <2>9. CASE InstallFailureWriter
    BY <2>9, ProgramSound
  <2> QED
    BY <2>1, <2>2, <2>3, <2>4, <2>5, <2>6, <2>7, <2>8, <2>9 DEF Next
<1> QED
  BY <1>1, <1>2, PTL DEF Spec

(* The state of the handler is sound: the types, no signal twice in a      *)
(* thread, and the pointer to the dumping thread's local is not read       *)
(* stale.                                                                  *)
THEOREM HandlerStateSound == Spec => []HandlerInv
<1> SUFFICES ASSUME IInv PROVE HandlerInv
  BY HandlerInductive, PTL
<1>1. StateTyped /\ SignalsInv /\ FramesInv /\ LiveInv /\ OutputInv
  BY DEF IInv, HandlerSound
<1>2. ASSUME NEW t \in Threads PROVE Cardinality(Blocked(t)) = Len(frames[t])
  <2> DEFINE len == Len(frames[t])
             f == [n \in 1..len |-> frames[t][n].signal]
  <2>1. len \in Nat /\ Blocked(t) = {frames[t][n].signal : n \in 1..len}
    BY <1>1, StackFacts, BlockedIs DEF StateTyped
  <2>2. \A m, n \in 1..len : f[m] = f[n] => m = n
    BY <1>1 DEF SignalsInv, Positions
  <2>3. f \in [1..len -> Blocked(t)] /\ \A s \in Blocked(t) : \E n \in 1..len : f[n] = s
    BY <2>1
  <2> HIDE DEF f
  <2>4. f \in Bijection(1..len, Blocked(t))
    BY <2>2, <2>3 DEF Bijection, Injection, Surjection, IsInjective
  <2> QED
    BY <2>1, <2>4, FS_CountingElements DEF ExistsBijection
<1>3. TypeOK
  BY <1>1, <1>2 DEF TypeOK, StateTyped, OutputInv, Pointer
<1>4. ASSUME NEW t \in Threads, frames[t] # <<>>, Top(t).at = "check", Running
      PROVE  \/ DumperFrame <= Len(frames[Dumper])
             \/ \E s \in pending \ Blocked(Dumper) : disposition[s] = "SIG_DFL"
  <2>1. Pointer # NULL
    <3>1. Len(frames[t]) \in Positions(t) /\ frames[t][Len(frames[t])].at = "check"
      BY <1>1, <1>4, StackFacts DEF Positions
    <3> QED
      BY <1>1, <3>1 DEF FramesInv
  <2>2. Live \/ Doomed
    BY <1>1, <1>4, <2>1 DEF LiveInv
  <2>3. Live => DumperFrame <= Len(frames[Dumper])
    BY <1>1, <2>1, PointerTyped, StackFacts DEF Live, Positions, Dumper, DumperFrame, Pointer
  <2>4. Doomed => \E s \in pending \ Blocked(Dumper) : disposition[s] = "SIG_DFL"
    BY DEF Doomed, Dumper, Pointer
  <2> QED
    BY <2>2, <2>3, <2>4
<1>5. PointerLive
  BY <1>4 DEF PointerLive
<1> QED
  BY <1>3, <1>5 DEF HandlerInv

(* All output is the beginning of one dump, by the first thread to enter   *)
(* the handler.                                                            *)
THEOREM OneDumpHolds == Spec => []OneDump
<1> SUFFICES ASSUME IInv, output # <<>>
             PROVE  /\ \E s \in Signals : IsPrefix(Lines, Dump(Dumper, s))
                    /\ \A m, n \in DOMAIN output :
                         m < n /\ output[m].to = "custom" => output[n].to = "custom"
  BY HandlerInductive, PTL DEF OneDump
<1>1. OutputInv /\ Pointer # NULL
  BY DEF IInv, HandlerSound, OutputInv
<1>2. PICK s \in Signals :
        /\ Len(output) <= Depth + 3
        /\ \A n \in DOMAIN output :
             /\ output[n].by = Pointer[1] /\ output[n].what = What(s, n)
             /\ output[n].i = IF n <= 3 THEN 0 ELSE n - 3
  BY <1>1 DEF OutputInv
<1> DEFINE len == Len(output)
           dump == Dump(Dumper, s)
<1>3. DOMAIN output = 1..len /\ len \in Nat
  BY <1>1 DEF OutputInv
<1>4. /\ DOMAIN dump = 1..(Depth + 3) /\ Depth \in Nat
      /\ \A n \in 1..(Depth + 3) :
           dump[n] = [by |-> Dumper, what |-> What(s, n), i |-> IF n <= 3 THEN 0 ELSE n - 3]
      /\ dump = [n \in 1..(Depth + 3) |-> dump[n]]
  BY DumpIs
<1>5. Lines = [n \in 1..len |-> Lines[n]] /\ DOMAIN Lines = 1..len
  BY <1>3 DEF Lines
<1> HIDE DEF dump
<1>6. \A n \in 1..len : n \in 1..(Depth + 3) /\ Lines[n] = dump[n]
  BY <1>2, <1>3, <1>4 DEF Lines, Dumper, Pointer
<1> DEFINE L == {dump[n] : n \in 1..(Depth + 3)}
<1>7. /\ dump \in Seq(L) /\ Len(dump) = Depth + 3
      /\ Lines \in Seq(L) /\ Len(Lines) = len
  <2>1. /\ \A n \in 1..(Depth + 3) : dump[n] \in L
        /\ \A n \in 1..len : Lines[n] \in L
    BY <1>6
  <2> HIDE DEF L
  <2>2. dump \in [1..(Depth + 3) -> L] /\ Lines \in [1..len -> L]
    BY <1>4, <1>5, <2>1
  <2> QED
    BY <1>3, <1>4, <2>2
<1>8. SubSeq(Lines, 1, len) = SubSeq(dump, 1, len)
  BY <1>2, <1>3, <1>4, <1>6, PrefixEqual
<1>9. IsPrefix(Lines, dump)
  BY <1>2, <1>3, <1>4, <1>7, <1>8 DEF IsPrefix
<1> QED
  BY <1>1, <1>9 DEF OutputInv, dump

(* The process does not die before the dump is complete and the log files  *)
(* are flushed, but for the reasons DumpBeforeDeath lists.                 *)
THEOREM DumpBeforeDeathHolds == Spec => []DumpBeforeDeath
BY HandlerInductive, PTL DEF IInv

=============================================================================
