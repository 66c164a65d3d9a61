--------------------------- MODULE FailureSignal ---------------------------
(***************************************************************************)
(* The failure signal handler of src/signalhandler.cc, with the failure    *)
(* function of src/utilities.cc that ends a LOG(FATAL): threads are        *)
(* interrupted by signals, the first to enter the handler dumps and kills  *)
(* the process, all others wait for that.                                  *)
(*                                                                         *)
(* The kernel is modelled as the handler uses it (sigaction without        *)
(* SA_NODEFER and with an empty sa_mask): a signal is blocked in a thread  *)
(* that is handling it and no other is; kill(getpid()) leaves the signal   *)
(* to any thread that does not block it; a thread takes a pending signal   *)
(* before its next instruction; a fault while its signal is blocked kills. *)
(*                                                                         *)
(* frames[t] are the invocations of FailureSignalHandler on t's stack, the *)
(* running one last. g_entered_thread_id_pointer points at a local of one  *)
(* of them: it is that frame, <<thread, position in its frames>>.          *)
(***************************************************************************)
EXTENDS Naturals, Sequences, SequencesExt, FiniteSets

CONSTANTS Threads,
          Main,             \* the thread that installs the handler
          kFailureSignals,  \* the sequence of signals
          SIGABRT,
          Faults,           \* the signals a thread's own instruction raises
          Depth,            \* stack frames found by GetStackTrace
          MaxSignals,       \* bound: signals sent and faults raised
          NULL

Signals == {kFailureSignals[i] : i \in DOMAIN kFailureSignals}

ASSUME MainAssumption == Main \in Threads

ASSUME SignalsAssumption ==
         /\ kFailureSignals \in Seq(Signals)
         /\ \A i, j \in DOMAIN kFailureSignals :
              kFailureSignals[i] = kFailureSignals[j] => i = j
         /\ SIGABRT \in Signals
         /\ Faults \subseteq Signals

ASSUME BoundsAssumption == Depth \in 0..32 /\ MaxSignals \in Nat

ASSUME NullAssumption == NULL \notin Signals /\ NULL \notin Threads \X Nat

VARIABLES disposition,      \* what sigaction last set for each signal
          installed,        \* signals InstallFailureSignalHandler has set
          g_failure_writer,
          g_entered_thread_id_pointer,
          frames,
          user,             \* where each thread is outside of the handler
          pending,          \* signals sent to the process and not taken
          output,           \* lines given to g_failure_writer
          flushed,          \* FlushLogFilesUnsafe(0) has returned
          killed_by,        \* the signal that ended the process, or NULL
          signals           \* how many signals there have been

vars == <<disposition, installed, g_failure_writer, g_entered_thread_id_pointer,
          frames, user, pending, output, flushed, killed_by, signals>>

Dispositions == {"SIG_DFL", "FailureSignalHandler"}

Writers == {"WriteToStderr", "custom"}

Dumping == {"time", "PC", "signal", "stack", "flush"}

At == Dumping \cup {"enter", "check", "default", "kill", "return",
                    "again_default", "again_kill", "sleep"}

Frame == [signal : Signals, at : At, i : Nat]

Line == [by : Threads, what : {"time", "PC", "stack"} \cup Signals,
         i : 0..Depth, to : Writers]

Running == killed_by = NULL

Blocked(t) == {frames[t][n].signal : n \in DOMAIN frames[t]}

\* A thread goes on only when it has no signal to take first.
Undisturbed(t) == Running /\ pending \subseteq Blocked(t)

Top(t) == Last(frames[t])

\* The running invocation of t is at a label.
AtLabel(t, label) == frames[t] # <<>> /\ Top(t).at = label /\ Undisturbed(t)

Moved(t, label, i) ==
  [frames EXCEPT ![t] = Append(Front(@), [signal |-> Top(t).signal,
                                          at |-> label, i |-> i])]

Entering(s) == [signal |-> s, at |-> "enter", i |-> 0]

InUser(t, place) == frames[t] = <<>> /\ user[t] = place /\ Undisturbed(t)

Init ==
  /\ disposition = [s \in Signals |-> "SIG_DFL"]
  /\ installed = 0
  /\ g_failure_writer = "WriteToStderr"
  /\ g_entered_thread_id_pointer = NULL
  /\ frames = [t \in Threads |-> <<>>]
  /\ user = [t \in Threads |-> "run"]
  /\ pending = {}
  /\ output = <<>>
  /\ flushed = FALSE
  /\ killed_by = NULL
  /\ signals = 0

-----------------------------------------------------------------------------
(* The kernel and the program around the handler. *)

\* Thread t is interrupted by s: the process dies, or the handler is called.
Interrupt(t, s) ==
  IF disposition[s] = "SIG_DFL"
    THEN killed_by' = s /\ UNCHANGED frames
    ELSE frames' = [frames EXCEPT ![t] = Append(@, Entering(s))]
         /\ UNCHANGED killed_by

\* Somebody sends a signal to the process.
Send(s) ==
  /\ Running /\ signals < MaxSignals
  /\ signals' = signals + 1
  /\ pending' = pending \cup {s}
  /\ UNCHANGED <<disposition, installed, g_failure_writer,
                 g_entered_thread_id_pointer, frames, user, output, flushed,
                 killed_by>>

\* A thread that does not block a pending signal takes it.
Take(t, s) ==
  /\ Running /\ s \in pending \ Blocked(t)
  /\ pending' = pending \ {s}
  /\ Interrupt(t, s)
  /\ UNCHANGED <<disposition, installed, g_failure_writer,
                 g_entered_thread_id_pointer, user, output, flushed, signals>>

\* An instruction faults: of the program, or of the dumping code (which
\* calls the unwinder, the symbolizer and the user's writer).
Fault(t, s) ==
  /\ Undisturbed(t) /\ signals < MaxSignals
  /\ frames[t] # <<>> => Top(t).at \in Dumping
  /\ signals' = signals + 1
  /\ IF s \in Blocked(t) THEN killed_by' = s /\ UNCHANGED frames
     ELSE Interrupt(t, s)
  /\ UNCHANGED <<disposition, installed, g_failure_writer,
                 g_entered_thread_id_pointer, user, pending, output, flushed>>

\* One turn of the loop of InstallFailureSignalHandler.
InstallFailureSignalHandler ==
  /\ InUser(Main, "run") /\ installed < Len(kFailureSignals)
  /\ disposition' = [disposition EXCEPT ![kFailureSignals[installed + 1]] =
                       "FailureSignalHandler"]
  /\ installed' = installed + 1
  /\ UNCHANGED <<g_failure_writer, g_entered_thread_id_pointer, frames, user,
                 pending, output, flushed, killed_by, signals>>

InstallFailureWriter ==
  /\ InUser(Main, "run") /\ g_failure_writer # "custom"
  /\ g_failure_writer' = "custom"
  /\ UNCHANGED <<disposition, installed, g_entered_thread_id_pointer, frames,
                 user, pending, output, flushed, killed_by, signals>>

-----------------------------------------------------------------------------
(* DumpStackTraceAndExit, which LogMessage::Fail calls. Its own stack      *)
(* trace goes to stderr and not through g_failure_writer.                  *)

IsFailureSignalHandlerInstalled == disposition[SIGABRT] = "FailureSignalHandler"

Fail(t) ==
  /\ InUser(t, "run")
  /\ user' = [user EXCEPT ![t] = "fail"]
  /\ UNCHANGED <<disposition, installed, g_failure_writer,
                 g_entered_thread_id_pointer, frames, pending, output, flushed,
                 killed_by, signals>>

ResetAbort(t) ==
  /\ InUser(t, "fail")
  /\ disposition' = IF IsFailureSignalHandlerInstalled
                      THEN [disposition EXCEPT ![SIGABRT] = "SIG_DFL"]
                      ELSE disposition
  /\ user' = [user EXCEPT ![t] = "abort"]
  /\ UNCHANGED <<installed, g_failure_writer, g_entered_thread_id_pointer,
                 frames, pending, output, flushed, killed_by, signals>>

\* abort() raises SIGABRT in the thread; if a handler returns it raises it
\* again, by default.
Abort(t) ==
  /\ InUser(t, "abort") \/ InUser(t, "aborted")
  /\ user' = [user EXCEPT ![t] = "aborted"]
  /\ IF user[t] = "abort" THEN Interrupt(t, SIGABRT)
     ELSE killed_by' = SIGABRT /\ UNCHANGED frames
  /\ UNCHANGED <<disposition, installed, g_failure_writer,
                 g_entered_thread_id_pointer, pending, output, flushed, signals>>

-----------------------------------------------------------------------------
(* FailureSignalHandler *)

\* Whether the compare-and-swap finds nobody inside.
MutAlwaysFirst == TRUE

FirstToEnter == g_entered_thread_id_pointer = NULL

Enter(t) ==
  /\ AtLabel(t, "enter")
  /\ IF FirstToEnter
       THEN /\ g_entered_thread_id_pointer' = <<t, Len(frames[t])>>
            /\ frames' = Moved(t, "time", 0)
       ELSE /\ frames' = Moved(t, "check", 0)
            /\ UNCHANGED g_entered_thread_id_pointer
  /\ UNCHANGED <<disposition, installed, g_failure_writer, user, pending,
                 output, flushed, killed_by, signals>>

\* Every thread that finds somebody inside invokes the default handler.
MutAnyThread(t) == TRUE

\* pthread_equal(my_thread_id, *g_entered_thread_id_pointer)
Reentering(t) == g_entered_thread_id_pointer[1] = t

Check(t) ==
  /\ AtLabel(t, "check")
  /\ frames' = Moved(t, IF Reentering(t) THEN "again_default" ELSE "sleep", 0)
  /\ UNCHANGED <<disposition, installed, g_failure_writer,
                 g_entered_thread_id_pointer, user, pending, output, flushed,
                 killed_by, signals>>

\* A line goes to the writer that is installed at that moment.
Written(t, what, i) ==
  Append(output, [by |-> t, what |-> what, i |-> i, to |-> g_failure_writer])

Write(t, from, what, to, i) ==
  /\ AtLabel(t, from)
  /\ output' = Written(t, what, Top(t).i)
  /\ frames' = Moved(t, to, i)
  /\ UNCHANGED <<disposition, installed, g_failure_writer,
                 g_entered_thread_id_pointer, user, pending, flushed,
                 killed_by, signals>>

DumpTimeInfo(t) == Write(t, "time", "time", "PC", 0)

DumpPC(t) == Write(t, "PC", "PC", "signal", 0)

\* Whether the loop over the stack's frames goes on behind the i-th.
MoreFrames(i) == i < Depth

AfterFrame(i) == IF MoreFrames(i) THEN "stack" ELSE "flush"

DumpSignalInfo(t) == Write(t, "signal", Top(t).signal, AfterFrame(0), 1)

DumpStackFrameInfo(t) ==
  Write(t, "stack", "stack", AfterFrame(Top(t).i), Top(t).i + 1)

FlushLogFilesUnsafe(t) ==
  /\ AtLabel(t, "flush")
  /\ flushed' = TRUE
  /\ frames' = Moved(t, "default", 0)
  /\ UNCHANGED <<disposition, installed, g_failure_writer,
                 g_entered_thread_id_pointer, user, pending, output, killed_by,
                 signals>>

\* InvokeDefaultSignalHandler: sigaction, then kill.
MutLeaveDisposition(s) == disposition

WithDefault(s) == [disposition EXCEPT ![s] = "SIG_DFL"]

SetDefault(t) ==
  /\ AtLabel(t, "default") \/ AtLabel(t, "again_default")
  /\ disposition' = WithDefault(Top(t).signal)
  /\ frames' = Moved(t, IF Top(t).at = "default" THEN "kill" ELSE "again_kill", 0)
  /\ UNCHANGED <<installed, g_failure_writer, g_entered_thread_id_pointer, user,
                 pending, output, flushed, killed_by, signals>>

Kill(t) ==
  /\ AtLabel(t, "kill") \/ AtLabel(t, "again_kill")
  /\ pending' = pending \cup {Top(t).signal}
  /\ frames' = Moved(t, IF Top(t).at = "kill" THEN "return" ELSE "sleep", 0)
  /\ UNCHANGED <<disposition, installed, g_failure_writer,
                 g_entered_thread_id_pointer, user, output, flushed, killed_by,
                 signals>>

\* The handler returns: its signal is no longer blocked.
Return(t) ==
  /\ AtLabel(t, "return")
  /\ frames' = [frames EXCEPT ![t] = Front(@)]
  /\ UNCHANGED <<disposition, installed, g_failure_writer,
                 g_entered_thread_id_pointer, user, pending, output, flushed,
                 killed_by, signals>>

-----------------------------------------------------------------------------
FailStep(t) == ResetAbort(t) \/ Abort(t)

HandlerStep(t) == \/ Enter(t) \/ Check(t)
                  \/ DumpTimeInfo(t) \/ DumpPC(t) \/ DumpSignalInfo(t)
                  \/ DumpStackFrameInfo(t) \/ FlushLogFilesUnsafe(t)
                  \/ SetDefault(t) \/ Kill(t) \/ Return(t)

TakeAny == \E t \in Threads, s \in Signals : Take(t, s)

Next == \/ \E s \in Signals : Send(s)
        \/ TakeAny
        \/ \E t \in Threads : \/ \E s \in Faults : Fault(t, s)
                              \/ Fail(t) \/ FailStep(t) \/ HandlerStep(t)
        \/ InstallFailureSignalHandler
        \/ InstallFailureWriter

Spec == Init /\ [][Next]_vars

\* A thread inside the handler keeps running, and a signal that some thread
\* does not block is taken by one.
FairSpec == /\ Spec
            /\ \A t \in Threads : WF_vars(HandlerStep(t))
            /\ WF_vars(TakeAny)

-----------------------------------------------------------------------------
(* Properties *)

(* Every variable has its type; no line is written for a stack frame that  *)
(* GetStackTrace has not filled in, and a thread never handles one signal  *)
(* twice at a time.                                                        *)
TypeOK ==
  /\ disposition \in [Signals -> Dispositions]
  /\ installed \in 0..Len(kFailureSignals)
  /\ g_failure_writer \in Writers
  /\ g_entered_thread_id_pointer \in (Threads \X Nat) \cup {NULL}
  /\ frames \in [Threads -> Seq(Frame)]
  /\ user \in [Threads -> {"run", "fail", "abort", "aborted"}]
  /\ pending \in SUBSET Signals
  /\ output \in Seq(Line)
  /\ flushed \in BOOLEAN
  /\ killed_by \in Signals \cup {NULL}
  /\ signals \in 0..MaxSignals
  /\ \A t \in Threads : Cardinality(Blocked(t)) = Len(frames[t])

Dumper == g_entered_thread_id_pointer[1]

DumperFrame == g_entered_thread_id_pointer[2]

\* The lines a thread dumps for a signal, without the writers.
Dump(t, s) == <<[by |-> t, what |-> "time", i |-> 0],
                [by |-> t, what |-> "PC", i |-> 0],
                [by |-> t, what |-> s, i |-> 0]>>
              \o [i \in 1..Depth |-> [by |-> t, what |-> "stack", i |-> i]]

Lines == [n \in DOMAIN output |-> [by |-> output[n].by, what |-> output[n].what,
                                   i |-> output[n].i]]

(* "Our policy is to let the first thread dump stuff and let other threads *)
(* wait" (signalhandler.cc:267-270): whatever signals interrupt whatever   *)
(* threads, before or after the compare-and-swap, the lines written are    *)
(* the beginning of one dump, by one thread, in order, with no line twice; *)
(* a writer installed while it is written gets the rest of it.             *)
OneDump ==
  output # <<>> =>
    /\ \E s \in Signals : IsPrefix(Lines, Dump(Dumper, s))
    /\ \A m, n \in DOMAIN output :
         m < n /\ output[m].to = "custom" => output[n].to = "custom"

Complete == flushed /\ \E s \in Signals : Lines = Dump(Dumper, s)

\* The dumping thread was interrupted while it dumped.
Reentered == /\ g_entered_thread_id_pointer # NULL
             /\ DumperFrame < Len(frames[Dumper])

(* Once a thread has begun to dump, the process lives until the dump is    *)
(* complete and the log files are flushed, whatever happens to the other   *)
(* threads; but for four things that end it at once: the dumping thread is *)
(* interrupted itself, or faults with the signal it is handling; a thread  *)
(* is in abort(); or a signal comes that has no handler yet.               *)
DumpBeforeDeath ==
  ~Running /\ g_entered_thread_id_pointer # NULL =>
    \/ Complete
    \/ Reentered
    \/ killed_by \in Blocked(Dumper) /\ disposition[killed_by] # "SIG_DFL"
    \/ killed_by = SIGABRT /\ \E t \in Threads : user[t] \in {"abort", "aborted"}
    \/ \E n \in (installed + 1)..Len(kFailureSignals) :
         killed_by = kFailureSignals[n]

(* g_entered_thread_id_pointer points into the stack of the thread that    *)
(* dumps. Whoever reads through it finds that frame alive, or its thread   *)
(* about to be killed on its return from it: no thread compares itself     *)
(* with what a later call has left on the stack.                           *)
PointerLive ==
  (\E t \in Threads : frames[t] # <<>> /\ Top(t).at = "check") =>
    \/ ~Running
    \/ DumperFrame <= Len(frames[Dumper])
    \/ \E s \in pending \ Blocked(Dumper) : disposition[s] = "SIG_DFL"

(* The state of the handler is sound: the types, and the pointer to the    *)
(* dumping thread's local is not read stale.                               *)
HandlerInv == TypeOK /\ PointerLive

(* A failure ends the process: once a thread is in the handler, the        *)
(* process dies, however many other threads get there, unless the dumping  *)
(* thread is interrupted in its turn.                                      *)
FailureEndsProcess ==
  (\E t \in Threads : frames[t] # <<>>) ~> (~Running \/ Reentered)

(* signalhandler.cc:303-305, of a thread that re-enters the handler: "Kill *)
(* ourself by the default signal handler". The signal it sends itself is   *)
(* blocked in the very thread that then sleeps for ever.                   *)
ReentryKills ==
  (\E t \in Threads : frames[t] # <<>> /\ Top(t).at = "again_kill") ~> ~Running

=============================================================================
