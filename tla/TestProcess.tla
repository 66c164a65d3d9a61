---------------------------- MODULE TestProcess ----------------------------
(***************************************************************************)
(* A test program of the repository as one process: the test runner, death *)
(* tests, FlagSaver, the hook of operator new and the capture of stdout    *)
(* and stderr of googletest.h, with InitGoogleLogging, ShutdownGoogle-     *)
(* Logging and the failure function of utilities.cc. One thread, which     *)
(* calls them in any order that logging_unittest.cc and                    *)
(* utilities_unittest.cc could; the text it prints is a sequence of        *)
(* numbered messages, without those of the test framework itself.          *)
(***************************************************************************)
EXTENDS Integers, Sequences, FiniteSets

CONSTANTS MaxPrints,    \* bound: messages printed
          NumTests,     \* the length of g_testlist
          MaxScopes,    \* bound: scoped objects alive at once
          SavedFlags    \* the flags that FlagSaver keeps; no other is modelled

ASSUME TestProcessAssumption ==
  MaxPrints \in Nat /\ NumTests \in Nat /\ MaxScopes \in Nat

STDIN_FILENO == 0

STDOUT_FILENO == 1

STDERR_FILENO == 2

Streams == {STDOUT_FILENO, STDERR_FILENO}

Fds == 0..6

Terminal == 0

NoFd == -1

VARIABLES fds,       \* the descriptor table: the Terminal, the stream whose
                     \* captured file it leads to, or NoFd
          tty,       \* what arrived at the terminal through each stream
          captured,  \* captured.out and captured.err
          buffer,    \* of stdio for stdout; stderr has none
          s_captured_streams,   \* uncaptured_fd_ of each, or NoFd for NULL
          FLAGS,
          g_logging_fail_func, g_called_abort, g_new_hook,
          initialized,   \* g_program_invocation_short_name # NULL
          scopes,    \* the scoped objects and ASSERT_DEATHs, innermost first
          tests,     \* tests left to run; -1 before and after RUN_ALL_TESTS
          ended,     \* "no", "aborted", "failure" or "passed"
          printed,   \* history: messages printed so far
          capturing, \* history: the streams that CaptureTest... was last called on
          sent,      \* history: what was printed on a stream, by where to
          base,      \* history: FLAGS when RUN_ALL_TESTS was called
          survivors, \* history: ASSERT_DEATHs whose function came back
          hook_left  \* history: a longjmp has left a NewHook

outputVars == <<fds, tty, captured, buffer, s_captured_streams, printed, capturing, sent>>

controlVars == <<g_logging_fail_func, g_called_abort, scopes, ended, survivors, hook_left>>

processVars == <<outputVars, controlVars, FLAGS, g_new_hook, initialized, tests, base>>

ProcessInit ==
  /\ fds = [fd \in Fds |-> IF fd \in Streams \cup {STDIN_FILENO} THEN Terminal ELSE NoFd]
  /\ tty = [s \in Streams |-> <<>>] /\ captured = tty
  /\ buffer = <<>>
  /\ s_captured_streams = [s \in Streams |-> NoFd]
  /\ FLAGS = [f \in SavedFlags |-> 0]
  /\ g_logging_fail_func = "abort" /\ g_called_abort = FALSE /\ g_new_hook = FALSE
  /\ initialized = FALSE
  /\ scopes = <<>> /\ tests = -1 /\ ended = "no"
  /\ printed = 0 /\ capturing = {} /\ survivors = 0
  /\ sent = [s \in Streams |-> [tty |-> <<>>, captured |-> <<>>]]
  /\ base = FLAGS /\ hook_left = FALSE

-----------------------------------------------------------------------------
(* Descriptors and streams *)

LowestFree(table) == CHOOSE fd \in Fds : /\ table[fd] = NoFd
                                         /\ \A g \in Fds : g < fd => table[g] # NoFd

TtyAfter(fd, msgs) == IF fds[fd] = Terminal THEN [tty EXCEPT ![fd] = @ \o msgs] ELSE tty

CapturedAfter(fd, msgs) == [s \in Streams |-> IF fds[fd] = s THEN captured[s] \o msgs
                                              ELSE captured[s]]

\* write(2): msgs arrive where fd points to.
Write(fd, msgs) == tty' = TtyAfter(fd, msgs) /\ captured' = CapturedAfter(fd, msgs)

NextMessage(s) == <<s, printed + 1>>

Record(s) ==
  LET where == IF s \in capturing THEN "captured" ELSE "tty"
  IN /\ printed' = printed + 1
     /\ sent' = [sent EXCEPT ![s][where] = Append(@, NextMessage(s))]

PrintMessage(s) ==
  /\ printed < MaxPrints
  /\ Record(s)
  /\ IF s = STDOUT_FILENO
     THEN buffer' = Append(buffer, NextMessage(s)) /\ UNCHANGED <<tty, captured>>
     ELSE Write(s, <<NextMessage(s)>>) /\ UNCHANGED buffer
  /\ UNCHANGED <<fds, s_captured_streams, capturing, controlVars, FLAGS, g_new_hook,
                 initialized, tests, base>>

\* stdio empties the buffer when it is full, or at the end of a line.
FlushStdout ==
  /\ buffer # <<>>
  /\ Write(STDOUT_FILENO, buffer) /\ buffer' = <<>>
  /\ UNCHANGED <<fds, s_captured_streams, printed, capturing, sent, controlVars, FLAGS,
                 g_new_hook, initialized, tests, base>>

Exit == Write(STDOUT_FILENO, buffer) /\ buffer' = <<>>

-----------------------------------------------------------------------------
(* A failing CHECK, and LOG(FATAL) *)

DeathFrames == {i \in DOMAIN scopes : scopes[i].kind = "ASSERT_DEATH"}

\* DumpStackTraceAndExit writes the stack to stderr first; abort() drops what
\* stdio has not written.
Abort ==
  /\ ended' = "aborted"
  /\ IF g_logging_fail_func = "DumpStackTraceAndExit"
     THEN Write(STDERR_FILENO, <<NextMessage(STDERR_FILENO)>>) /\ Record(STDERR_FILENO)
     ELSE UNCHANGED <<tty, captured, printed, sent>>
  /\ UNCHANGED <<g_logging_fail_func, g_called_abort, scopes, survivors, hook_left, buffer>>

original_logging_fail_func(i) == scopes[i].saved

\* CalledAbort, longjmp, and the end of ASSERT_DEATH. The destructors of the
\* objects in its function do not run.
LongJmp ==
  LET i == CHOOSE j \in DeathFrames : \A k \in DeathFrames : j <= k
  IN /\ g_called_abort' = TRUE
     /\ g_logging_fail_func' = original_logging_fail_func(i)
     /\ scopes' = SubSeq(scopes, i + 1, Len(scopes))
     /\ hook_left' = (hook_left \/ \E k \in 1..(i - 1) : scopes[k].kind = "NewHook")
     /\ UNCHANGED <<ended, survivors, tty, captured, printed, sent, buffer>>

\* Leaves alone fds, s_captured_streams, capturing, FLAGS, g_new_hook,
\* initialized, tests and base.
Fail == IF g_logging_fail_func = "CalledAbort" THEN LongJmp ELSE Abort

FailingCheck ==
  /\ Fail
  /\ UNCHANGED <<fds, s_captured_streams, capturing, FLAGS, g_new_hook, initialized,
                 tests, base>>

\* operator new: the hook is NoAllocNewHook, a LOG(FATAL).
New == g_new_hook /\ FailingCheck

\* EXPECT_TRUE and the like.
FailingExpect ==
  /\ ended' = "failure"
  /\ Exit
  /\ UNCHANGED <<fds, s_captured_streams, printed, capturing, sent, FLAGS,
                 g_logging_fail_func, g_called_abort, g_new_hook, initialized, scopes,
                 tests, base, survivors, hook_left>>

-----------------------------------------------------------------------------
(* CapturedStream *)

\* The second descriptor is left open.
MutKeepCapFd(s) ==
  LET saved == LowestFree(fds)
      cap_fd == LowestFree([fds EXCEPT ![saved] = fds[s]])
  IN [fds EXCEPT ![saved] = fds[s], ![s] = s, ![cap_fd] = s]

\* dup, open, dup2 and close of Capture.
Redirected(s) == [fds EXCEPT ![LowestFree(fds)] = fds[s], ![s] = s]

\* There is no fflush(NULL).
MutNoFlush == <<>>

\* What fflush(NULL) writes.
Flushed == buffer

Unflushed == SubSeq(buffer, Len(Flushed) + 1, Len(buffer))

\* open truncates the file, and what stdio holds goes where it was printed to.
\* The CapturedStream is made with new.
CaptureTestOutput(s) ==
  \/ (s_captured_streams[s] # NoFd \/ g_new_hook) /\ FailingCheck
  \/ /\ s_captured_streams[s] = NoFd /\ ~g_new_hook
     /\ fds' = Redirected(s)
     /\ s_captured_streams' = [s_captured_streams EXCEPT ![s] = LowestFree(fds)]
     /\ tty' = TtyAfter(STDOUT_FILENO, Flushed)
     /\ captured' = [CapturedAfter(STDOUT_FILENO, Flushed) EXCEPT ![s] = <<>>]
     /\ buffer' = Unflushed
     /\ capturing' = capturing \cup {s}
     /\ sent' = [sent EXCEPT ![s].captured = <<>>]
     /\ UNCHANGED <<printed, controlVars, FLAGS, g_new_hook, initialized, tests, base>>

StopCapture(s) ==
  /\ Write(STDOUT_FILENO, Flushed) /\ buffer' = Unflushed
  /\ capturing' = capturing \ {s}
  /\ UNCHANGED <<printed, sent, controlVars, FLAGS, g_new_hook, initialized, tests, base>>

Reconnected(s) == [fds EXCEPT ![s] = fds[s_captured_streams[s]]]

\* Reads the file and deletes the CapturedStream, which closes uncaptured_fd_.
\* No test reads a file, which needs new, under the hook.
GetCapturedTestOutput(s) ==
  \/ s_captured_streams[s] = NoFd /\ FailingCheck
  \/ /\ s_captured_streams[s] # NoFd /\ ~g_new_hook
     /\ StopCapture(s)
     /\ fds' = [Reconnected(s) EXCEPT ![s_captured_streams[s]] = NoFd]
     /\ s_captured_streams' = [s_captured_streams EXCEPT ![s] = NoFd]

\* Leaves the CapturedStream where it is.
MungeAndDiffTest(s) ==
  \/ s_captured_streams[s] = NoFd /\ FailingCheck
  \/ /\ s_captured_streams[s] # NoFd /\ ~g_new_hook
     /\ StopCapture(s)
     /\ fds' = Reconnected(s)
     /\ UNCHANGED s_captured_streams

-----------------------------------------------------------------------------
(* Scoped objects *)

Top(kind) == scopes # <<>> /\ scopes[1].kind = kind

Push(kind, saved) == scopes' = <<[kind |-> kind, saved |-> saved]>> \o scopes

MayOpen == Len(scopes) < MaxScopes

scopeVars == <<outputVars, g_logging_fail_func, g_called_abort, ended, survivors,
               hook_left, initialized, tests, base>>

OpenFlagSaver == MayOpen /\ Push("FlagSaver", FLAGS) /\ UNCHANGED <<scopeVars, FLAGS, g_new_hook>>

\* stderrthreshold_, say, is not put back.
MutRestoreNone(saved) == FLAGS

\* ~FlagSaver.
Restored(saved) == saved

CloseFlagSaver ==
  /\ Top("FlagSaver")
  /\ FLAGS' = Restored(scopes[1].saved) /\ scopes' = Tail(scopes)
  /\ UNCHANGED <<scopeVars, g_new_hook>>

OpenNewHook ==
  MayOpen /\ Push("NewHook", FLAGS) /\ g_new_hook' = TRUE /\ UNCHANGED <<scopeVars, FLAGS>>

CloseNewHook ==
  /\ Top("NewHook")
  /\ g_new_hook' = FALSE /\ scopes' = Tail(scopes)
  /\ UNCHANGED <<scopeVars, FLAGS>>

SetFlag(f) ==
  /\ FLAGS[f] = 0 /\ FLAGS' = [FLAGS EXCEPT ![f] = 1]
  /\ UNCHANGED <<outputVars, controlVars, g_new_hook, initialized, tests, base>>

-----------------------------------------------------------------------------
(* ASSERT_DEATH *)

\* g_called_abort keeps the answer of the last death test.
MutStaleAnswer == g_called_abort

InitialAnswer == FALSE

\* Not inside the function of another one: there is one g_jmp_buf.
BeginDeath ==
  /\ MayOpen /\ DeathFrames = {}
  /\ g_called_abort' = InitialAnswer
  /\ Push("ASSERT_DEATH", g_logging_fail_func)
  /\ g_logging_fail_func' = "CalledAbort"
  /\ UNCHANGED <<outputVars, ended, survivors, hook_left, FLAGS, g_new_hook, initialized,
                 tests, base>>

\* The function came back.
EndDeath ==
  /\ Top("ASSERT_DEATH")
  /\ g_logging_fail_func' = original_logging_fail_func(1)
  /\ scopes' = Tail(scopes)
  /\ survivors' = survivors + 1
  /\ IF g_called_abort THEN UNCHANGED <<ended, tty, captured, buffer>>
     ELSE ended' = "failure" /\ Exit
  /\ UNCHANGED <<fds, s_captured_streams, printed, capturing, sent, g_called_abort,
                 hook_left, FLAGS, g_new_hook, initialized, tests, base>>

-----------------------------------------------------------------------------
(* InitGoogleLogging and ShutdownGoogleLogging *)

InitGoogleLogging ==
  \/ initialized /\ FailingCheck
  \/ /\ ~initialized /\ initialized' = TRUE
     /\ g_logging_fail_func' = "DumpStackTraceAndExit"
     /\ UNCHANGED <<outputVars, g_called_abort, scopes, ended, survivors, hook_left, FLAGS,
                    g_new_hook, tests, base>>

ShutdownGoogleLogging ==
  \/ ~initialized /\ FailingCheck
  \/ /\ initialized /\ initialized' = FALSE
     /\ UNCHANGED <<outputVars, controlVars, FLAGS, g_new_hook, tests, base>>

-----------------------------------------------------------------------------
(* RUN_ALL_TESTS and the end of main *)

NotRun == -1

AllRun == -2

runVars == <<outputVars, g_logging_fail_func, g_called_abort, survivors, hook_left,
             g_new_hook, initialized>>

RunAllTests ==
  /\ tests = NotRun /\ scopes = <<>>
  /\ tests' = NumTests /\ base' = FLAGS
  /\ UNCHANGED <<runVars, scopes, ended, FLAGS>>

\* Run of TEST(a, b): FlagSaver fs; RunTest().
BeginTest ==
  /\ tests > 0 /\ scopes = <<>>
  /\ Push("Test", FLAGS)
  /\ UNCHANGED <<runVars, ended, FLAGS, tests, base>>

EndTest ==
  /\ Top("Test")
  /\ FLAGS' = Restored(scopes[1].saved) /\ scopes' = <<>> /\ tests' = tests - 1
  /\ UNCHANGED <<runVars, ended, base>>

TestsPassed ==
  /\ tests = 0 /\ scopes = <<>>
  /\ tests' = AllRun
  /\ UNCHANGED <<runVars, scopes, ended, FLAGS, base>>

ReturnFromMain ==
  /\ tests = AllRun /\ scopes = <<>>
  /\ ended' = "passed"
  /\ Exit
  /\ UNCHANGED <<fds, s_captured_streams, printed, capturing, sent, g_logging_fail_func,
                 g_called_abort, scopes, survivors, hook_left, FLAGS, g_new_hook,
                 initialized, tests, base>>

-----------------------------------------------------------------------------
\* What main, a test, or the function of an ASSERT_DEATH does.
BodyStep ==
  \/ \E s \in Streams : \/ PrintMessage(s) \/ CaptureTestOutput(s)
                         \/ GetCapturedTestOutput(s) \/ MungeAndDiffTest(s)
  \/ FlushStdout
  \/ FailingCheck \/ New \/ FailingExpect
  \/ OpenFlagSaver \/ CloseFlagSaver \/ OpenNewHook \/ CloseNewHook
  \/ \E f \in DOMAIN FLAGS : SetFlag(f)
  \/ BeginDeath \/ EndDeath
  \/ InitGoogleLogging \/ ShutdownGoogleLogging

RunnerStep == RunAllTests \/ BeginTest \/ EndTest \/ TestsPassed \/ ReturnFromMain

ProcessNext == /\ ended = "no"
               /\ \/ RunnerStep
                  \/ (tests < 0 \/ scopes # <<>>) /\ BodyStep

ProcessSpec == ProcessInit /\ [][ProcessNext]_processVars

-----------------------------------------------------------------------------
(* Properties *)

Pending(s) == IF s = STDOUT_FILENO THEN buffer ELSE <<>>

(* Every variable has its type, and the live CHECKs and ASSERT_DEATHs have *)
(* a failure function to call: CalledAbort is installed only while there   *)
(* is an ASSERT_DEATH to jump back to.                                     *)
ProcessTypeOK ==
  /\ fds \in [Fds -> {Terminal, NoFd} \cup Streams]
  /\ s_captured_streams \in [Streams -> Fds \cup {NoFd}]
  /\ g_called_abort \in BOOLEAN /\ g_new_hook \in BOOLEAN /\ initialized \in BOOLEAN
  /\ tests \in -2..NumTests
  /\ ended \in {"no", "aborted", "failure", "passed"}
  /\ g_logging_fail_func \in {"abort", "DumpStackTraceAndExit", "CalledAbort"}
  /\ g_logging_fail_func = "CalledAbort" => DeathFrames # {}

(* Text goes where its stream pointed when it was printed and nowhere      *)
(* else, whole and in order, although stdout is buffered and stderr is     *)
(* not: to the captured file between CaptureTest... and the call that      *)
(* reads the file, to the terminal otherwise. Only abort() may leave text  *)
(* behind in the buffer.                                                   *)
OutputExact ==
  /\ \A s \in Streams :
       /\ sent[s].tty = tty[s] \o (IF s \in capturing THEN <<>> ELSE Pending(s))
       /\ sent[s].captured =
            captured[s] \o (IF s \in capturing THEN Pending(s) ELSE <<>>)
  /\ ended \in {"failure", "passed"} => buffer = <<>>

(* Captures of both streams, in any order and with death tests in between, *)
(* neither leak a descriptor nor lose the terminal: the open descriptors   *)
(* are the three standard ones and one per CapturedStream, that one still  *)
(* leads to the terminal, and a stream leads to its file only while it is  *)
(* being captured.                                                         *)
FdsAccounted ==
  LET saved == {s_captured_streams[s] : s \in Streams} \ {NoFd}
  IN /\ {fd \in Fds : fds[fd] # NoFd} = {STDIN_FILENO} \cup Streams \cup saved
     /\ \A fd \in saved : fds[fd] = Terminal
     /\ Cardinality(saved) =
          Cardinality({s \in Streams : s_captured_streams[s] # NoFd})
     /\ \A s \in Streams : fds[s] = IF s \in capturing THEN s ELSE Terminal

(* Between two tests the process is as it was before the first, whatever   *)
(* scopes the tests went through and whatever a longjmp out of them has    *)
(* skipped: the flags of FlagSaver have their value, also when the         *)
(* destructor of an inner FlagSaver has not run; a failing CHECK ends the  *)
(* process; and operator new has no hook, unless a death test's function   *)
(* was left with a NewHook in it, which nothing takes off again.           *)
TestsIndependent ==
  tests >= 0 /\ scopes = <<>> =>
    /\ \A f \in SavedFlags : FLAGS[f] = base[f]
    /\ g_new_hook => hook_left
    /\ g_logging_fail_func # "CalledAbort"

(* No test leaves anything behind for the next one but the hook that a     *)
(* longjmp skipped, and at no moment is CalledAbort installed with nowhere *)
(* to jump to.                                                             *)
IsolationInv == ProcessTypeOK /\ TestsIndependent

(* A test program does not pass when the function of a death test came     *)
(* back: the answer of an earlier one is not taken for its own.            *)
SurvivorsFail == survivors > 0 => ended = "failure"

=============================================================================
