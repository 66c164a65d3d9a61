# A TLA+ verification project for googleLogging

This directory holds TLA+ models of the parts of this logging library (a fork
of glog) that carry its own control logic, TLC configurations that check them
on small instances, and TLAPS proofs for every value of the constants. It is
kept beside the code: every definition that stands for code is listed with its
source lines in `PROJECT.json` under `map`, paths being relative to the
directory that holds `src/` and `tla/`.

## 1. Inventory

What the repository holds, what state each part keeps, and what could go wrong.

| Part | Source | State | Operations | What is hard |
|---|---|---|---|---|
| VLOG verbosity control | `vlog_is_on.cc`, `googlelog/vlog_is_on.h.in` | `FLAGS_v`, `FLAGS_vmodule`, `vmodule_list`, `inited_vmodule`, `cached_site_list`, one `SiteFlag` per site, `vmodule_lock` | `VLOG_IS_ON`, `InitVLOG3__`, `VLOG2Initializer`, `SetVLOGLevel`, `SafeFNMatch_` | sites are read without the lock; a test of `level` is stale when the lock is taken; the walk removes what it walks over; lazily parsed flag |
| Failure signal handler | `signalhandler.cc` | signal dispositions, `g_failure_writer`, `g_entered_thread_id_pointer` | `InstallFailureSignalHandler`, `InstallFailureWriter`, `FailureSignalHandler` | several threads and several signals at any instruction; a pointer to a local of another thread; waiting for a death that must come |
| Failure function, crash reason | `utilities.cc`, `utilities.h` | `g_reason`, `g_program_invocation_short_name` | `DumpStackTraceAndExit`, `SetCrashReason`, `InitGoogleLoggingUtilities`, `ShutdownGoogleLoggingUtilities` | resets SIGABRT while another thread dumps |
| Raw logging | `raw_logging.cc`, `googlelog/raw_logging.h.in` | `crashed`, `crash_reason`, `crash_buf` | `RawLog__`, `DoRawLog`, `VADoRawLog` | a fixed buffer at its limit; several threads crash at once |
| Occasional logging | macros of `googlelog/logging.h.in` | per site: `LOG_OCCURRENCES`, `LOG_OCCURRENCES_MOD_N`, `LOG_PREVIOUS_TIME_RAW` | `LOG_EVERY_N`, `LOG_IF_EVERY_N`, `PLOG_EVERY_N`, `LOG_FIRST_N`, `LOG_EVERY_T` | atomic accesses that are not one atomic step |
| Demangler | `demangle.cc` | the parser's `State` (input and output cursors, nest level) | `Demangle` and about 40 parsing functions | backtracking over a buffer of fixed size, inside a signal handler |
| Stack unwinders | `stacktrace_*-inl.h` | `g_tl_entered`, `ready_to_run` | `GetStackTrace` in six builds | re-entry, a corrupt stack, the limit of frames, and six ways to count the skipped ones |
| Mutex wrapper | `base/mutex.h`, `base/googleinit.h` | `is_safe_`, `destroy_`, the primitive of the system | constructor, destructor, `Lock`, `ReaderLock`, `Unlock`, ... in five builds | global constructors that lock before it is constructed, threads that go on after it is destroyed |
| Flags | `base/commandlineflags.h` | `FLAGS_*` | read from the environment once | none |
| Container output | `googlelog/stl_logging.h.in` | none | `PrintSequence` and `operator<<` | the limit of 100 elements |
| Test support | `googletest.h`, `mock-log.h`, `logging_unittest.cc` | `s_captured_streams`, `g_called_abort`, `g_new_hook`, `g_logging_fail_func`, the flags of `FlagSaver`; `ScopedMockLog::message_info_`; the queue of `TestWaitingLogSink` | `CaptureTestOutput`, `ASSERT_DEATH`, `FlagSaver`, `RUN_ALL_TESTS`; `send`, `WaitTillSent`, the writer thread | non-local exits, buffered text that changes its destination, sinks that log themselves |
| CHECK macros, severities | `googlelog/logging.h.in`, `googlelog/log_severity.h` | none | expression templates | none |
| Windows port | `windows/` | the directory streams of `dirent.h`: cached entry, search handle, pattern | `opendir`, `readdir_r`, `rewinddir`, `closedir`, `scandir`; wrappers in `port.cc` | every allocation, conversion and system call may fail, with several blocks held |
| LogMessage, LogDestination, LogSink, log files | declared in `googlelog/logging.h.in` | - | - | the implementation is not in this tree: `logging.cc` holds a unit test |
| Symbolizer | declared in `symbolize.h` | - | - | not in this tree: `symbolize.cc` holds the unit test of `stl_logging` |

How the parts meet: `VLOG` and `RAW_VLOG` ask `VLOG_IS_ON`; `SetVLOGLevel`
itself ends in a `RAW_VLOG`; `RAW_LOG(FATAL)` publishes a crash reason and calls
`LogMessage::Fail`, which by `InitGoogleLoggingUtilities` is
`DumpStackTraceAndExit`; that asks the signal handler whether it is installed
and takes SIGABRT from it; both dumping paths call an unwinder, the symbolizer
and through it the demangler. `VLog` locks through `Mutex`; a `LOG` statement
hands its message to sinks, `send` under the lock of the logging system and
`WaitTillSent` after it; the death tests install their own failure function in
the place that `InitGoogleLoggingUtilities` also writes.

Where a part is correct:

* VLOG: a site is controlled by the first entry that matches its module, or by
  `FLAGS_v`, whatever the order of calls; no pointer that is read without the
  lock dangles; no call hangs; the patterns mean what is documented.
* Signal handler: one dump, whole, and then the process ends.
* Raw logging: no line leaves its buffer, no line is garbled, a crash reason is
  of one crash.
* Occasional logging: a message at most as often as asked, the sampling does not
  drift, and a site is never silenced.
* Demangler: a mangled name is printed as the name it stands for, whole or not
  at all, an abandoned alternative leaves no trace, and the parser ends.
* Stack unwinders: the callers, in order, without the skipped ones; a corrupt
  stack ends the walk and adds nothing; every build gives the same.
* Mutex: exclusion, from the first global constructor to the destructor.
* Test support: what is printed is captured or shown, once; a test leaves
  nothing behind; a death test that survives fails the program; a sink loses no
  message and no `LOG` statement hangs.
* Directory streams: each entry once, all or nothing from `scandir`, and no memory
  or search handle lost, whatever fails.

`PROJECT.json` lists under `hazards` where each of these could break, by line.

## 2. Modules

| Module | Models | Run by |
|---|---|---|
| `VModuleText` | `SafeFNMatch_`, the parser of `--vmodule`, the module name of a file: pure functions | `MCText`, through `MCVModuleText` |
| `VLog` | the VLOG machinery, one action per access that others can see | `MCVLog` |
| `VLogControl` | abstract: what controls a site, without threads, lock or caches | implemented by `VLog` |
| `VLogProofs` | theorems about `VLog` and `VModuleText` | TLAPS |
| `FailureSignal` | `signalhandler.cc`, `DumpStackTraceAndExit`, and the kernel's signal delivery | `MCFailureSignal` |
| `FailureSignalProofs` | theorems about `FailureSignal` | TLAPS |
| `RawLog` | `RawLog__`, `SetCrashReason` | `MCRawLog` |
| `RawLogProofs` | theorems about `RawLog` | TLAPS |
| `OccasionalLog` | `LOG_EVERY_N`, `LOG_IF_EVERY_N`, `LOG_FIRST_N` | `MCOccasionalLog` |
| `EveryT` | extends it with `LOG_EVERY_T` | `MCOccasionalLog` |
| `OccasionalLogProofs` | theorems about both | TLAPS |
| `Demangle` | `demangle.cc`: a pure function of text and buffer size | `MCText`, through `MCDemangle` |
| `Unwind` | the six `GetStackTrace`: pure functions of the stack | `MCText`, through `MCStackDump` |
| `MinimalFormatter` | the formatter of the signal handler and a line of the stack dump | `MCText`, through `MCStackDump` |
| `Numerals` | digits and decimal numerals, for the three modules that read or write them | with them |
| `TextProofs` | theorems about `Demangle`, `Unwind` and `MinimalFormatter` | TLAPS |
| `Sinks` | `ScopedMockLog`, `TestWaitingLogSink` and the contract of `LogSink` | `MCSinks` |
| `SinksProofs` | theorems about `Sinks` | TLAPS |
| `TestProcess` | `googletest.h` with `InitGoogleLogging` and the failure function: a test program as one process | `MCTestProcess` |
| `TestProcessProofs` | theorems about `TestProcess` and `Mutex` | TLAPS |
| `Mutex` | `base/mutex.h` in five builds, from zeroed memory to the destructor | `MCTestProcess` |
| `RWLock` | abstract: what a Mutex promises | implemented by `Mutex` |
| `Dirent` | `windows/dirent.h` | `MCDirent` |
| `DirentProofs` | theorems about `Dirent` | TLAPS |

### VLog

State has the names of the code. A pointer to an integer is a number: -1 is
NULL, 0 is `&FLAGS_v`, k is the level of the k-th entry counted from the back,
so entries keep their numbers when others are put in front (`vmodule_list` has
its head last). `level[s]` is `SiteFlag.level`; `base_name[s]` says whether
`SiteFlag.base_name` is set, which is how `InitVLOG3__` recognises a site that
is on `cached_site_list` already.

A thread in `VLOG_IS_ON` goes `check` (test of `level`, no lock), then `deref`
or `init_lock`, `init`, `init_return`. `SetVLOGLevel` goes `set_lock`, one
`SetScan` per entry, `SetInsert`, one `SetWalk` per cached site, `set_unlock`,
and then runs a `VLOG_IS_ON` for its `RAW_VLOG`. Writes that only the holder of
the lock can see are made in one step with their neighbours; a write of a
site's `level` or of an entry's level is a step of its own, since other threads
read those without the lock. `FLAGS_v` may be assigned at any time. The lock is
modelled from how `MutexLock` uses it; `ParseVmodule`, `BaseName` and
`SafeFNMatch` come from `VModuleText`, and which pattern matches which name is
tabulated once (`Matches`).

`VLogControl` says what this amounts to: entries are only added, in front, and
a step hands at most one site over, to the first entry that matches it. The
refinement mapping is `entries` to the patterns of `vmodule_list` and `control`
to `level`.

### FailureSignal

`frames[t]` are the invocations of the handler on the stack of thread t. The
kernel is external and modelled as `sigaction` without `SA_NODEFER` and with an
empty mask makes it: a signal is blocked in a thread that handles it;
`kill(getpid())` leaves it to any thread that does not block it; a thread takes
a signal before its next instruction; a fault while the signal is blocked
kills. `g_entered_thread_id_pointer` is the frame whose local it points at.
Each line handed to `g_failure_writer` is a step and is recorded as who wrote
it, what, and to which writer; the text is left out. `Fail`, `ResetAbort` and
`Abort` are `DumpStackTraceAndExit`. The compare-and-swap is atomic, as in the
gcc and x86 branches of `sync_val_compare_and_swap`; the naive third branch,
which its own comment calls a race, is not modelled.

### RawLog

The formatting is a function of the lengths, since no other thread sees it: a
text is a sequence of characters that only say whether they belong to the
prefix, the message, the notice or the newline. `vsnprintf` is external.
Everything from the write on is a step each, up to `abort`.

### OccasionalLog, EveryT

One site, several threads, each access to an atomic variable a step; which of
the four macros the site is, is chosen at first. History variables record which
executions were logged. `LOG_OCCURRENCES` is an `int` that wraps around, with
`IntMax` in place of 2^31 - 1. In `EveryT` the clock moves between any two steps.
The branches for compilers without C++11 atomics are not modelled.

### Demangle

A parsing function of the code is a definition of the same name: the sequence
of its alternatives, each the chain of calls the code joins with `&&`, marked
`Saved` where the code puts the state back with `*state = copy` and `Plain`
where it does not. `Parse` interprets them in C's order of evaluation; since
productions call each other they are named by strings, and the recursion is in
the interpreter alone. What is to be done is a *task*: the call of a function, the
rest of a call from an alternative or from a step of it on, the rest of a loop.
`Do` does one in terms of the tasks it is made of, and `Parse` is the function of
depth and task that results, down to `Deepest`, a depth no parse reaches: one
recursive function instead of forty operators that call each other, so that
there is something to prove about. The functions that read characters themselves
(`ParseNumber`, `ParseIdentifier`, the look-ups in the tables) and `ParsePrefix`
with its loop are operators. The state is the `State` structure, with the bytes
before `out_cur` as a sequence of characters; a failing call's state is passed
on, as in the code, so the letter a function like `ParseAbiTag` leaves consumed
stays consumed. `nest_level` is a `short` and wraps around. Texts are sequences of one-letter strings, which `Text` makes of
the literals.

The model gives the expected output on every pair of
`src/src/demangle_unittest.txt`, and agreed with the compiled function on 12000
pairs of a text, mutated from those or made up, and a buffer size; neither
comparison is part of the runs. Source-name lengths are taken to be non-negative
and to fit an `int`, as the grammar at `demangle.cc:609` says; the inputs of the
run keep to that.

`MCDemangle` builds C++ entities from components whose code and whose printed
form are written down independently, and grows arbitrary texts after an opening.

### Unwind, MinimalFormatter

The frame walkers (x86, PowerPC) read a memory that maps the address of a frame
to its link and its return address. Every plausibility test of
`NextStackFrame<true>` is there, the one of 32-bit x86 included (a link into the
last two pages of the address space, from `LastPages` on, is none), so that there
are three builds of them: x86_64 and PowerPC do not look for that. The others take
the calls from a library, which is external. A loop is a function of the rounds
left (`Rounds`). `WalkExact` compares the walk with the least set closed under plausible links, in memory that
holds any links; `BuildsAgree` runs all six on a sound stack, for every
`skip_count` and `max_depth` up to a bound, i386 where the stack is below those
pages. Memory beyond the frames is left out:
`FramesAssumption` says that a link which passes the tests leads to a frame,
since elsewhere the code reads what may not be there. `AppendHexWithPadding` moves
its text without a look at the end of the buffer, as in the code; `FrameLineExact` shows that the prefixes in use
always leave it room, and that a number comes out as its numeral, for a set of
numbers with their numerals, whose value `HexValue` works out independently.

### Sinks

`stack[t]` are the `LOG` statements thread t is in, the innermost first: a sink
that logs in `WaitTillSent` puts one on top. The logging system itself is not in
the tree; what is modelled of it is the contract of `LogSink`
(`logging.h.in`): `send` of every sink under one lock, then `WaitTillSent` of
every sink without it. The writer thread of `TestWaitingLogSink` takes a message
under its mutex, logs, and stores the message; the destructor removes the sink,
stops and joins it. `ScopedMockLog::message_info_` is written in two steps, and
Log() reads its arguments when the code does.

### TestProcess

One thread that makes any sequence of calls that the unit tests could: it
prints, captures a stream and reads the capture back, enters `ASSERT_DEATH` and
`FlagSaver` scopes, sets a hook of new, initialises and shuts the library down,
and fails a CHECK. Descriptors, the file of each capture and the buffer of
stdout are modelled, since what `OutputExact` is about is text that is flushed
after its descriptor was moved. What arrives at the terminal is kept apart by
stream: how the texts of stdout and stderr interleave there is not modelled.

A death leaves every scope up to the `ASSERT_DEATH` by longjmp, and the destructors of the objects in its function do
not run (which C++ leaves undefined where they would have done something; gcc's
longjmp just does not run them). A test's own `FlagSaver` makes up for a skipped one.
For a skipped `NewHook` nothing does; `hook_left` remembers that there was one. No
test of the repository has an object in such a function. An `ASSERT_DEATH` in the
function of another is left out: the two would share `g_jmp_buf` and
`g_called_abort`, and none is written.

### Mutex, RWLock

A global Mutex in memory that is zero at first: global constructors of other
files may lock it before its own constructor has run, threads may lock it after
its destructor. `primitive` is the lock of the system, `held` what each thread
thinks it has; the two differ while `is_safe_` is false. The refinement mapping
to `RWLock` is `holds` to `held` and `open` to the time before the destructor.

### Dirent

A call is a sequence of steps, one per allocation, conversion or system call
that can fail, each with its success and its failure; between calls the program
is `idle`. `stream` holds the pointers of the program's stream and of the one
`scandir` works at, `heap` and `searches` count what is allocated and open. A
name comes with what `wcstombs` makes of it in a buffer of `PATH_MAX` + 1 bytes:
the number of bytes, all of them or as many as whole characters fit, or -1. The
Win32 search, the conversion and the heap are external. `scandir` may be called
without a `namelist`, as its code allows; what it then drops is counted in `lost`.
`scandir` sorts with `qsort`, modelled by what the C standard says of it: the list comes out in any order that
`alphasort` allows, equal names in any order.

## 3. Runs

Passing runs:

| Run | Bounds | Shows |
|---|---|---|
| `vlog` | 2 threads, 3 sites (one is `RAW_VLOG`'s own), 2 overlapping patterns, an empty and a non-empty flag, 2 levels, 2 calls each | coherence of caches and lists, atomicity of `SetVLOGLevel`, refinement of `VLogControl`; every call returns |
| `failure_signal` | 2 threads, 3 signals, 3 deliveries, 1 stack frame | one dump, whole before death; the pointer is not read stale; a failure ends the process |
| `raw_log` | 2 threads, a buffer of 4, prefixes and messages of every size around it and an error of `vsnprintf` | lines and crash reason are whole |
| `occasional` | n = 2, 6 executions, an int of at most 5; 3 threads, 2 for `LOG_EVERY_T`, with a period of 2 and a clock up to 7 | at most n messages and at most one missed per other thread; the phase is kept through an overflow of the count; one thread alone logs at exactly the documented executions, numbered among all of them; nothing silenced, bursts bounded |
| `text` | every pattern of 5 and name of 3 characters, flags of 3 entries; names of up to 3 components out of 19, 6 signatures, local and special names; 3 openings and every 3 of 10 characters after them, every buffer size; 3 frames with any links on x86_64, i386 and PowerPC, stacks of 6 calls, 2 skipped calls and 7 wanted ones, symbols of 6 characters | the matcher is sound, and complete without `**`, and a module's files share its name; the flag parser recovers from bad entries; demangling inverts mangling, suffixes included; the backtracking convention; the full name or a refusal; the unwinders and the lines of the dump |
| `dirent` | 5 directories of up to 3 entries with short, too long and untranslatable names, in characters of 1, 2 and 3 bytes, a `PATH_MAX` of 3, 5 calls | nothing freed twice, and nothing leaked but by a `scandir` without a `namelist`; each entry once, under its name, its name chopped by `wcstombs`, or its short name; `scandir` gives all or nothing; every call returns |
| `sinks` | the creator, one other thread and the writer; the waiting sink, the mock or both; 3 `LOG` statements besides the writer's own | no message lost, doubled or overtaken; the mock is exact for one logging thread; no `LOG` hangs and the destructor ends |
| `test_process` | 2 tests, with 2 messages and 2 scopes at once or no message and 3 scopes; a Mutex of each of 5 builds with 3 threads | output goes where its stream pointed; no descriptor leaks; tests are independent, also after a longjmp over destructors, but for a hook of new it left; a survivor fails the program; a Mutex is a readers-writer lock until it is destroyed |

Why the bounds are enough to be of use: two threads are what every race here
needs (three for the occasional macros, where a third moves the counter between
the other two's accesses); the patterns overlap, so that the order of entries
matters; three signals give a signal for the dumping thread, one for a waiting
one and one that is still unhandled; the buffer sizes meet every comparison in
`DoRawLog` from both sides and at equality; 6 executions wrap the counter of
n = 2 three times and overflow an int of 5. The table of `scandir` is grown
twice by 3 entries, and every name length around `PATH_MAX` occurs, a character
across the end of the buffer included; three `LOG`
statements are one for the queue, one for the writer's hand and one on its way;
two scopes are a death test with another object inside it or around it, and three
are that inside a test. Deadlock checking is off only where the system does stop:
after the process has died, and where the bound on calls or executions has been
used up. Threads are symmetric in `raw_log` and `occasional`, where they differ in
nothing but the name and no liveness is checked.

The openings of `text` put the parser at the start of an encoding, inside
template arguments of a nested name and inside a local name; three more
characters are enough to begin every construct of the alphabet and to abandon
it after one or two tokens, which is what backtracking has to survive.
`BufferAllOrNothing` allows two bytes more than the name for nested names: the
"::" written before the part that is not there is cancelled, but the overflow it
may have caused is not. `ParseConvention` excepts the cursor for three functions
that consume a token before they fail, where the comment at `demangle.cc:463-465`
claims no change; their callers restore it, but for the repetition of
`ParseAbiTag`, which keeps the letter.

`PatternGoverns` leaves out patterns with two stars in a row: the matcher does
not match `a**` with `a`. `ControlMovesForward` lets an entry's site go to one
in front of it: a thread that is late to the lock does that, so the "forever"
of the comment at `vlog_is_on.cc:262-263` holds for one thread only. And
`LOG_EVERY_N` with several threads may skip a due execution, which `PhaseKept`
allows for. `LOG_FIRST_N` with several threads may log fewer than n messages,
where `logging.h.in:237` says "the first 20 times"; `FirstNWithin` says how many
fewer.

Seven more places where the code does not do all that is said of it, or less than
a caller may expect, without a run of their own:

* `logging.h.in:230-231` has `LOG_IF_EVERY_N` print "Got the COUNTERth big cookie",
  the big ones being those that meet the condition. The code increments
  `LOG_OCCURRENCES` before it looks at the condition (`logging.h.in:1093-1095`), so
  COUNTER numbers all executions; `ExactWhenAlone` gives that number.
* `dirent.h:771-775` says that a name which cannot be converted is replaced by the
  short one, or the entry is erroneous. A too long name whose next character does
  not fit whole into the buffer is converted as far as it goes, and
  `dirent.h:1108` takes that for success: the entry has a chopped name.
  `EachEntryOnce` says when.
* `scandir` with a `namelist` of NULL, which `dirent.h:1010` allows for, gives its
  table and entries to nobody and does not free them. `MemoryAccounted` counts
  them as lost, and nothing else.
* `mock-log.h:111-115` promises "thread-safety of the exchange between `send()`
  and `WaitTillSent()`". With two logging threads the second `send` overwrites
  `message_info_` before the first thread reads it, so `MockExactWhenAlone` is
  about one logging thread (and any nesting in it).
* `Wait()` of the waiting sink returns when the queue is empty, which it is while
  the writer still has the last message in hand (`logging_unittest.cc:1171`,
  given as the example at `logging.h.in:1719-1731`). `CapturedInOrder` shows that
  it is not lost.
* An error of `FindNextFileW` is taken for the end of the directory;
  `readdir_r` returns 0 in every case, and the branch of `scandir` for its error
  (`dirent.h:979-983`) is never taken. `EachEntryOnce` and `ScandirExact` say
  that what came before the error is right.
* A destroyed Mutex keeps `is_safe_` (`mutex.h:249`), so a thread that goes on at
  exit may lock a destroyed primitive; `AbortsOnlyAtExit` confines that to the
  time after the destructor.

Runs that show a disagreement between the code and what is written about it
(`findings` quotes the lines):

| Run | What is written | What the code does |
|---|---|---|
| `vlog_default` | `FLAGS_v` continues to control sites no pattern applied to | a later `SetVLOGLevel` takes them over |
| `vlog_set` | the level for `module_pattern` is set | nothing is set when another entry's wildcard covers the pattern |
| `failure_signal_reentry` | a re-entering thread kills itself | its signal is blocked and it sleeps for ever |
| `raw_log_overflow` | true iff there was no overflow | true when exactly the NUL did not fit |

Fairness. `VLog!FairSpec`: a thread inside a call keeps running; the mutex is
free infinitely often only if its holders go on, which is the same assumption,
and a thread that makes finitely many calls cannot be overtaken for ever, so
weak fairness is enough. `FailureSignal!FairSpec`: a thread inside the handler
goes on, and a signal that some thread does not block is taken; the sleeping
loop has no step. Nothing is assumed of threads outside the handler, of senders
or of `LOG(FATAL)`. `Dirent!DirSpec`: a program inside a call goes on with it;
what the step finds, success or failure, is not constrained. `Sinks!SinksSpec`:
a thread inside a `LOG` statement, the writer and the creator in its destructor
go on; nobody has to begin a `LOG`. The locks are free often enough for the same
reason as in `VLog`. The other modules need no fairness.

Every property has a mutant in `PROJECT.json`: a plausible bug in one
definition under which TLC finds it violated. Their definitions (`Mut...`)
stand before the definition they replace and are used by nothing else. A type
invariant that says little by itself is checked as a part of another invariant:
`HandlerInv`, `LinesInv`, `SinksInv`, `IsolationInv`, `DirInv` and `MutexInv` name
their parts, `TimeTypeOK` includes that of the counting macros.

## 4. Proofs

Every safety property that a run checks is proved, but for two of the demangler's,
for every value of the constants that the named assumptions of its module allow. A proof
module holds the inductive invariant (`IInv`; for `Mutex` it is `MutexInv`
itself), lemmas about the operators the steps are built from, one lemma or step
for each action, and the theorems. TLC checked each inductive invariant on the
bounds of section 3 before it was proved. The bounds on calls, executions and
the like are constants of these specifications: the theorems hold for each of
them.

`VLogProofs`, for any set of threads, sites, files, flags, patterns and levels:

* `TypeCorrect`: `Spec => []TypeOK`; every pointer leads into the list;
* `CachedListCorrect`, `CacheCorrect`: the invariants of the caches;
* `MovesForward`, `EntriesKept`: what a step may never do (both also follow from
  the refinement);
* `ImplementsControl`: `VLog` implements `VLogControl`;
* `SetAtomic`: a `SetVLOGLevel` leaves the list that its arguments make of the
  one it found, and returns the level that applied there.

To `TypeOK`, `LockHeld`, `CachedListExact` and `CacheCoherent` the invariant adds
`LocalsOK` (what the locals of `SetVLOGLevel` say while it holds the lock: the
new entry is the head and has the pattern of the argument) and
`NothingCachedEarly` (no site is cached before the flag is parsed, without which
the entries of the flag could be put in front of a site already cached to
`FLAGS_v`). `CacheCoherent` is not inductive without `CachedListExact`: the walk
reaches a site only through the list. For `SetAtomic`, `Progress` says at each
label which entries have been changed and which are as they were found. The
assumption `FlagsAssumption` says no more than that a flag is a text; that it is
parsed into a sequence of entries, whatever it holds, is the theorem `ParseTypes`
below.

`TestProcessProofs`, for any set of threads and any of the five builds of `Mutex`, from
`MutexAssumption` (the main thread is a thread, the builds are known ones):

* `MutexInvHolds`: `MutexSpec => []MutexInv`;
* `MutexAborts`: nothing aborts before the destructor has run;
* `MutexImplements`: `Mutex` implements `RWLock`.

`MutexInv` is inductive. That the Mutex is granted only when the other threads'
modes allow it is a fact about `primitive`, while the promise is about `held`:
so the invariant needs `PrimitiveAgrees` and `SharesAreReads`, as soon as calls
go to the primitive at all. Before that nothing is locked, and exclusion rests on
`LifeOK`: only one thread runs. The model takes a global constructor to give the
Mutex back before it ends, since the constructor of the Mutex may be the next.

`FailureSignalProofs`, for any threads, any stack depth up to the 32 frames of
the handler's array and any list of signals without repetitions
(`SignalsAssumption`, which the table `kFailureSignals` satisfies):
`HandlerStateSound` (types, and the pointer to the dumping thread's local is
never read stale), `OneDumpHolds`, `DumpBeforeDeathHolds`. None of the three is inductive. `FramesInv` places the
frames of each thread: the one the pointer points at is the only one in the
dumping part, and who finds itself there again is above it. `LiveInv` says that
this frame is alive, or that its process is about to be killed by a signal whose
handler is the default one again; `DefaultInv` who has made it the default one;
`OutputInv` counts the lines that the dumping frame has written at its label.

`RawLogProofs`, for any threads, any buffer and any lengths: `LinesHold`,
`CrashReasonHolds`. The first half is about the formatting alone: lemmas on each
step of `RawLog__` give where the prefix, the message or the notice, the newline
and the NUL come to lie, with the cases where one does not fit. The invariant
then says that a thread's buffer holds its call's line until it is written, and
that at most one thread fills `crash_reason` in, has the fields up to its label,
and that nobody does once it is published.

`OccasionalLogProofs`, for any number of threads (at least one, finitely many),
any n, any period and any `IntMax` with room for n and the threads:

* `SiteTypeCorrect`, `FirstNHolds`, `PhaseHolds`, `SkipHolds`. `FirstNInv` and
  `PhaseInv` count threads by label: up to n, `LOG_OCCURRENCES` is the number of
  threads that have logged or still may; and `LOG_OCCURRENCES_MOD_N` is
  congruent to the executions once the additions and subtractions under way are
  made. The bounds on what is lost are the numbers of threads at those labels.
* `BurstHolds`: of T users a period has at most T(T+1)/2 messages. The invariant
  is a budget, for each period that has begun: twice its messages, and twice
  those that may still come. They come from the threads that neither hold a time
  before the period nor have logged in it, as long as the time of the last
  message is before it; and once more, for each old time that a thread holds,
  from all that then hold none.
* `AloneExact`: for a single user the counters are a function of the number of
  executions (of those sampled, for `LOG_IF_EVERY_N`) at each label, and what is
  logged is what was due among the executions that are over. It needs
  arithmetic of remainders (`RemainderStep`, `ModNNext`, `SampleNext`,
  `AsIntNext`), as TLAPS has none for a divisor that is not a literal.

`SinksProofs`, for any set of other threads and any number of `LOG` statements:
`NothingLostOnTheWay`, `MockHolds`. `SinksInv` needs `ThreadsInv` (which labels
hold which lock, and that the statements around the inner one wait in the mock's
Log()), `WriterInv` (the writer has a message in hand from taking it to storing
it, and leaves an empty queue after it is told to) and `CountInv` (a message has
one of the numbers the model gives out). `MockInv` speaks of a single logging
thread: `message_info_` is what `send` of its innermost statement made of it.

`TestProcessProofs`, of `TestProcess` for any number of tests, scopes and messages:
`IsolationHolds`, `SurvivorsAreFailures`, `TextExact`, `DescriptorsAccounted`.
`TestsIndependent` is about the moment between two tests; inside one the
invariant says of the stack of scopes that a test's `FlagSaver` is the outermost
and keeps the flags of the beginning, that the hook of new belongs to a `NewHook`
on the stack or to one that a longjmp has left, and that one scope at most is an
`ASSERT_DEATH`, without whose unanswered question `CalledAbort` is not installed.
A longjmp over destructors is therefore harmless but for the hook: the flags are
put back at the end of the test (`DropDeath`, `LongJmpDrops`). `DescriptorInv` says which descriptor leads where, without which text
in the buffer could not be told to arrive where it was printed to.

`DirentProofs`, for any directories, any `PATH_MAX` and any number of calls:
`MemoryIsAccounted`, `PassIsExact`, `ScandirAllOrNothing`, whatever `wcstombs` makes
of each name and with or without a `namelist`. `StreamsInv` says at
each label which parts of the two streams are there, `Balance` counts the blocks
and handles they and `scandir` own and those given up for want of a `namelist`, `PassInv` relates what the program has read to
the place of the search and the cached entry, and `ScanInv` the table of
`scandir` to what passed its filter so far. A pass that has ended needs more
than `EachEntryOnce` says, namely that it had an error or the whole directory
behind it before the first NULL is returned. `DirectoriesAssumption` says
that a directory is a sequence of files and that NULL is none of the records.

`VLogProofs` again and `TextProofs`, about pure functions, for inputs of any size
(the first two in `VLogProofs`):

* `MatcherSound`, `MatcherComplete`, `BaseNameExact` and, from them,
  `PatternsGovern` (`PatternGoverns`): over any characters; `NameAssumption` only
  says that the names that are matched can be module names, without a slash, a dot
  and "-inl";
* `ParseTypes`, `EntriesRecovered` and, from it, `FlagsRecovered`
  (`FlagEntriesRecovered`): a flag of any number of entries;
* `TracesAgree` (`BuildsAgree`): stacks of any depth, any `skip_count`,
  `max_depth` and `kStackLength`, from `StackAssumption` (a frame of a word is
  not too large to be plausible); for i386, stacks below the last two pages;
* `WalksExact` (`WalkExact`): any number of frames at any addresses, with any
  links and return addresses, in each of the three builds, from
  `FramesAssumption`;
* `FrameLinesExact` (`FrameLineExact`): any symbol, any address and any buffer
  and width, from `PointersAssumption`: a width of two more than the digits of any
  address, as `2 * sizeof(void*) + 2` is, and a buffer with room for that behind
  the prefix. Without the latter the line is wrong, since the padding is moved
  without a look at the end;
* `ParseMeets` and, from it, `ConventionKept` (`ParseConvention`): texts of any
  length, states with any output, name, nest level, append mode and room, from
  `TextsAssumption` and `InputsAssumption`.

They need induction over data, which the library's theorems offer for
predicates only. Here it is an induction over sets: `NatSetInduction` and
`DownInduction` follow from the well-foundedness of < (`WFMin`), and
`RecursionFromEnd` derives from them that there is a function whose value at i is
made of its values behind i; it is used for `SafeFNMatch`, `ParseVmodule`,
`DecimalValue`, `HexValue` and the text of a flag. With that table at hand the matcher is compared
with the glob from the end of the pattern backwards: what a cell accepts can be
cut into pieces, and if a cut exists the cell accepts, since behind a star there
is something left for the next character to take. The parser is compared with the
list of entries from the last one on. A loop of an unwinder has a closed form,
its state after j rounds, which one more round preserves (`WalkRound`,
`TakerRound`, `TraceRound`). For corrupt memory, the frames the walk passes
are a path on which addresses rise (`PathFrom`, `PathRises`); one exists from every
frame, by induction from the highest address down (`PathExtends`), it is no
longer than there are frames, and what is on it is the least closed set
(`ReachedIsPath`). The loop of `AppendUint64` is compared with the numeral from
its last digit on: after j rounds it has written the last j digits, backwards,
and its number is that of the others, which is not 0 before they are all gone
(`HexTable`, `NumberAppended`). Behind the number, cutting off after every piece
is cutting off once at the end (`CutTwice`).

`ParseMeets` says what a parsing function promises its caller (`Meets`), for the
thirty-odd productions and the eight functions that read characters themselves
at once. It is an induction over tasks, whose measure (`CallCost`, `TryCost`,
`GoCost` and the others) is what makes the recursion end: between two characters
consumed the functions call each other only down a ranking (`Rank`), which is
where a left recursion in the grammar would have shown, and within a call the
alternatives and steps to come get fewer. So each task costs more than those it
is made of, all cost less than `Deepest`, and the table of tasks is right from
the deepest level up (`NothingCosts`, then the lemmas on one more level,
`RowCalls` to `RowPrefixes`). What lies between the steps of an alternative is
given by *marks* (`Along`): whether something is consumed, whether nest level and
append mode are those at the call, and whether the state still is what a failure
must leave; the lemmas `...Fits` give the marks of every alternative of
every production. A `*state = copy` may be missing only where the state needs
none, and `EatsFirst` has just the three functions where it does.
`TextsAssumption` says what TLC finds of the literals of the grammar, that they
are sequences of strings and tokens are not empty, since to the provers a string
is no sequence; `InputsAssumption` keeps "n" out of the texts, so that no number
is negative: with a negative length `ParseIdentifier` would move the cursor
back, and nothing of this holds.

Only model-checked:

* liveness, which rests on fairness and ENABLED: `CallsReturn`,
  `FailureEndsProcess`, `DirCallsReturn`, `LogsReturn`;
* `DemangleInverts`: what is expected is put together from TLA+ strings;
* `BufferAllOrNothing`, which compares two runs of the whole grammar with buffers
  of different sizes, and would take a second induction like that of
  `ParseMeets` over pairs of states.

## 5. Not modelled, and the plan

Not modelled:

* `LogMessage`, `LogDestination`, log files and the symbolizer: they are not in
  the tree (`logging.cc` and `symbolize.cc` hold unit tests), so that of a `LOG`
  statement only the contract of its sinks can be told;
* flags from the environment, CHECK macros and severities: macros without state;
* in `googletest.h` `MungeLine` and the benchmarks, in `port.cc` the wrappers of
  the C run-time, and the branches of other files for Windows (`Demangle`'s
  included), plain gcc and `clock_gettime`;
* `NextStackFrame<false>`, which nothing instantiates, and a failure of an
  unwinding library in the middle of a stack;
* in `ParseNumber` a sign and an overflow, as said above;
* build files and examples.

To come, in this order:

1. A model of `LogStreamBuf` (what a full buffer drops, and the two bytes it keeps
   free) and of the limit of `PrintSequence`, both complete in their headers.
2. Refinements of abstract specifications by `RawLog` (one whole line per call)
   and `Sinks` (a queue between the sender and the store), whose invariants are
   proved already.
