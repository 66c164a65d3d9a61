------------------------- MODULE TestProcessProofs -------------------------
(***************************************************************************)
(* Proofs about TestProcess, for any number of tests and scopes, any flags *)
(* and any amount of text: nothing of a test is left behind for the next   *)
(* one but a hook of new that a longjmp skipped, a death test that         *)
(* survives fails the program, and the captured streams neither leak a     *)
(* descriptor nor lose, reorder or mislead text.                           *)
(* And about the global Mutex of MCTestProcess, for every set of threads   *)
(* and every build: it keeps its invariant, and is the lock of RWLock      *)
(* until it is destroyed.                                                  *)
(***************************************************************************)
EXTENDS TestProcess, Mutex, SequenceTheorems, FiniteSetTheorems, TLAPS

FlagValues == [SavedFlags -> {0, 1}]

Scope == [kind : {"Test", "FlagSaver", "NewHook"}, saved : FlagValues]
           \cup [kind : {"ASSERT_DEATH"}, saved : {"abort", "DumpStackTraceAndExit"}]

IsKind(i, kind) == i \in DOMAIN scopes /\ scopes[i].kind = kind

(* One scope at most is an ASSERT_DEATH, it has not been answered, and     *)
(* CalledAbort is installed inside it alone.                               *)
DeathInv ==
  /\ \A i \in DOMAIN scopes : IsKind(i, "ASSERT_DEATH") => ~g_called_abort
  /\ \A i, j \in DOMAIN scopes :
       IsKind(i, "ASSERT_DEATH") /\ IsKind(j, "ASSERT_DEATH") => i = j
  /\ g_logging_fail_func = "CalledAbort" =>
       \E i \in DOMAIN scopes : IsKind(i, "ASSERT_DEATH")

(* A hook of operator new has its object, or a longjmp has left one. *)
HookInv ==
  g_new_hook => hook_left \/ \E i \in DOMAIN scopes : IsKind(i, "NewHook")

(* The FlagSaver of a test is around every other scope and keeps the flags *)
(* that all tests begin with.                                              *)
TestInv ==
  /\ \A i \in DOMAIN scopes :
       IsKind(i, "Test") => i = Len(scopes) /\ scopes[i].saved = base /\ tests > 0
  /\ tests >= 0 /\ scopes # <<>> => IsKind(Len(scopes), "Test")
  /\ tests >= 0 /\ scopes = <<>> => FLAGS = base

(* What FlagSaver, ASSERT_DEATH, InitGoogleLogging and the runner work on. *)
ControlInv ==
  /\ FLAGS \in FlagValues /\ base \in FlagValues
  /\ scopes \in Seq(Scope)
  /\ tests \in -2..NumTests /\ survivors \in Nat
  /\ g_called_abort \in BOOLEAN /\ g_new_hook \in BOOLEAN /\ initialized \in BOOLEAN
  /\ hook_left \in BOOLEAN
  /\ ended \in {"no", "aborted", "failure", "passed"}
  /\ g_logging_fail_func \in {"abort", "DumpStackTraceAndExit", "CalledAbort"}
  /\ DeathInv
  /\ HookInv
  /\ TestInv
  /\ SurvivorsFail

Messages == Streams \X Nat

(* The first three descriptors are open, the others are the CapturedStreams' *)
(* and lead to the terminal; a stream that is captured has one.            *)
DescriptorInv ==
  /\ fds \in [Fds -> {Terminal, NoFd} \cup Streams]
  /\ s_captured_streams \in [Streams -> (3..6) \cup {NoFd}]
  /\ capturing \subseteq {s \in Streams : s_captured_streams[s] # NoFd}
  /\ \A s, r \in Streams : s # r /\ s_captured_streams[s] # NoFd
                             => s_captured_streams[s] # s_captured_streams[r]
  /\ \A fd \in 3..6 : fds[fd] = IF \E s \in Streams : s_captured_streams[s] = fd
                                THEN Terminal ELSE NoFd
  /\ fds[STDIN_FILENO] # NoFd
  /\ \A s \in Streams : fds[s] = IF s \in capturing THEN s ELSE Terminal

(* Text in the buffer of stdout will arrive where it was printed to. *)
TextInv ==
  /\ tty \in [Streams -> Seq(Messages)] /\ captured \in [Streams -> Seq(Messages)]
  /\ buffer \in Seq(Messages) /\ printed \in Nat
  /\ sent \in [Streams -> [tty : Seq(Messages), captured : Seq(Messages)]]
  /\ OutputExact

IInv == ControlInv /\ DescriptorInv /\ TextInv

-----------------------------------------------------------------------------
(* The stack of scoped objects *)

(* One object more: the others move one place out. *)
LEMMA PushFacts ==
  ASSUME ControlInv, NEW r \in Scope, scopes' = <<r>> \o scopes
  PROVE  /\ scopes' \in Seq(Scope) /\ Len(scopes') = Len(scopes) + 1
         /\ scopes'[1] = r /\ scopes' # <<>>
         /\ \A i \in 2..Len(scopes') : i - 1 \in 1..Len(scopes) /\ scopes'[i] = scopes[i - 1]
BY DEF ControlInv

(* The n innermost objects end. *)
Dropped(n) == scopes' = SubSeq(scopes, n + 1, Len(scopes))

(* n objects less: the others move n places in. *)
LEMMA DropFacts ==
  ASSUME ControlInv, NEW n \in 1..Len(scopes), Dropped(n)
  PROVE  /\ scopes' \in Seq(Scope) /\ Len(scopes') = Len(scopes) - n
         /\ \A i \in 1..Len(scopes') : i + n \in 1..Len(scopes) /\ scopes'[i] = scopes[i + n]
         /\ \A i \in (n + 1)..Len(scopes) :
              i - n \in 1..Len(scopes') /\ scopes'[i - n] = scopes[i]
BY DEF ControlInv, Dropped

-----------------------------------------------------------------------------
(* Scopes, flags, tests and failure functions *)

scopeStackVars == <<scopes, g_logging_fail_func, g_called_abort, g_new_hook, hook_left,
                    tests, base>>

(* The process ends, or does something that no scope knows of. *)
LEMMA EndingControl ==
  ASSUME ControlInv, survivors = 0,
         UNCHANGED <<scopeStackVars, FLAGS, survivors>>,
         initialized' \in BOOLEAN, ended' \in {"no", "aborted", "failure", "passed"}
  PROVE  ControlInv'
BY DEF ControlInv, DeathInv, HookInv, TestInv, SurvivorsFail, IsKind, scopeStackVars

(* Scopes end, of which a test's own FlagSaver is none: the outer ones stay *)
(* as they are.                                                            *)
LEMMA DropControl ==
  ASSUME ControlInv, NEW n \in 1..Len(scopes),
         \A i \in 1..n : scopes[i].kind # "Test",
         Dropped(n), UNCHANGED <<tests, base>>
  PROVE  TestInv'
<1>1. /\ scopes \in Seq(Scope) /\ scopes' \in Seq(Scope)
      /\ Len(scopes) \in Nat /\ Len(scopes') = Len(scopes) - n
      /\ DOMAIN scopes = 1..Len(scopes) /\ DOMAIN scopes' = 1..Len(scopes')
  BY DropFacts DEF ControlInv
<1>2. /\ \A i \in 1..Len(scopes') : i + n \in 1..Len(scopes) /\ scopes'[i] = scopes[i + n]
      /\ \A i \in (n + 1)..Len(scopes) : i - n \in 1..Len(scopes') /\ scopes'[i - n] = scopes[i]
  BY DropFacts
<1>3. ASSUME NEW i \in DOMAIN scopes', IsKind(i, "Test")'
      PROVE  i = Len(scopes') /\ scopes'[i].saved = base /\ tests > 0
  <2>1. i + n \in DOMAIN scopes /\ IsKind(i + n, "Test")
    BY <1>1, <1>2, <1>3 DEF IsKind
  <2>2. i + n = Len(scopes) /\ scopes[i + n].saved = base /\ tests > 0
    BY <2>1 DEF ControlInv, TestInv
  <2>3. scopes'[i] = scopes[i + n] /\ i \in Int /\ n \in Int
    BY <1>1, <1>2
  <2>4. i = Len(scopes')
    BY <1>1, <2>2, <2>3
  <2> QED
    BY <2>2, <2>3, <2>4
<1>4. ASSUME tests >= 0
      PROVE  scopes' # <<>> /\ IsKind(Len(scopes), "Test")'
  <2>1. IsKind(Len(scopes), "Test") /\ scopes[Len(scopes)].kind = "Test"
    BY <1>1, <1>4 DEF ControlInv, TestInv, IsKind
  <2>2. Len(scopes) \in (n + 1)..Len(scopes) /\ n \in Int
    <3>1. Len(scopes) \notin 1..n
      BY <2>1
    <3> QED
      BY <1>1, <3>1
  <2>3. /\ Len(scopes) - n \in 1..Len(scopes')
        /\ scopes'[Len(scopes) - n] = scopes[Len(scopes)]
    BY <1>2, <2>2
  <2>4. Len(scopes') \in DOMAIN scopes' /\ scopes'[Len(scopes')] = scopes[Len(scopes)]
    BY <1>1, <2>3
  <2>5. scopes' # <<>>
    BY <2>4
  <2> QED
    BY <2>1, <2>4, <2>5 DEF IsKind
<1>5. tests' = tests /\ base' = base
  OBVIOUS
<1> QED
  BY <1>3, <1>4, <1>5 DEF TestInv

(* The innermost object is destroyed. *)
LEMMA PopControl ==
  ASSUME ControlInv, scopes # <<>>, scopes[1].kind # "Test", scopes' = Tail(scopes),
         UNCHANGED <<tests, base, hook_left>>
  PROVE  /\ scopes' \in Seq(Scope) /\ TestInv'
         /\ \A i \in DOMAIN scopes' : i + 1 \in DOMAIN scopes /\ scopes'[i] = scopes[i + 1]
         /\ \A i \in DOMAIN scopes : i = 1 \/ (i - 1 \in DOMAIN scopes' /\ scopes'[i - 1] = scopes[i])
         /\ g_new_hook' = g_new_hook /\ scopes[1].kind # "NewHook" => HookInv'
<1>1. scopes \in Seq(Scope) /\ 1 \in 1..Len(scopes) /\ Dropped(1)
  <2>1. scopes \in Seq(Scope)
    BY DEF ControlInv
  <2> QED
    BY <2>1, TailIsSubSeq DEF Dropped
<1>2. /\ scopes' \in Seq(Scope) /\ Len(scopes') = Len(scopes) - 1
      /\ \A i \in 1..Len(scopes') : i + 1 \in 1..Len(scopes) /\ scopes'[i] = scopes[i + 1]
      /\ \A i \in (1 + 1)..Len(scopes) :
           i - 1 \in 1..Len(scopes') /\ scopes'[i - 1] = scopes[i]
  BY <1>1, DropFacts
<1>3. DOMAIN scopes = 1..Len(scopes) /\ DOMAIN scopes' = 1..Len(scopes') /\ Len(scopes) \in Nat
  BY <1>1, <1>2
<1>4. /\ \A i \in DOMAIN scopes' : i + 1 \in DOMAIN scopes /\ scopes'[i] = scopes[i + 1]
      /\ \A i \in DOMAIN scopes : i = 1 \/ (i - 1 \in DOMAIN scopes' /\ scopes'[i - 1] = scopes[i])
  BY <1>2, <1>3
<1>5. TestInv'
  BY <1>1, DropControl
<1>6. ASSUME g_new_hook' = g_new_hook, scopes[1].kind # "NewHook", g_new_hook, ~hook_left
      PROVE  \E i \in DOMAIN scopes' : IsKind(i, "NewHook")'
  <2>1. PICK i \in DOMAIN scopes : scopes[i].kind = "NewHook"
    BY <1>6 DEF ControlInv, HookInv, IsKind
  <2>2. i - 1 \in DOMAIN scopes' /\ scopes'[i - 1].kind = "NewHook"
    BY <1>4, <1>6, <2>1
  <2> QED
    BY <2>2 DEF IsKind
<1> QED
  BY <1>2, <1>4, <1>5, <1>6 DEF HookInv

(* FlagSaver and NewHook inside an ASSERT_DEATH leave it as it is. *)
LEMMA PopDeath ==
  ASSUME ControlInv, scopes # <<>>, scopes[1].kind \notin {"Test", "ASSERT_DEATH"},
         scopes' = Tail(scopes),
         UNCHANGED <<tests, base, hook_left, g_called_abort, g_logging_fail_func>>
  PROVE  DeathInv'
<1>1. /\ \A i \in DOMAIN scopes' : i + 1 \in DOMAIN scopes /\ scopes'[i] = scopes[i + 1]
      /\ \A i \in DOMAIN scopes : i = 1 \/ (i - 1 \in DOMAIN scopes' /\ scopes'[i - 1] = scopes[i])
      /\ scopes' \in Seq(Scope)
  BY PopControl
<1>2. \A i \in DOMAIN scopes' : i \in Int
  BY <1>1
<1>3. ASSUME NEW i \in DOMAIN scopes', IsKind(i, "ASSERT_DEATH")'
      PROVE  i + 1 \in DOMAIN scopes /\ IsKind(i + 1, "ASSERT_DEATH")
  BY <1>1, <1>3 DEF IsKind
<1>4. ASSUME g_logging_fail_func = "CalledAbort"
      PROVE  \E i \in DOMAIN scopes' : IsKind(i, "ASSERT_DEATH")'
  <2>1. PICK i \in DOMAIN scopes : scopes[i].kind = "ASSERT_DEATH"
    BY <1>4 DEF ControlInv, DeathInv, IsKind
  <2>2. i - 1 \in DOMAIN scopes' /\ scopes'[i - 1].kind = "ASSERT_DEATH"
    BY <1>1, <2>1
  <2> QED
    BY <2>2 DEF IsKind
<1>5. ~g_called_abort' \/ \A i \in DOMAIN scopes' : ~IsKind(i, "ASSERT_DEATH")'
  BY <1>3 DEF ControlInv, DeathInv
<1>6. \A i, j \in DOMAIN scopes' :
        IsKind(i, "ASSERT_DEATH")' /\ IsKind(j, "ASSERT_DEATH")' => i = j
  <2>1. SUFFICES ASSUME NEW i \in DOMAIN scopes', NEW j \in DOMAIN scopes',
                        IsKind(i, "ASSERT_DEATH")', IsKind(j, "ASSERT_DEATH")'
                 PROVE  i = j
    OBVIOUS
  <2>2. i + 1 = j + 1
    BY <1>3, <2>1 DEF ControlInv, DeathInv
  <2> QED
    BY <1>2, <2>1, <2>2
<1> QED
  BY <1>4, <1>5, <1>6 DEF DeathInv

(* The ASSERT_DEATH itself is left, by its function's end or by longjmp:   *)
(* none remains.                                                           *)
LEMMA DropDeath ==
  ASSUME ControlInv, NEW n \in 1..Len(scopes), scopes[n].kind = "ASSERT_DEATH",
         Dropped(n), UNCHANGED <<tests, base>>
  PROVE  /\ TestInv'
         /\ \A i \in DOMAIN scopes' : ~IsKind(i, "ASSERT_DEATH")'
<1>1. /\ scopes \in Seq(Scope) /\ scopes' \in Seq(Scope)
      /\ Len(scopes) \in Nat /\ n \in DOMAIN scopes
      /\ DOMAIN scopes = 1..Len(scopes) /\ DOMAIN scopes' = 1..Len(scopes')
  BY DropFacts DEF ControlInv
<1>2. \A i \in 1..Len(scopes') : i + n \in 1..Len(scopes) /\ scopes'[i] = scopes[i + n]
  BY DropFacts
<1>3. \A i \in 1..n : scopes[i].kind # "Test"
  <2>1. SUFFICES ASSUME NEW i \in 1..n, scopes[i].kind = "Test" PROVE FALSE
    OBVIOUS
  <2>2. i \in DOMAIN scopes /\ i # n
    BY <1>1, <2>1
  <2>3. i = Len(scopes)
    BY <2>1, <2>2 DEF ControlInv, TestInv, IsKind
  <2> QED
    BY <1>1, <2>2, <2>3
<1>4. \A i \in DOMAIN scopes' : ~IsKind(i, "ASSERT_DEATH")'
  <2>1. SUFFICES ASSUME NEW i \in DOMAIN scopes', IsKind(i, "ASSERT_DEATH")'
                 PROVE  FALSE
    OBVIOUS
  <2>2. i + n \in DOMAIN scopes /\ IsKind(i + n, "ASSERT_DEATH") /\ IsKind(n, "ASSERT_DEATH")
    BY <1>1, <1>2, <2>1 DEF IsKind
  <2>3. i + n = n
    BY <1>1, <2>2 DEF ControlInv, DeathInv
  <2> QED
    BY <1>1, <2>1, <2>3
<1> QED
  BY <1>3, <1>4, DropControl

(* The ASSERT_DEATH that longjmp goes back to, over what is inside it. *)
LEMMA LongJmpDrops ==
  ASSUME ControlInv, g_logging_fail_func = "CalledAbort", LongJmp
  PROVE  \E n \in 1..Len(scopes) :
           /\ scopes[n].kind = "ASSERT_DEATH"
           /\ Dropped(n)
           /\ g_logging_fail_func' = scopes[n].saved
           /\ hook_left' = (hook_left \/ \E k \in 1..(n - 1) : scopes[k].kind = "NewHook")
<1>1. scopes \in Seq(Scope) /\ DOMAIN scopes = 1..Len(scopes)
  BY DEF ControlInv
<1>2. PICK n \in DOMAIN scopes : IsKind(n, "ASSERT_DEATH")
  BY DEF ControlInv, DeathInv
<1>3. DeathFrames = {n}
  BY <1>2 DEF ControlInv, DeathInv, IsKind, DeathFrames
<1> DEFINE i == CHOOSE j \in DeathFrames : \A k \in DeathFrames : j <= k
<1>4. i = n
  BY <1>1, <1>3
<1>5. /\ g_logging_fail_func' = scopes[i].saved
      /\ scopes' = SubSeq(scopes, i + 1, Len(scopes))
      /\ hook_left' = (hook_left \/ \E k \in 1..(i - 1) : scopes[k].kind = "NewHook")
  BY DEF LongJmp, original_logging_fail_func
<1> HIDE DEF i
<1> QED
  BY <1>1, <1>2, <1>4, <1>5 DEF IsKind, Dropped

(* A failing CHECK jumps back to the ASSERT_DEATH or ends the process. *)
LEMMA FailingCheckControl ==
  ASSUME ControlInv, survivors = 0, FailingCheck
  PROVE  ControlInv'
<1>1. UNCHANGED <<FLAGS, g_new_hook, initialized, tests, base>>
  BY DEF FailingCheck
<1>2. CASE g_logging_fail_func = "CalledAbort"
  <2>1. LongJmp
    BY <1>2 DEF FailingCheck, Fail
  <2>2. PICK n \in 1..Len(scopes) :
          /\ scopes[n].kind = "ASSERT_DEATH"
          /\ Dropped(n)
          /\ g_logging_fail_func' = scopes[n].saved
          /\ hook_left' = (hook_left \/ \E k \in 1..(n - 1) : scopes[k].kind = "NewHook")
    BY <1>2, <2>1, LongJmpDrops
  <2>3. g_called_abort' = TRUE /\ UNCHANGED <<ended, survivors>>
    BY <2>1 DEF LongJmp
  <2>4. scopes \in Seq(Scope) /\ DOMAIN scopes = 1..Len(scopes) /\ Len(scopes) \in Nat
    BY DEF ControlInv
  <2>5. g_logging_fail_func' \in {"abort", "DumpStackTraceAndExit"}
    BY <2>2, <2>4 DEF Scope
  <2>6. /\ scopes' \in Seq(Scope)
        /\ \A i \in (n + 1)..Len(scopes) :
             i - n \in DOMAIN scopes' /\ scopes'[i - n] = scopes[i]
    <3>1. /\ scopes' \in Seq(Scope)
          /\ \A i \in (n + 1)..Len(scopes) :
               i - n \in 1..Len(scopes') /\ scopes'[i - n] = scopes[i]
      BY <2>2, DropFacts
    <3>2. DOMAIN scopes' = 1..Len(scopes')
      BY <3>1
    <3> QED
      BY <3>1, <3>2
  <2>7. TestInv' /\ DeathInv'
    <3>1. TestInv' /\ \A i \in DOMAIN scopes' : ~IsKind(i, "ASSERT_DEATH")'
      BY <1>1, <2>2, DropDeath
    <3> QED
      BY <2>5, <3>1 DEF DeathInv
  <2>8. hook_left' \in BOOLEAN
    BY <2>2 DEF ControlInv
  <2>9. HookInv'
    <3>1. SUFFICES ASSUME g_new_hook, ~hook_left'
                   PROVE  \E i \in DOMAIN scopes' : IsKind(i, "NewHook")'
      BY <1>1 DEF HookInv
    <3>2. ~hook_left /\ \A k \in 1..(n - 1) : scopes[k].kind # "NewHook"
      BY <2>2, <3>1
    <3>3. PICK i \in DOMAIN scopes : scopes[i].kind = "NewHook"
      BY <3>1, <3>2 DEF ControlInv, HookInv, IsKind
    <3>4. i \in (n + 1)..Len(scopes)
      <4>1. i # n
        BY <2>2, <3>3
      <4> QED
        BY <2>4, <3>2, <3>3, <4>1
    <3>5. i - n \in DOMAIN scopes' /\ scopes'[i - n].kind = "NewHook"
      BY <2>6, <3>3, <3>4
    <3> QED
      BY <3>5 DEF IsKind
  <2> QED
    BY <1>1, <2>3, <2>5, <2>6, <2>7, <2>8, <2>9 DEF ControlInv, SurvivorsFail
<1>3. CASE g_logging_fail_func # "CalledAbort"
  <2>1. Abort
    BY <1>3 DEF FailingCheck, Fail
  <2> QED
    BY <1>1, <2>1, EndingControl DEF Abort, ControlInv, scopeStackVars
<1> QED
  BY <1>2, <1>3

(* A scope begins inside the others, an ASSERT_DEATH not inside another.   *)
LEMMA PushControl ==
  ASSUME ControlInv, tests < 0 \/ scopes # <<>>,
         NEW kind \in {"FlagSaver", "NewHook", "ASSERT_DEATH"}, NEW saved,
         kind = "ASSERT_DEATH" => DeathFrames = {},
         [kind |-> kind, saved |-> saved] \in Scope, Push(kind, saved),
         UNCHANGED <<tests, base, hook_left>>
  PROVE  /\ scopes' \in Seq(Scope)
         /\ \/ kind = "ASSERT_DEATH" /\ ~g_called_abort'
            \/ kind # "ASSERT_DEATH" /\ UNCHANGED <<g_called_abort, g_logging_fail_func>>
            => DeathInv'
         /\ g_new_hook' = g_new_hook \/ kind = "NewHook" => HookInv'
         /\ TestInv'
<1> DEFINE r == [kind |-> kind, saved |-> saved]
<1>1. /\ scopes \in Seq(Scope) /\ scopes' \in Seq(Scope)
      /\ Len(scopes) \in Nat /\ Len(scopes') = Len(scopes) + 1
      /\ DOMAIN scopes = 1..Len(scopes) /\ DOMAIN scopes' = 1..Len(scopes')
      /\ scopes'[1] = r /\ scopes' # <<>>
      /\ \A i \in 2..Len(scopes') : i - 1 \in 1..Len(scopes) /\ scopes'[i] = scopes[i - 1]
  <2>1. scopes' = <<r>> \o scopes
    BY DEF Push
  <2>2. scopes \in Seq(Scope)
    BY DEF ControlInv
  <2> HIDE DEF r
  <2>3. Len(scopes) \in Nat /\ DOMAIN scopes = 1..Len(scopes)
    BY <2>2
  <2>4. /\ scopes' \in Seq(Scope) /\ Len(scopes') = Len(scopes) + 1
        /\ scopes'[1] = r /\ scopes' # <<>>
        /\ \A i \in 2..Len(scopes') : i - 1 \in 1..Len(scopes) /\ scopes'[i] = scopes[i - 1]
    BY <2>1, PushFacts DEF r
  <2> QED
    BY <2>2, <2>3, <2>4
<1>2. r.kind = kind /\ IsKind(1, kind)'
  BY <1>1 DEF IsKind
<1> HIDE DEF r
<1>3. ASSUME kind = "ASSERT_DEATH", ~g_called_abort'
      PROVE  DeathInv'
  <2>1. \A i \in DOMAIN scopes : scopes[i].kind # "ASSERT_DEATH"
    BY <1>3 DEF DeathFrames
  <2>2. \A i \in DOMAIN scopes' : scopes'[i].kind = "ASSERT_DEATH" => i = 1
    <3>1. SUFFICES ASSUME NEW i \in DOMAIN scopes', i # 1
                   PROVE  scopes'[i].kind # "ASSERT_DEATH"
      OBVIOUS
    <3>2. i \in 2..Len(scopes')
      BY <1>1, <3>1
    <3> QED
      BY <1>1, <2>1, <3>2
  <2> QED
    BY <1>1, <1>2, <1>3, <2>2 DEF DeathInv, IsKind
<1>4. ASSUME kind # "ASSERT_DEATH", UNCHANGED <<g_called_abort, g_logging_fail_func>>
      PROVE  DeathInv'
  <2>1. ASSUME NEW i \in DOMAIN scopes', IsKind(i, "ASSERT_DEATH")'
        PROVE  i - 1 \in DOMAIN scopes /\ IsKind(i - 1, "ASSERT_DEATH") /\ i \in Int
    <3>1. i # 1
      BY <1>1, <1>2, <1>4, <2>1 DEF IsKind
    <3> QED
      BY <1>1, <2>1, <3>1 DEF IsKind
  <2>2. \A i, j \in DOMAIN scopes' :
          IsKind(i, "ASSERT_DEATH")' /\ IsKind(j, "ASSERT_DEATH")' => i = j
    <3>1. SUFFICES ASSUME NEW i \in DOMAIN scopes', NEW j \in DOMAIN scopes',
                          IsKind(i, "ASSERT_DEATH")', IsKind(j, "ASSERT_DEATH")'
                   PROVE  i = j
      OBVIOUS
    <3>2. i - 1 = j - 1 /\ i \in Int /\ j \in Int
      BY <2>1, <3>1 DEF ControlInv, DeathInv
    <3> QED
      BY <3>2
  <2>3. ASSUME g_logging_fail_func = "CalledAbort"
        PROVE  \E i \in DOMAIN scopes' : IsKind(i, "ASSERT_DEATH")'
    <3>1. PICK i \in DOMAIN scopes : scopes[i].kind = "ASSERT_DEATH"
      BY <2>3 DEF ControlInv, DeathInv, IsKind
    <3>2. i + 1 \in DOMAIN scopes' /\ scopes'[i + 1].kind = "ASSERT_DEATH"
      BY <1>1, <3>1
    <3> QED
      BY <3>2 DEF IsKind
  <2>4. \A i \in DOMAIN scopes' : IsKind(i, "ASSERT_DEATH")' => ~g_called_abort
    BY <2>1 DEF ControlInv, DeathInv
  <2> QED
    BY <1>4, <2>2, <2>3, <2>4 DEF DeathInv
<1>5. ASSUME g_new_hook' = g_new_hook \/ kind = "NewHook"
      PROVE  HookInv'
  <2>1. CASE kind = "NewHook"
    BY <1>1, <1>2, <2>1 DEF HookInv, IsKind
  <2>2. CASE kind # "NewHook" /\ g_new_hook /\ ~hook_left
    <3>1. PICK i \in DOMAIN scopes : scopes[i].kind = "NewHook"
      BY <2>2 DEF ControlInv, HookInv, IsKind
    <3>2. i + 1 \in DOMAIN scopes' /\ scopes'[i + 1].kind = "NewHook"
      BY <1>1, <3>1
    <3> QED
      BY <3>2 DEF HookInv, IsKind
  <2> QED
    BY <1>5, <2>1, <2>2 DEF HookInv
<1>6. TestInv'
  <2>1. ASSUME NEW i \in DOMAIN scopes', IsKind(i, "Test")'
        PROVE  i = Len(scopes') /\ scopes'[i].saved = base /\ tests > 0
    <3>1. i \in 2..Len(scopes') /\ IsKind(i - 1, "Test")
      BY <1>1, <1>2, <2>1 DEF IsKind
    <3>2. i - 1 \in DOMAIN scopes
      BY <1>1, <3>1
    <3>3. i - 1 = Len(scopes) /\ scopes[i - 1].saved = base /\ tests > 0
      BY <3>1, <3>2 DEF ControlInv, TestInv
    <3> QED
      BY <1>1, <3>1, <3>3
  <2>2. ASSUME tests >= 0
        PROVE  IsKind(Len(scopes), "Test")'
    <3>1. IsKind(Len(scopes), "Test") /\ Len(scopes) >= 1
      BY <1>1, <2>2 DEF ControlInv, TestInv, IsKind
    <3>2. Len(scopes') \in 2..Len(scopes') /\ scopes'[Len(scopes')] = scopes[Len(scopes)]
      BY <1>1, <3>1
    <3> QED
      BY <1>1, <3>1, <3>2 DEF IsKind
  <2> QED
    BY <1>1, <2>1, <2>2 DEF TestInv
<1> QED
  BY <1>1, <1>3, <1>4, <1>5, <1>6

(* FlagSaver, the hook of new, and ASSERT_DEATH. *)
LEMMA ScopeControl ==
  ASSUME ControlInv, survivors = 0, ended = "no", tests < 0 \/ scopes # <<>>,
         \/ OpenFlagSaver \/ CloseFlagSaver \/ OpenNewHook \/ CloseNewHook
         \/ BeginDeath \/ EndDeath
  PROVE  ControlInv'
<1>1. FLAGS \in FlagValues /\ scopes \in Seq(Scope)
  BY DEF ControlInv
<1>2. CASE OpenFlagSaver
  <2>1. /\ Push("FlagSaver", FLAGS)
        /\ UNCHANGED <<tests, base, g_logging_fail_func, g_called_abort, ended, survivors,
                       hook_left, initialized, FLAGS, g_new_hook>>
    BY <1>2 DEF OpenFlagSaver, scopeVars
  <2>2. [kind |-> "FlagSaver", saved |-> FLAGS] \in Scope
    BY <1>1 DEF Scope
  <2>3. scopes' \in Seq(Scope) /\ DeathInv' /\ HookInv' /\ TestInv'
    BY <2>1, <2>2, PushControl
  <2> QED
    BY <2>1, <2>3 DEF ControlInv, SurvivorsFail
<1>3. CASE OpenNewHook
  <2>1. /\ Push("NewHook", FLAGS) /\ g_new_hook' = TRUE
        /\ UNCHANGED <<tests, base, g_logging_fail_func, g_called_abort, ended, survivors,
                       hook_left, initialized, FLAGS>>
    BY <1>3 DEF OpenNewHook, scopeVars
  <2>2. [kind |-> "NewHook", saved |-> FLAGS] \in Scope
    BY <1>1 DEF Scope
  <2>3. scopes' \in Seq(Scope) /\ DeathInv' /\ HookInv' /\ TestInv'
    BY <2>1, <2>2, PushControl
  <2> QED
    BY <2>1, <2>3 DEF ControlInv, SurvivorsFail
<1>4. CASE CloseFlagSaver
  <2>1. /\ scopes # <<>> /\ scopes[1].kind = "FlagSaver"
        /\ FLAGS' = scopes[1].saved /\ scopes' = Tail(scopes)
        /\ UNCHANGED <<tests, base, g_logging_fail_func, g_called_abort, ended, survivors,
                       hook_left, initialized, g_new_hook>>
    BY <1>4 DEF CloseFlagSaver, scopeVars, Top, Restored
  <2>2. FLAGS' \in FlagValues
    BY <1>1, <2>1 DEF Scope
  <2>3. scopes' \in Seq(Scope) /\ HookInv' /\ TestInv'
    BY <2>1, PopControl
  <2>4. DeathInv'
    BY <2>1, PopDeath
  <2> QED
    BY <2>1, <2>2, <2>3, <2>4 DEF ControlInv, SurvivorsFail
<1>5. CASE CloseNewHook
  <2>1. /\ scopes # <<>> /\ scopes[1].kind = "NewHook"
        /\ g_new_hook' = FALSE /\ scopes' = Tail(scopes)
        /\ UNCHANGED <<tests, base, g_logging_fail_func, g_called_abort, ended, survivors,
                       hook_left, initialized, FLAGS>>
    BY <1>5 DEF CloseNewHook, scopeVars, Top
  <2>2. scopes' \in Seq(Scope) /\ TestInv'
    BY <2>1, PopControl
  <2>3. DeathInv'
    BY <2>1, PopDeath
  <2> QED
    BY <2>1, <2>2, <2>3 DEF ControlInv, HookInv, SurvivorsFail
<1>6. CASE BeginDeath
  <2>1. /\ DeathFrames = {} /\ Push("ASSERT_DEATH", g_logging_fail_func)
        /\ g_called_abort' = FALSE /\ g_logging_fail_func' = "CalledAbort"
        /\ UNCHANGED <<tests, base, ended, survivors, hook_left, initialized, FLAGS,
                       g_new_hook>>
    BY <1>6 DEF BeginDeath, InitialAnswer
  <2>2. g_logging_fail_func # "CalledAbort"
    BY <2>1 DEF DeathFrames, ControlInv, DeathInv, IsKind
  <2>3. [kind |-> "ASSERT_DEATH", saved |-> g_logging_fail_func] \in Scope
    BY <2>2 DEF Scope, ControlInv
  <2>4. scopes' \in Seq(Scope) /\ DeathInv' /\ HookInv' /\ TestInv'
    BY <2>1, <2>3, PushControl
  <2> QED
    BY <2>1, <2>4 DEF ControlInv, SurvivorsFail
<1>7. CASE EndDeath
  <2>1. /\ scopes # <<>> /\ scopes[1].kind = "ASSERT_DEATH"
        /\ g_logging_fail_func' = scopes[1].saved /\ scopes' = Tail(scopes)
        /\ survivors' = survivors + 1
        /\ UNCHANGED <<tests, base, hook_left, initialized, g_called_abort, FLAGS, g_new_hook>>
    BY <1>7 DEF EndDeath, Top, original_logging_fail_func
  <2>2. ~g_called_abort
    BY <2>1, <1>1 DEF ControlInv, DeathInv, IsKind
  <2>3. ended' = "failure"
    BY <1>7, <2>2 DEF EndDeath
  <2>4. g_logging_fail_func' \in {"abort", "DumpStackTraceAndExit"}
    BY <1>1, <2>1 DEF Scope
  <2>5. scopes' \in Seq(Scope) /\ HookInv' /\ TestInv'
    BY <2>1, PopControl
  <2>6. \A i \in DOMAIN scopes' : ~IsKind(i, "ASSERT_DEATH")'
    <3>1. 1 \in 1..Len(scopes) /\ Dropped(1)
      BY <1>1, <2>1, TailIsSubSeq DEF Dropped
    <3> QED
      BY <2>1, <3>1, DropDeath
  <2> QED
    BY <2>1, <2>3, <2>4, <2>5, <2>6 DEF ControlInv, DeathInv, SurvivorsFail
<1> QED
  BY <1>2, <1>3, <1>4, <1>5, <1>6, <1>7

(* Whatever main, a test or the function of an ASSERT_DEATH does. *)
LEMMA BodyControl ==
  ASSUME ControlInv, survivors = 0, ended = "no", tests < 0 \/ scopes # <<>>, BodyStep
  PROVE  ControlInv'
<1>1. CASE FailingCheck
  BY <1>1, FailingCheckControl
<1>2. CASE \/ OpenFlagSaver \/ CloseFlagSaver \/ OpenNewHook \/ CloseNewHook
           \/ BeginDeath \/ EndDeath
  BY <1>2, ScopeControl
<1>3. ASSUME NEW s \in Streams,
             \/ PrintMessage(s) \/ CaptureTestOutput(s)
             \/ GetCapturedTestOutput(s) \/ MungeAndDiffTest(s)
      PROVE  ControlInv'
  <2>1. CASE UNCHANGED <<scopeStackVars, FLAGS, survivors, initialized, ended>>
    BY <2>1, EndingControl DEF ControlInv
  <2> QED
    BY <1>1, <1>3, <2>1 DEF PrintMessage, CaptureTestOutput, GetCapturedTestOutput,
         MungeAndDiffTest, StopCapture, controlVars, scopeStackVars
<1>4. CASE FlushStdout
  BY <1>4, EndingControl DEF FlushStdout, ControlInv, controlVars, scopeStackVars
<1>5. CASE FailingExpect
  BY <1>5, EndingControl DEF FailingExpect, ControlInv, scopeStackVars
<1>6. CASE \E f \in DOMAIN FLAGS : SetFlag(f)
  <2>1. PICK f \in DOMAIN FLAGS : SetFlag(f)
    BY <1>6
  <2>2. FLAGS' \in FlagValues
    BY <2>1 DEF SetFlag, ControlInv, FlagValues
  <2>3. UNCHANGED <<scopeStackVars, survivors, ended, initialized>>
    BY <2>1 DEF SetFlag, controlVars, scopeStackVars
  <2> QED
    BY <2>2, <2>3 DEF ControlInv, DeathInv, HookInv, TestInv, SurvivorsFail, IsKind,
         scopeStackVars
<1>7. CASE InitGoogleLogging
  <2>1. CASE /\ initialized' = TRUE /\ g_logging_fail_func' = "DumpStackTraceAndExit"
             /\ UNCHANGED <<scopes, g_called_abort, g_new_hook, hook_left, tests, base,
                            FLAGS, survivors, ended>>
    BY <2>1 DEF ControlInv, DeathInv, HookInv, TestInv, SurvivorsFail, IsKind
  <2> QED
    BY <1>1, <1>7, <2>1 DEF InitGoogleLogging
<1>8. CASE ShutdownGoogleLogging
  <2>1. CASE /\ initialized' = FALSE /\ UNCHANGED <<scopeStackVars, FLAGS, survivors, ended>>
    BY <2>1, EndingControl DEF ControlInv
  <2> QED
    BY <1>1, <1>8, <2>1 DEF ShutdownGoogleLogging, controlVars, scopeStackVars
<1> QED
  BY <1>1, <1>2, <1>3, <1>4, <1>5, <1>6, <1>7, <1>8 DEF BodyStep, New

(* The runner, which starts a test when the last one has left nothing. *)
LEMMA RunnerControl ==
  ASSUME ControlInv, survivors = 0, ended = "no", RunnerStep
  PROVE  ControlInv'
<1>1. /\ FLAGS \in FlagValues /\ scopes \in Seq(Scope) /\ NumTests \in Nat
      /\ tests \in -2..NumTests
  BY TestProcessAssumption DEF ControlInv
<1>2. CASE RunAllTests
  BY <1>1, <1>2 DEF RunAllTests, runVars, outputVars, NotRun, ControlInv, DeathInv, HookInv,
       TestInv, SurvivorsFail, IsKind
<1>3. CASE BeginTest
  <2> DEFINE r == [kind |-> "Test", saved |-> FLAGS]
  <2>1. /\ scopes = <<>> /\ scopes' = <<r>> \o scopes /\ tests > 0 /\ FLAGS = base
        /\ UNCHANGED <<ended, FLAGS, tests, base, g_logging_fail_func, g_called_abort,
                       survivors, hook_left, g_new_hook, initialized>>
    BY <1>3 DEF BeginTest, Push, runVars, ControlInv, TestInv
  <2>2. r \in Scope /\ r.kind = "Test" /\ r.saved = FLAGS
    BY <1>1 DEF Scope
  <2> HIDE DEF r
  <2>3. scopes' \in Seq(Scope) /\ Len(scopes') = 1 /\ scopes'[1] = r /\ scopes' # <<>>
    BY <1>1, <2>1, <2>2, PushFacts
  <2>4. g_logging_fail_func # "CalledAbort" /\ (g_new_hook => hook_left)
    BY <2>1 DEF ControlInv, DeathInv, HookInv, IsKind
  <2>5. DeathInv' /\ HookInv' /\ TestInv'
    BY <2>1, <2>2, <2>3, <2>4 DEF DeathInv, HookInv, TestInv, IsKind
  <2> QED
    BY <2>1, <2>3, <2>5 DEF ControlInv, SurvivorsFail
<1>4. CASE EndTest
  <2>1. /\ scopes # <<>> /\ scopes[1].kind = "Test"
        /\ FLAGS' = scopes[1].saved /\ scopes' = <<>> /\ tests' = tests - 1
        /\ UNCHANGED <<ended, base, g_logging_fail_func, g_called_abort, survivors,
                       hook_left, g_new_hook, initialized>>
    BY <1>4 DEF EndTest, Top, Restored, runVars
  <2>2. IsKind(1, "Test")
    BY <1>1, <2>1 DEF IsKind
  <2>3. Len(scopes) = 1 /\ scopes[1].saved = base /\ tests > 0
    BY <1>1, <2>2 DEF ControlInv, TestInv, IsKind
  <2>4. g_logging_fail_func # "CalledAbort" /\ (g_new_hook => hook_left)
    BY <1>1, <2>2, <2>3 DEF ControlInv, DeathInv, HookInv, IsKind
  <2> QED
    BY <1>1, <2>1, <2>3, <2>4 DEF ControlInv, DeathInv, HookInv, TestInv, SurvivorsFail, IsKind
<1>5. CASE TestsPassed
  BY <1>1, <1>5 DEF TestsPassed, runVars, outputVars, AllRun, ControlInv, DeathInv, HookInv,
       TestInv, SurvivorsFail, IsKind
<1>6. CASE ReturnFromMain
  BY <1>6, EndingControl DEF ReturnFromMain, ControlInv, scopeStackVars
<1> QED
  BY <1>2, <1>3, <1>4, <1>5, <1>6 DEF RunnerStep

(* The process begins without a scope, and every step keeps them in order. *)
LEMMA ControlInductive ==
  /\ ProcessInit => ControlInv
  /\ ControlInv /\ [ProcessNext]_processVars => ControlInv'
<1>1. ASSUME ProcessInit PROVE ControlInv
  <2>1. FLAGS \in FlagValues /\ base = FLAGS
    BY <1>1 DEF ProcessInit, FlagValues
  <2>2. /\ scopes = <<>> /\ tests = -1 /\ survivors = 0 /\ ended = "no"
        /\ g_logging_fail_func = "abort" /\ g_called_abort = FALSE /\ g_new_hook = FALSE
        /\ initialized = FALSE /\ hook_left = FALSE
    BY <1>1 DEF ProcessInit
  <2>3. tests \in -2..NumTests /\ scopes \in Seq(Scope)
    BY <2>2, TestProcessAssumption
  <2>4. DeathInv /\ HookInv /\ TestInv /\ SurvivorsFail
    BY <2>1, <2>2 DEF DeathInv, HookInv, TestInv, SurvivorsFail, IsKind
  <2> QED
    BY <2>1, <2>2, <2>3, <2>4 DEF ControlInv
<1>2. ASSUME ControlInv, ProcessNext PROVE ControlInv'
  <2>1. ended = "no" /\ survivors = 0
    BY <1>2 DEF ProcessNext, ControlInv, SurvivorsFail
  <2> QED
    BY <1>2, <2>1, BodyControl, RunnerControl DEF ProcessNext
<1>3. ASSUME ControlInv, UNCHANGED processVars PROVE ControlInv'
  BY <1>3 DEF processVars, outputVars, controlVars, ControlInv, DeathInv, HookInv, TestInv,
       SurvivorsFail, IsKind
<1> QED
  BY <1>1, <1>2, <1>3

-----------------------------------------------------------------------------
(* Descriptors *)

(* While one stream at most is captured, dup finds a descriptor. *)
LEMMA FreeDescriptor ==
  ASSUME DescriptorInv, NEW s \in Streams, s_captured_streams[s] = NoFd
  PROVE  LowestFree(fds) \in 3..4 /\ fds[LowestFree(fds)] = NoFd
<1> USE DEF Streams, STDIN_FILENO, STDOUT_FILENO, STDERR_FILENO, Fds, Terminal, NoFd
<1>1. fds \in [Fds -> {Terminal, NoFd} \cup Streams] /\ fds[0] # NoFd /\ fds[1] # NoFd
      /\ fds[2] # NoFd
  BY DEF DescriptorInv
<1>2. fds[3] = NoFd \/ fds[4] = NoFd
  BY DEF DescriptorInv
<1> DEFINE Free(fd) == /\ fds[fd] = NoFd
                       /\ \A g \in Fds : g < fd => fds[g] # NoFd
<1>3. \E fd \in 3..4 : Free(fd)
  <2>1. CASE fds[3] = NoFd
    BY <1>1, <2>1
  <2>2. CASE fds[3] # NoFd
    BY <1>1, <1>2, <2>2
  <2> QED
    BY <2>1, <2>2
<1>4. \A fd, g \in Fds : Free(fd) /\ Free(g) => fd = g
  OBVIOUS
<1>5. LowestFree(fds) = CHOOSE fd \in Fds : Free(fd)
  BY DEF LowestFree
<1>6. \A fd \in 3..4 : fd \in Fds
  OBVIOUS
<1>7. \A fd \in Fds : Free(fd) => fds[fd] = NoFd
  OBVIOUS
<1> HIDE DEF Free
<1>8. LowestFree(fds) \in Fds /\ Free(LowestFree(fds))
  BY <1>3, <1>5, <1>6
<1> QED
  BY <1>3, <1>4, <1>6, <1>7, <1>8

descriptorVars == <<fds, s_captured_streams, capturing>>

(* CaptureTestOutput leaves one descriptor more open than before. *)
LEMMA CaptureDescriptors ==
  ASSUME DescriptorInv, NEW s \in Streams, CaptureTestOutput(s), ~UNCHANGED descriptorVars
  PROVE  DescriptorInv'
<1> USE DEF Streams, STDIN_FILENO, STDOUT_FILENO, STDERR_FILENO, Fds, Terminal, NoFd
<1> DEFINE low == LowestFree(fds)
<1>1. /\ s_captured_streams[s] = NoFd
      /\ fds' = [fds EXCEPT ![low] = fds[s], ![s] = s]
      /\ s_captured_streams' = [s_captured_streams EXCEPT ![s] = low]
      /\ capturing' = capturing \cup {s}
  BY DEF CaptureTestOutput, FailingCheck, Fail, LongJmp, Abort, descriptorVars, Redirected
<1>2. low \in 3..4 /\ fds[low] = NoFd
  BY <1>1, FreeDescriptor
<1> HIDE DEF low
<1>3. fds[s] = Terminal
  BY <1>1 DEF DescriptorInv
<1>4. \A r \in Streams : s_captured_streams[r] # low
  BY <1>2 DEF DescriptorInv
<1> QED
  BY <1>1, <1>2, <1>3, <1>4 DEF DescriptorInv

(* Reading a file closes its descriptor; diffing only reconnects. *)
LEMMA ReconnectDescriptors ==
  ASSUME DescriptorInv, NEW s \in Streams, GetCapturedTestOutput(s) \/ MungeAndDiffTest(s),
         ~UNCHANGED descriptorVars
  PROVE  DescriptorInv'
<1> USE DEF Streams, STDIN_FILENO, STDOUT_FILENO, STDERR_FILENO, Fds, Terminal, NoFd
<1> DEFINE saved == s_captured_streams[s]
<1>1. saved # NoFd /\ capturing' = capturing \ {s}
  BY DEF GetCapturedTestOutput, MungeAndDiffTest, FailingCheck, Fail, LongJmp, Abort,
     descriptorVars, StopCapture
<1>2. saved \in 3..6 /\ fds[saved] = Terminal
  BY <1>1 DEF DescriptorInv
<1>3. \A r \in Streams : r # s => s_captured_streams[r] # saved
  BY <1>1 DEF DescriptorInv
<1>4. CASE /\ fds' = [[fds EXCEPT ![s] = fds[saved]] EXCEPT ![saved] = NoFd]
           /\ s_captured_streams' = [s_captured_streams EXCEPT ![s] = NoFd]
  <2> HIDE DEF saved
  <2>1. \A r \in Streams : s_captured_streams'[r] =
                             IF r = s THEN NoFd ELSE s_captured_streams[r]
    BY <1>4 DEF DescriptorInv
  <2> QED
    BY <1>1, <1>2, <1>3, <1>4, <2>1 DEF DescriptorInv
<1>5. CASE fds' = [fds EXCEPT ![s] = fds[saved]] /\ UNCHANGED s_captured_streams
  BY <1>1, <1>2, <1>5 DEF DescriptorInv
<1> QED
  BY <1>4, <1>5 DEF GetCapturedTestOutput, MungeAndDiffTest, FailingCheck, Fail, LongJmp,
     Abort, descriptorVars, Reconnected

(* Nothing else opens, closes or redirects a descriptor. *)
LEMMA DescriptorInductive ==
  /\ ProcessInit => DescriptorInv
  /\ DescriptorInv /\ [ProcessNext]_processVars => DescriptorInv'
<1>1. ASSUME ProcessInit PROVE DescriptorInv
  BY <1>1 DEF ProcessInit, DescriptorInv, Streams, STDIN_FILENO, STDOUT_FILENO,
     STDERR_FILENO, Fds, Terminal, NoFd
<1>2. ASSUME DescriptorInv, UNCHANGED descriptorVars PROVE DescriptorInv'
  BY <1>2 DEF DescriptorInv, descriptorVars
<1>3. ASSUME DescriptorInv, ProcessNext PROVE DescriptorInv'
  <2>1. ASSUME NEW s \in Streams, PrintMessage(s)
        PROVE  UNCHANGED descriptorVars
    BY <2>1 DEF PrintMessage, descriptorVars
  <2>2. ASSUME FailingCheck PROVE UNCHANGED descriptorVars
    BY <2>2 DEF FailingCheck, descriptorVars
  <2>3. ASSUME NEW s \in Streams,
               CaptureTestOutput(s) \/ GetCapturedTestOutput(s) \/ MungeAndDiffTest(s)
        PROVE  DescriptorInv'
    BY <1>2, <1>3, <2>3, CaptureDescriptors, ReconnectDescriptors
  <2>4. ASSUME RunnerStep PROVE UNCHANGED descriptorVars
    BY <2>4 DEF RunnerStep, RunAllTests, BeginTest, EndTest, TestsPassed, ReturnFromMain,
       runVars, outputVars, descriptorVars
  <2>5. ASSUME \/ FlushStdout \/ FailingExpect \/ OpenFlagSaver \/ CloseFlagSaver
               \/ OpenNewHook \/ CloseNewHook \/ BeginDeath \/ EndDeath
               \/ \E f \in DOMAIN FLAGS : SetFlag(f)
        PROVE  UNCHANGED descriptorVars
    BY <2>5 DEF FlushStdout, FailingExpect, OpenFlagSaver, CloseFlagSaver, OpenNewHook,
       CloseNewHook, BeginDeath, EndDeath, SetFlag, scopeVars, outputVars, descriptorVars
  <2>6. ASSUME InitGoogleLogging \/ ShutdownGoogleLogging PROVE UNCHANGED descriptorVars
    BY <2>2, <2>6 DEF InitGoogleLogging, ShutdownGoogleLogging, outputVars, descriptorVars
  <2> QED
    BY <1>2, <1>3, <2>1, <2>2, <2>3, <2>4, <2>5, <2>6 DEF ProcessNext, BodyStep, New
<1>4. ASSUME DescriptorInv, UNCHANGED processVars PROVE DescriptorInv'
  BY <1>2, <1>4 DEF processVars, outputVars, descriptorVars
<1> QED
  BY <1>1, <1>3, <1>4

-----------------------------------------------------------------------------
(* Text *)

textVars == <<tty, captured, buffer, printed, sent, capturing>>

(* After a flush nothing is pending: everything is where it was sent. *)
LEMMA FlushFacts ==
  ASSUME DescriptorInv, TextInv
  PROVE  /\ TtyAfter(STDOUT_FILENO, buffer) \in [Streams -> Seq(Messages)]
         /\ CapturedAfter(STDOUT_FILENO, buffer) \in [Streams -> Seq(Messages)]
         /\ \A s \in Streams : /\ sent[s].tty = TtyAfter(STDOUT_FILENO, buffer)[s]
                               /\ sent[s].captured = CapturedAfter(STDOUT_FILENO, buffer)[s]
<1> DEFINE M == Seq(Messages)
<1>1. /\ tty \in [Streams -> M] /\ captured \in [Streams -> M] /\ buffer \in M
  BY DEF TextInv
<1>2. \A q \in M : q \o <<>> = q
  BY ConcatEmptySeq
<1>3. \A q \in M : q \o buffer \in M
  BY <1>1, ConcatProperties
<1> HIDE DEF M
<1>4. /\ fds[STDOUT_FILENO] = IF STDOUT_FILENO \in capturing THEN STDOUT_FILENO ELSE Terminal
      /\ STDOUT_FILENO \in Streams /\ STDOUT_FILENO # STDERR_FILENO
      /\ STDOUT_FILENO # Terminal /\ STDERR_FILENO # Terminal
      /\ Streams = {STDOUT_FILENO, STDERR_FILENO}
  BY DEF DescriptorInv, Streams, STDOUT_FILENO, STDERR_FILENO, Terminal
<1>5. /\ sent[STDOUT_FILENO].tty = tty[STDOUT_FILENO]
                                     \o (IF STDOUT_FILENO \in capturing THEN <<>> ELSE buffer)
      /\ sent[STDOUT_FILENO].captured = captured[STDOUT_FILENO]
                                     \o (IF STDOUT_FILENO \in capturing THEN buffer ELSE <<>>)
  BY <1>4 DEF TextInv, OutputExact, Pending
<1>6. /\ sent[STDERR_FILENO].tty = tty[STDERR_FILENO]
      /\ sent[STDERR_FILENO].captured = captured[STDERR_FILENO]
  BY <1>1, <1>2, <1>4 DEF TextInv, OutputExact, Pending
<1>7. TtyAfter(STDOUT_FILENO, buffer) =
        [s \in Streams |-> IF s = STDOUT_FILENO /\ s \notin capturing THEN tty[s] \o buffer
                           ELSE tty[s]]
  BY <1>1, <1>4 DEF TtyAfter
<1>8. CapturedAfter(STDOUT_FILENO, buffer) =
        [s \in Streams |-> IF s = STDOUT_FILENO /\ s \in capturing THEN captured[s] \o buffer
                           ELSE captured[s]]
  BY <1>1, <1>4 DEF CapturedAfter
<1>9. \A s \in Streams : tty[s] \in M /\ captured[s] \in M
  BY <1>1
<1>10. /\ TtyAfter(STDOUT_FILENO, buffer) \in [Streams -> M]
       /\ CapturedAfter(STDOUT_FILENO, buffer) \in [Streams -> M]
  BY <1>3, <1>7, <1>8, <1>9
<1>11. /\ sent[STDOUT_FILENO].tty = TtyAfter(STDOUT_FILENO, buffer)[STDOUT_FILENO]
       /\ sent[STDOUT_FILENO].captured = CapturedAfter(STDOUT_FILENO, buffer)[STDOUT_FILENO]
  BY <1>2, <1>4, <1>5, <1>7, <1>8, <1>9
<1>12. /\ sent[STDERR_FILENO].tty = TtyAfter(STDOUT_FILENO, buffer)[STDERR_FILENO]
       /\ sent[STDERR_FILENO].captured = CapturedAfter(STDOUT_FILENO, buffer)[STDERR_FILENO]
  BY <1>4, <1>6, <1>7, <1>8
<1> QED
  BY <1>4, <1>10, <1>11, <1>12 DEF M

(* A flush, whatever is captured or ends with it; the file of the stream   *)
(* that is captured from now on is empty.                                  *)
LEMMA FlushText ==
  ASSUME DescriptorInv, TextInv, buffer' = <<>>, UNCHANGED printed,
         tty' = TtyAfter(STDOUT_FILENO, buffer),
         \/ /\ captured' = CapturedAfter(STDOUT_FILENO, buffer)
            /\ UNCHANGED sent
         \/ \E s \in Streams :
              /\ captured' = [CapturedAfter(STDOUT_FILENO, buffer) EXCEPT ![s] = <<>>]
              /\ sent' = [sent EXCEPT ![s].captured = <<>>]
  PROVE  TextInv'
<1> DEFINE M == Seq(Messages)
           T == TtyAfter(STDOUT_FILENO, buffer)
           C == CapturedAfter(STDOUT_FILENO, buffer)
<1>1. /\ T \in [Streams -> M] /\ C \in [Streams -> M]
      /\ \A s \in Streams : sent[s].tty = T[s] /\ sent[s].captured = C[s]
  BY FlushFacts
<1>2. sent \in [Streams -> [tty : M, captured : M]] /\ printed \in Nat
  BY DEF TextInv
<1>3. (\A q \in M : q \o <<>> = q) /\ <<>> \in M
  BY ConcatEmptySeq
<1> HIDE DEF M, T, C
<1>4. /\ tty' = T /\ captured' \in [Streams -> M]
      /\ sent' \in [Streams -> [tty : M, captured : M]]
      /\ \A s \in Streams : sent'[s].tty = T[s] /\ sent'[s].captured = captured'[s]
  <2>1. CASE captured' = C /\ UNCHANGED sent
    BY <1>1, <1>2, <2>1 DEF T
  <2>2. ASSUME NEW s \in Streams, captured' = [C EXCEPT ![s] = <<>>],
               sent' = [sent EXCEPT ![s].captured = <<>>]
        PROVE  /\ captured' \in [Streams -> M]
               /\ sent' \in [Streams -> [tty : M, captured : M]]
               /\ \A r \in Streams : sent'[r].tty = T[r] /\ sent'[r].captured = captured'[r]
    BY <1>1, <1>2, <1>3, <2>2
  <2> QED
    BY <2>1, <2>2 DEF T, C
<1>5. \A s \in Streams : /\ tty'[s] \in M /\ captured'[s] \in M
                         /\ sent'[s].tty = tty'[s] \o <<>>
                         /\ sent'[s].captured = captured'[s] \o <<>>
  BY <1>1, <1>3, <1>4
<1>6. buffer' \in M /\ \A s \in Streams : Pending(s)' = <<>>
  BY <1>3 DEF Pending
<1>7. OutputExact'
  BY <1>5, <1>6 DEF OutputExact
<1> QED
  BY <1>1, <1>2, <1>4, <1>6, <1>7 DEF TextInv, M

(* A message more keeps the type of the record of messages. *)
LEMMA SentTyped ==
  ASSUME NEW M, NEW f \in [Streams -> [tty : M, captured : M]], NEW s \in Streams, NEW x \in M
  PROVE  /\ [f EXCEPT ![s].tty = x] \in [Streams -> [tty : M, captured : M]]
         /\ [f EXCEPT ![s].captured = x] \in [Streams -> [tty : M, captured : M]]
<1>1. /\ [f[s] EXCEPT !.tty = x] \in [tty : M, captured : M]
      /\ [f[s] EXCEPT !.captured = x] \in [tty : M, captured : M]
  OBVIOUS
<1> QED
  BY <1>1

(* What is printed on stderr arrives at once. *)
LEMMA UnbufferedText ==
  ASSUME DescriptorInv, TextInv, UNCHANGED <<buffer, capturing>>,
         Write(STDERR_FILENO, <<NextMessage(STDERR_FILENO)>>), Record(STDERR_FILENO),
         ended' = "no" \/ ended' = "aborted"
  PROVE  TextInv'
<1> DEFINE M == Seq(Messages)
           m == NextMessage(STDERR_FILENO)
           E == STDERR_FILENO
           where == IF E \in capturing THEN "captured" ELSE "tty"
<1>1. /\ tty \in [Streams -> M] /\ captured \in [Streams -> M] /\ buffer \in M
      /\ sent \in [Streams -> [tty : M, captured : M]] /\ printed \in Nat
  BY DEF TextInv
<1>2. /\ Streams = {STDOUT_FILENO, E} /\ STDOUT_FILENO # E /\ Terminal # E
      /\ STDOUT_FILENO # Terminal
      /\ fds[E] = IF E \in capturing THEN E ELSE Terminal
  BY DEF DescriptorInv, Streams, STDOUT_FILENO, STDERR_FILENO, Terminal
<1>3. m \in Messages
  BY <1>1, <1>2 DEF NextMessage, Messages
<1>4. \A q \in M : q \o <<m>> = Append(q, m) /\ Append(q, m) \in M /\ q \o <<>> = q
  BY <1>3, AppendIsConcat, ConcatEmptySeq, AppendProperties
<1>5. /\ tty' = IF fds[E] = Terminal THEN [tty EXCEPT ![E] = @ \o <<m>>] ELSE tty
      /\ captured' = [s \in Streams |-> IF fds[E] = s THEN captured[s] \o <<m>> ELSE captured[s]]
      /\ printed' = printed + 1
      /\ sent' = [sent EXCEPT ![E][where] = Append(@, m)]
  BY DEF Write, Record, TtyAfter, CapturedAfter
<1>6. /\ sent[E].tty = tty[E] /\ sent[E].captured = captured[E]
      /\ sent[STDOUT_FILENO].tty = tty[STDOUT_FILENO]
                                     \o (IF STDOUT_FILENO \in capturing THEN <<>> ELSE buffer)
      /\ sent[STDOUT_FILENO].captured = captured[STDOUT_FILENO]
                                     \o (IF STDOUT_FILENO \in capturing THEN buffer ELSE <<>>)
  BY <1>1, <1>2, <1>4 DEF TextInv, OutputExact, Pending
<1>7. ended' \notin {"failure", "passed"}
  OBVIOUS
<1> HIDE DEF M, m, E
<1>8. CASE E \in capturing
  <2>1. /\ tty' = tty /\ sent' = [sent EXCEPT ![E].captured = Append(@, m)]
        /\ captured' = [captured EXCEPT ![E] = Append(@, m)]
    BY <1>1, <1>2, <1>4, <1>5, <1>8
  <2>2. OutputExact'
    BY <1>1, <1>2, <1>4, <1>6, <1>7, <2>1 DEF OutputExact, Pending
  <2>3. /\ tty' \in [Streams -> M] /\ captured' \in [Streams -> M] /\ buffer' \in M
        /\ sent' \in [Streams -> [tty : M, captured : M]] /\ printed' \in Nat
    <3>1. sent[E].captured \in M /\ Append(sent[E].captured, m) \in M /\ E \in Streams
      BY <1>1, <1>2, <1>4
    <3>2. sent' = [sent EXCEPT ![E].captured = Append(sent[E].captured, m)]
      BY <1>1, <2>1, <3>1
    <3>3. sent' \in [Streams -> [tty : M, captured : M]]
      BY <1>1, <3>1, <3>2, SentTyped
    <3>4. captured' \in [Streams -> M]
      <4>1. captured[E] \in M /\ Append(captured[E], m) \in M
        BY <1>1, <1>4, <3>1
      <4> QED
        BY <1>1, <2>1, <4>1
    <3>5. tty' \in [Streams -> M] /\ buffer' \in M
      BY <1>1, <2>1
    <3> QED
      BY <1>1, <1>5, <3>3, <3>4, <3>5
  <2> QED
    BY <2>2, <2>3 DEF TextInv, M
<1>9. CASE E \notin capturing
  <2>1. /\ tty' = [tty EXCEPT ![E] = Append(@, m)] /\ captured' = captured
        /\ sent' = [sent EXCEPT ![E].tty = Append(@, m)]
    BY <1>1, <1>2, <1>4, <1>5, <1>9
  <2>2. OutputExact'
    BY <1>1, <1>2, <1>4, <1>6, <1>7, <2>1 DEF OutputExact, Pending
  <2>3. /\ tty' \in [Streams -> M] /\ captured' \in [Streams -> M] /\ buffer' \in M
        /\ sent' \in [Streams -> [tty : M, captured : M]] /\ printed' \in Nat
    <3>1. sent[E].tty \in M /\ Append(sent[E].tty, m) \in M /\ E \in Streams
      BY <1>1, <1>2, <1>4
    <3>2. sent' = [sent EXCEPT ![E].tty = Append(sent[E].tty, m)]
      BY <1>1, <2>1, <3>1
    <3>3. sent' \in [Streams -> [tty : M, captured : M]]
      BY <1>1, <3>1, <3>2, SentTyped
    <3>4. tty' \in [Streams -> M]
      <4>1. tty[E] \in M /\ Append(tty[E], m) \in M
        BY <1>1, <1>4, <3>1
      <4> QED
        BY <1>1, <2>1, <4>1
    <3>5. captured' \in [Streams -> M] /\ buffer' \in M
      BY <1>1, <2>1
    <3> QED
      BY <1>1, <1>5, <3>3, <3>4, <3>5
  <2> QED
    BY <2>2, <2>3 DEF TextInv, M
<1> QED
  BY <1>8, <1>9

(* What is printed on stdout waits in the buffer. *)
LEMMA BufferedText ==
  ASSUME DescriptorInv, TextInv, UNCHANGED <<tty, captured, capturing>>,
         Record(STDOUT_FILENO), buffer' = Append(buffer, NextMessage(STDOUT_FILENO)),
         ended' = "no"
  PROVE  TextInv'
<1> DEFINE M == Seq(Messages)
           m == NextMessage(STDOUT_FILENO)
           O == STDOUT_FILENO
           where == IF O \in capturing THEN "captured" ELSE "tty"
<1>1. /\ tty \in [Streams -> M] /\ captured \in [Streams -> M] /\ buffer \in M
      /\ sent \in [Streams -> [tty : M, captured : M]] /\ printed \in Nat
  BY DEF TextInv
<1>2. Streams = {O, STDERR_FILENO} /\ STDERR_FILENO # O
  BY DEF Streams, STDOUT_FILENO, STDERR_FILENO
<1>3. m \in Messages
  BY <1>1, <1>2 DEF NextMessage, Messages
<1>4. \A q \in M : /\ Append(q, m) \in M /\ q \o <<>> = q
                   /\ Append(q \o buffer, m) = q \o Append(buffer, m)
  <2>1. \A q \in M : q \o <<m>> = Append(q, m) /\ Append(q, m) \in M /\ q \o <<>> = q
    BY <1>3, AppendIsConcat, ConcatEmptySeq, AppendProperties
  <2>2. <<m>> \in M
    BY <1>3
  <2>3. \A q \in M : q \o buffer \in M /\ (q \o buffer) \o <<m>> = q \o (buffer \o <<m>>)
    BY <1>1, <2>2, ConcatAssociative, ConcatProperties
  <2> HIDE DEF M, m
  <2> QED
    BY <1>1, <2>1, <2>3
<1>5. printed' = printed + 1 /\ sent' = [sent EXCEPT ![O][where] = Append(@, m)]
  BY DEF Record
<1>6. /\ sent[O].tty = tty[O] \o (IF O \in capturing THEN <<>> ELSE buffer)
      /\ sent[O].captured = captured[O] \o (IF O \in capturing THEN buffer ELSE <<>>)
      /\ sent[STDERR_FILENO].tty = tty[STDERR_FILENO] \o <<>>
      /\ sent[STDERR_FILENO].captured = captured[STDERR_FILENO] \o <<>>
  BY <1>2 DEF TextInv, OutputExact, Pending
<1>7. buffer' = Append(buffer, m)
  OBVIOUS
<1> HIDE DEF M, m, O
<1>8. CASE O \in capturing
  <2>1. sent' = [sent EXCEPT ![O].captured = Append(@, m)]
    BY <1>5, <1>8
  <2>2. OutputExact'
    <3>1. /\ sent'[O].tty = tty[O] \o <<>> /\ sent'[O].captured = captured[O] \o buffer'
          /\ sent'[STDERR_FILENO] = sent[STDERR_FILENO]
      BY <1>1, <1>2, <1>4, <1>6, <1>7, <1>8, <2>1
    <3>2. \A s \in Streams : /\ Pending(s)' = IF s = O THEN buffer' ELSE <<>>
                             /\ s \in capturing' <=> s \in capturing
      BY DEF Pending, O
    <3> QED
      BY <1>2, <1>6, <1>8, <3>1, <3>2 DEF OutputExact
  <2>3. /\ tty' \in [Streams -> M] /\ captured' \in [Streams -> M] /\ buffer' \in M
        /\ sent' \in [Streams -> [tty : M, captured : M]] /\ printed' \in Nat
    <3>1. sent[O].captured \in M /\ Append(sent[O].captured, m) \in M /\ O \in Streams
      BY <1>1, <1>2, <1>4
    <3>2. sent' = [sent EXCEPT ![O].captured = Append(sent[O].captured, m)]
      BY <1>1, <2>1, <3>1
    <3>3. sent' \in [Streams -> [tty : M, captured : M]]
      BY <1>1, <3>1, <3>2, SentTyped
    <3> QED
      BY <1>1, <1>2, <1>4, <1>5, <1>7, <2>1, <3>3
  <2> QED
    BY <2>2, <2>3 DEF TextInv, M
<1>9. CASE O \notin capturing
  <2>1. sent' = [sent EXCEPT ![O].tty = Append(@, m)]
    BY <1>5, <1>9
  <2>2. OutputExact'
    <3>1. /\ sent'[O].tty = tty[O] \o buffer' /\ sent'[O].captured = captured[O] \o <<>>
          /\ sent'[STDERR_FILENO] = sent[STDERR_FILENO]
      BY <1>1, <1>2, <1>4, <1>6, <1>7, <1>9, <2>1
    <3>2. \A s \in Streams : /\ Pending(s)' = IF s = O THEN buffer' ELSE <<>>
                             /\ s \in capturing' <=> s \in capturing
      BY DEF Pending, O
    <3> QED
      BY <1>2, <1>6, <1>9, <3>1, <3>2 DEF OutputExact
  <2>3. /\ tty' \in [Streams -> M] /\ captured' \in [Streams -> M] /\ buffer' \in M
        /\ sent' \in [Streams -> [tty : M, captured : M]] /\ printed' \in Nat
    <3>1. sent[O].tty \in M /\ Append(sent[O].tty, m) \in M /\ O \in Streams
      BY <1>1, <1>2, <1>4
    <3>2. sent' = [sent EXCEPT ![O].tty = Append(sent[O].tty, m)]
      BY <1>1, <2>1, <3>1
    <3>3. sent' \in [Streams -> [tty : M, captured : M]]
      BY <1>1, <3>1, <3>2, SentTyped
    <3> QED
      BY <1>1, <1>2, <1>4, <1>5, <1>7, <2>1, <3>3
  <2> QED
    BY <2>2, <2>3 DEF TextInv, M
<1> QED
  BY <1>8, <1>9

(* A step that neither prints nor flushes, whatever it captures no longer. *)
LEMMA SilentText ==
  ASSUME TextInv, UNCHANGED textVars,
         UNCHANGED ended \/ ended' \notin {"failure", "passed"}
  PROVE  TextInv'
BY DEF TextInv, OutputExact, Pending, textVars

(* A failing CHECK: the stack goes to stderr, and stdout's buffer nowhere. *)
LEMMA FailingCheckText ==
  ASSUME DescriptorInv, TextInv, FailingCheck
  PROVE  TextInv'
<1>1. CASE LongJmp
  BY <1>1, SilentText DEF LongJmp, FailingCheck, textVars
<1>2. CASE Abort
  <2>1. CASE g_logging_fail_func = "DumpStackTraceAndExit"
    BY <1>2, <2>1, UnbufferedText DEF Abort, FailingCheck
  <2>2. CASE g_logging_fail_func # "DumpStackTraceAndExit"
    BY <1>2, <2>2, SilentText DEF Abort, FailingCheck, textVars
  <2> QED
    BY <2>1, <2>2
<1> QED
  BY <1>1, <1>2 DEF FailingCheck, Fail

(* fflush(NULL) writes all that stdio holds. *)
LEMMA AllFlushed == TextInv => Flushed = buffer /\ Unflushed = <<>>
<1> SUFFICES ASSUME TextInv PROVE Unflushed = <<>>
  BY DEF Flushed
<1>1. buffer \in Seq(Messages) /\ Len(buffer) \in Nat
  BY DEF TextInv
<1> QED
  BY <1>1, SubSeqEmpty DEF Unflushed, Flushed

(* Capturing a stream, reading its file and diffing it. *)
LEMMA CaptureText ==
  ASSUME DescriptorInv, TextInv, ended = "no", NEW s \in Streams,
         CaptureTestOutput(s) \/ GetCapturedTestOutput(s) \/ MungeAndDiffTest(s)
  PROVE  TextInv'
<1>1. CASE FailingCheck
  BY <1>1, FailingCheckText
<1>2. CASE /\ tty' = TtyAfter(STDOUT_FILENO, Flushed)
           /\ captured' = [CapturedAfter(STDOUT_FILENO, Flushed) EXCEPT ![s] = <<>>]
           /\ buffer' = Unflushed
           /\ sent' = [sent EXCEPT ![s].captured = <<>>]
           /\ UNCHANGED printed
  BY <1>2, AllFlushed, FlushText
<1>3. CASE StopCapture(s)
  BY <1>3, AllFlushed, FlushText DEF StopCapture, Write
<1> QED
  BY <1>1, <1>2, <1>3 DEF CaptureTestOutput, GetCapturedTestOutput, MungeAndDiffTest

(* Every other step of the process, as far as it is about text. *)
LEMMA TextStep ==
  ASSUME DescriptorInv, TextInv, ProcessNext
  PROVE  TextInv'
<1>1. ended = "no"
  BY DEF ProcessNext
<1>2. CASE FailingCheck
  BY <1>2, FailingCheckText
<1>3. ASSUME NEW s \in Streams, PrintMessage(s) PROVE TextInv'
  <2>1. UNCHANGED <<capturing, ended>> /\ Record(s)
    BY <1>3 DEF PrintMessage, controlVars
  <2>2. CASE s = STDOUT_FILENO
    BY <1>1, <1>3, <2>1, <2>2, BufferedText DEF PrintMessage
  <2>3. CASE s = STDERR_FILENO /\ STDERR_FILENO # STDOUT_FILENO
    BY <1>1, <1>3, <2>1, <2>3, UnbufferedText DEF PrintMessage
  <2> QED
    BY <2>2, <2>3 DEF Streams, STDOUT_FILENO, STDERR_FILENO
<1>4. ASSUME Exit, UNCHANGED <<printed, sent>> PROVE TextInv'
  BY <1>4, FlushText DEF Exit, Write
<1>5. CASE FlushStdout \/ FailingExpect \/ ReturnFromMain
  BY <1>4, <1>5 DEF FlushStdout, FailingExpect, ReturnFromMain, Exit
<1>6. CASE EndDeath
  <2>1. CASE ~g_called_abort
    BY <1>4, <1>6, <2>1 DEF EndDeath
  <2>2. CASE g_called_abort
    BY <1>6, <2>2, SilentText DEF EndDeath, textVars
  <2> QED
    BY <2>1, <2>2
<1>7. CASE InitGoogleLogging \/ ShutdownGoogleLogging
  <2>1. CASE UNCHANGED <<outputVars, ended>>
    BY <2>1, SilentText DEF outputVars, textVars
  <2> QED
    BY <1>2, <1>7, <2>1 DEF InitGoogleLogging, ShutdownGoogleLogging, controlVars
<1>8. CASE \/ OpenFlagSaver \/ CloseFlagSaver \/ OpenNewHook \/ CloseNewHook \/ BeginDeath
           \/ \E f \in DOMAIN FLAGS : SetFlag(f)
           \/ RunAllTests \/ BeginTest \/ EndTest \/ TestsPassed
  <2>1. UNCHANGED <<outputVars, ended>>
    BY <1>8 DEF OpenFlagSaver, CloseFlagSaver, OpenNewHook, CloseNewHook, BeginDeath, SetFlag,
       RunAllTests, BeginTest, EndTest, TestsPassed, runVars, scopeVars, controlVars
  <2> QED
    BY <2>1, SilentText DEF outputVars, textVars
<1> QED
  BY <1>1, <1>2, <1>3, <1>5, <1>6, <1>7, <1>8, CaptureText DEF ProcessNext, BodyStep,
     RunnerStep, New

(* The process begins with nothing printed, and the text stays in order. *)
LEMMA TextInductive ==
  /\ ProcessInit => TextInv
  /\ DescriptorInv /\ TextInv /\ [ProcessNext]_processVars => TextInv'
<1>1. ASSUME ProcessInit PROVE TextInv
  <2>1. <<>> \in Seq(Messages) /\ <<>> \o <<>> = <<>>
    BY ConcatEmptySeq
  <2> HIDE DEF Messages
  <2>2. /\ tty = [s \in Streams |-> <<>>] /\ captured = tty
        /\ sent = [s \in Streams |-> [tty |-> <<>>, captured |-> <<>>]]
        /\ buffer = <<>> /\ printed = 0 /\ capturing = {} /\ ended = "no"
    BY <1>1 DEF ProcessInit
  <2>3. OutputExact
    BY <2>1, <2>2 DEF OutputExact, Pending
  <2> QED
    BY <2>1, <2>2, <2>3 DEF TextInv
<1>2. ASSUME TextInv, UNCHANGED processVars PROVE TextInv'
  BY <1>2, SilentText DEF processVars, outputVars, controlVars, textVars
<1> QED
  BY <1>1, <1>2, TextStep

-----------------------------------------------------------------------------
(* Theorems *)

(* The inductive invariant: the stack of scopes, the descriptors and the   *)
(* text, each with what the next steps rely on.                            *)
THEOREM ProcessInductive == ProcessSpec => []IInv
<1>1. ProcessInit => IInv
  BY ControlInductive, DescriptorInductive, TextInductive DEF IInv
<1>2. IInv /\ [ProcessNext]_processVars => IInv'
  BY ControlInductive, DescriptorInductive, TextInductive DEF IInv
<1> QED
  BY <1>1, <1>2, PTL DEF ProcessSpec

(* No scope, longjmp or InitGoogleLogging of a test changes what the next  *)
(* test finds, but for a hook of new that a longjmp has left, and          *)
(* CalledAbort never has nowhere to jump to.                               *)
THEOREM IsolationHolds == ProcessSpec => []IsolationInv
<1>1. IInv => IsolationInv
  <2> SUFFICES ASSUME IInv PROVE IsolationInv
    OBVIOUS
  <2>1. fds \in [Fds -> {Terminal, NoFd} \cup Streams]
    BY DEF IInv, DescriptorInv
  <2>2. s_captured_streams \in [Streams -> Fds \cup {NoFd}]
    BY DEF IInv, DescriptorInv, Fds
  <2>3. g_logging_fail_func = "CalledAbort" => DeathFrames # {}
    BY DEF IInv, ControlInv, DeathInv, IsKind, DeathFrames
  <2>4. ProcessTypeOK
    BY <2>1, <2>2, <2>3 DEF ProcessTypeOK, IInv, ControlInv
  <2>5. TestsIndependent
    BY DEF TestsIndependent, IInv, ControlInv, DeathInv, HookInv, TestInv, IsKind
  <2> QED
    BY <2>4, <2>5 DEF IsolationInv
<1> QED
  BY <1>1, ProcessInductive, PTL

(* The process that goes on, or passes, has had no survivor: an            *)
(* ASSERT_DEATH that comes back finds the answer it reset itself.          *)
THEOREM SurvivorsAreFailures == ProcessSpec => []SurvivorsFail
<1>1. IInv => SurvivorsFail
  BY DEF IInv, ControlInv
<1> QED
  BY <1>1, ProcessInductive, PTL

(* However captures of stdout and stderr overlap, every message is where   *)
(* it was printed to, whole and in order.                                  *)
THEOREM TextExact == ProcessSpec => []OutputExact
<1>1. IInv => OutputExact
  BY DEF IInv, TextInv
<1> QED
  BY <1>1, ProcessInductive, PTL

(* A pair of different elements has two. *)
LEMMA TwoElements ==
  ASSUME NEW m, NEW n, m # n
  PROVE  Cardinality({m, n}) = 2
<1>1. IsFiniteSet({m}) /\ Cardinality({m}) = 1 /\ {m, n} = {m} \cup {n}
  BY FS_Singleton
<1> QED
  BY <1>1, FS_AddElement

(* ... and no descriptor is lost or left open. *)
THEOREM DescriptorsAccounted == ProcessSpec => []FdsAccounted
<1>1. DescriptorInv => FdsAccounted
  <2> SUFFICES ASSUME DescriptorInv PROVE FdsAccounted
    OBVIOUS
  <2> USE DEF Streams, STDIN_FILENO, STDOUT_FILENO, STDERR_FILENO, Fds, Terminal, NoFd
  <2> DEFINE saved == {s_captured_streams[s] : s \in Streams} \ {NoFd}
             live == {s \in Streams : s_captured_streams[s] # NoFd}
  <2>1. {fd \in Fds : fds[fd] # NoFd} = {STDIN_FILENO} \cup Streams \cup saved
    BY DEF DescriptorInv
  <2>2. \A fd \in saved : fds[fd] = Terminal
    BY DEF DescriptorInv
  <2>3. \A s \in Streams : fds[s] = IF s \in capturing THEN s ELSE Terminal
    BY DEF DescriptorInv
  <2>4. Cardinality(saved) = Cardinality(live)
    <3>1. \A n : Cardinality({n}) = 1
      BY FS_Singleton
    <3>2. \A m, n \in Int : m # n => Cardinality({m, n}) = 2
      BY TwoElements
    <3>3. CASE s_captured_streams[1] = NoFd /\ s_captured_streams[2] = NoFd
      <4>1. saved = {} /\ live = {}
        BY <3>3
      <4> QED
        BY <4>1
    <3>4. CASE s_captured_streams[1] # NoFd /\ s_captured_streams[2] = NoFd
      <4>1. saved = {s_captured_streams[1]} /\ live = {1}
        BY <3>4
      <4> QED
        BY <3>1, <4>1
    <3>5. CASE s_captured_streams[1] = NoFd /\ s_captured_streams[2] # NoFd
      <4>1. saved = {s_captured_streams[2]} /\ live = {2}
        BY <3>5
      <4> QED
        BY <3>1, <4>1
    <3>6. CASE s_captured_streams[1] # NoFd /\ s_captured_streams[2] # NoFd
      <4>1. saved = {s_captured_streams[1], s_captured_streams[2]} /\ live = {1, 2}
        BY <3>6
      <4>2. s_captured_streams[1] # s_captured_streams[2]
        BY <3>6 DEF DescriptorInv
      <4>3. Cardinality({s_captured_streams[1], s_captured_streams[2]}) = 2
        BY <4>2, TwoElements
      <4>4. Cardinality({1, 2}) = 2
        BY <3>2
      <4> HIDE DEF saved, live
      <4> QED
        BY <4>1, <4>3, <4>4
    <3> QED
      BY <3>3, <3>4, <3>5, <3>6
  <2> QED
    BY <2>1, <2>2, <2>3, <2>4 DEF FdsAccounted
<1> QED
  BY <1>1, ProcessInductive, PTL DEF IInv

-----------------------------------------------------------------------------
(* Mutex *)

(* A Mutex that no constructor has touched, all zeroes, has the invariant. *)
LEMMA MutexInitInv == MutexInit => MutexInv
BY MutexAssumption DEF MutexInit, MutexInv, MutexTypeOK, LifeOK, Modes, NoThreads, Runs,
     Safe, SharesAreReads, PrimitiveAgrees, AbortsOnlyAtExit

(* Lock and ReaderLock, and with them MutexLock, ReaderMutexLock and       *)
(* WriterMutexLock, preserve the invariant.                                *)
LEMMA TakeInv ==
  ASSUME MutexInv, NEW t \in Threads, NEW mode \in {"read", "write"},
         NEW actual \in {"read", "write"}, actual = "read" => mode = "read",
         ~aborted, Take(t, mode, actual)
  PROVE  MutexInv'
<1> USE DEF MutexInv, MutexTypeOK, Modes
<1>1. CASE Safe /\ ~Usable /\ PrimitiveFails
  BY <1>1 DEF PrimitiveFails, LifeOK, NoThreads, Runs, Safe, Usable, SharesAreReads,
       PrimitiveAgrees, AbortsOnlyAtExit
<1>2. CASE /\ held' = [held EXCEPT ![t] = mode]
           /\ primitive' = IF Safe THEN [primitive EXCEPT ![t] = actual] ELSE primitive
           /\ UNCHANGED <<build, phase, object, is_safe_, aborted>>
  <2>1. MutexTypeOK'
    BY <1>2
  <2>2. LifeOK'
    BY <1>2 DEF LifeOK, NoThreads, Runs, Take
  <2>3. AbortsOnlyAtExit'
    BY <1>2 DEF AbortsOnlyAtExit
  <2>4. (Safe => SharesAreReads)' /\ PrimitiveAgrees'
    BY <1>2 DEF Safe, NoThreads, SharesAreReads, PrimitiveAgrees
  <2> QED
    BY <2>1, <2>2, <2>3, <2>4
<1> QED
  BY <1>1, <1>2 DEF Take

(* Unlock and ReaderUnlock preserve it. *)
LEMMA UnlockInv ==
  ASSUME MutexInv, NEW t \in Threads, ~aborted, Unlock(t)
  PROVE  MutexInv'
<1> USE DEF MutexInv, MutexTypeOK, Modes
<1>1. CASE Safe /\ (~Usable \/ primitive[t] = "none") /\ PrimitiveFails
  BY <1>1 DEF PrimitiveFails, LifeOK, NoThreads, Runs, Safe, Usable, SharesAreReads,
       PrimitiveAgrees, AbortsOnlyAtExit, Unlock
<1>2. CASE /\ held' = [held EXCEPT ![t] = "none"]
           /\ primitive' = Unlocked(t)
           /\ UNCHANGED <<build, phase, object, is_safe_, aborted>>
  <2>1. MutexTypeOK'
    BY <1>2 DEF Unlocked
  <2>2. LifeOK'
    BY <1>2 DEF LifeOK, NoThreads, Runs
  <2>3. AbortsOnlyAtExit'
    BY <1>2 DEF AbortsOnlyAtExit
  <2>4. (Safe => SharesAreReads)' /\ PrimitiveAgrees'
    BY <1>2 DEF Unlocked, Safe, NoThreads, SharesAreReads, PrimitiveAgrees
  <2> QED
    BY <2>1, <2>2, <2>3, <2>4
<1> QED
  BY <1>1, <1>2 DEF Unlock

(* Constructor, destructor and the ends of main preserve it. *)
LEMMA LifeInv ==
  ASSUME MutexInv, ~aborted, Construct \/ StartMain \/ LeaveMain \/ Destroy
  PROVE  MutexInv'
<1> USE MutexAssumption DEF MutexInv, MutexTypeOK, LifeOK, NoThreads, Runs, Safe,
      SharesAreReads, PrimitiveAgrees, AbortsOnlyAtExit, Modes
<1>1. CASE Construct
  BY <1>1 DEF Construct, SetIsSafe
<1>2. CASE StartMain
  BY <1>2 DEF StartMain
<1>3. CASE LeaveMain
  BY <1>3 DEF LeaveMain
<1>4. CASE Destroy
  BY <1>4 DEF Destroy
<1> QED
  BY <1>1, <1>2, <1>3, <1>4

(* Every step preserves the invariant. *)
LEMMA MutexNextInv == MutexInv /\ [MutexNext]_mutexVars => MutexInv'
<1> SUFFICES ASSUME MutexInv, [MutexNext]_mutexVars
             PROVE  MutexInv'
  OBVIOUS
<1>1. CASE UNCHANGED mutexVars
  BY <1>1 DEF mutexVars, MutexInv, MutexTypeOK, LifeOK, NoThreads, Runs, Safe,
       SharesAreReads, PrimitiveAgrees, AbortsOnlyAtExit
<1>2. ASSUME NEW t \in Threads, ~aborted, Lock(t) PROVE MutexInv'
  BY <1>2, TakeInv DEF Lock
<1>3. ASSUME NEW t \in Threads, ~aborted, ReaderLock(t) PROVE MutexInv'
  BY <1>3, TakeInv DEF ReaderLock
<1>4. ASSUME NEW t \in Threads, ~aborted, Unlock(t) PROVE MutexInv'
  BY <1>4, UnlockInv
<1>5. ASSUME ~aborted, Construct \/ StartMain \/ LeaveMain \/ Destroy PROVE MutexInv'
  BY <1>5, LifeInv
<1> QED
  BY <1>1, <1>2, <1>3, <1>4, <1>5 DEF MutexNext

(* The invariant holds throughout: in particular the primitive is locked   *)
(* by the threads that think they hold the Mutex.                          *)
THEOREM MutexInvHolds == MutexSpec => []MutexInv
BY MutexInitInv, MutexNextInv, PTL DEF MutexSpec

(* SAFE_PTHREAD aborts only once the destructor has run. *)
THEOREM MutexAborts == MutexSpec => []AbortsOnlyAtExit
<1>1. MutexInv => AbortsOnlyAtExit
  BY DEF MutexInv
<1> QED
  BY <1>1, MutexInvHolds, PTL

(* A call of Lock or ReaderLock is an Acquire of RWLock, whatever the      *)
(* build makes of it, while the Mutex is there.                            *)
LEMMA TakeAcquires ==
  ASSUME MutexInv, NEW t \in Threads, NEW mode \in {"read", "write"},
         NEW actual \in {"read", "write"}, actual = "read" => mode = "read",
         ~aborted, Take(t, mode, actual)
  PROVE  [Promise!RWNext]_<<held, object # "destroyed">>
<1> USE DEF MutexInv, MutexTypeOK, Modes
<1>1. CASE PrimitiveFails
  BY <1>1 DEF PrimitiveFails
<1>2. CASE /\ Safe => Grants(t, actual)
           /\ held' = [held EXCEPT ![t] = mode]
           /\ UNCHANGED object
  <2>1. \A u \in Threads \ {t} : held[u] = "none" \/ (mode = "read" /\ held[u] = "read")
    <3>1. CASE Safe
      BY <1>2, <3>1 DEF Grants, PrimitiveAgrees, SharesAreReads
    <3>2. CASE ~Safe
      BY <3>2, MutexAssumption DEF Safe, NoThreads, LifeOK, Runs, Take
    <3> QED
      BY <3>1, <3>2
  <2>2. Promise!Acquire(t, mode)
    BY <1>2, <2>1 DEF Take, Promise!Acquire, Promise!Compatible
  <2> QED
    BY <2>2 DEF Promise!RWNext
<1> QED
  BY <1>1, <1>2 DEF Take

(* Every step of the Mutex is a step of RWLock or leaves it alone. *)
LEMMA MutexStepSimulates ==
  MutexInv /\ [MutexNext]_mutexVars => [Promise!RWNext]_<<held, object # "destroyed">>
<1> SUFFICES ASSUME MutexInv, [MutexNext]_mutexVars
             PROVE  [Promise!RWNext]_<<held, object # "destroyed">>
  OBVIOUS
<1>1. CASE UNCHANGED mutexVars
  BY <1>1 DEF mutexVars
<1>2. ASSUME NEW t \in Threads, ~aborted, Lock(t)
      PROVE  [Promise!RWNext]_<<held, object # "destroyed">>
  BY <1>2, TakeAcquires DEF Lock
<1>3. ASSUME NEW t \in Threads, ~aborted, ReaderLock(t)
      PROVE  [Promise!RWNext]_<<held, object # "destroyed">>
  BY <1>3, TakeAcquires DEF ReaderLock
<1>4. ASSUME NEW t \in Threads, Unlock(t)
      PROVE  [Promise!RWNext]_<<held, object # "destroyed">>
  BY <1>4 DEF Unlock, PrimitiveFails, Promise!RWNext, Promise!Release
<1>5. ASSUME Construct \/ StartMain \/ LeaveMain \/ Destroy
      PROVE  [Promise!RWNext]_<<held, object # "destroyed">>
  BY <1>5 DEF Construct, StartMain, LeaveMain, Destroy, Promise!RWNext, Promise!Close
<1> QED
  BY <1>1, <1>2, <1>3, <1>4, <1>5 DEF MutexNext

(* The Mutex, used before, during and after its life, is the lock that     *)
(* RWLock describes.                                                       *)
THEOREM MutexImplements == MutexSpec => MutexKeepsPromise
<1>1. MutexInit => Promise!RWInit
  BY DEF MutexInit, Promise!RWInit
<1> QED
  BY <1>1, MutexInvHolds, MutexStepSimulates, PTL
     DEF MutexSpec, MutexKeepsPromise, Promise!RWSpec

=============================================================================
