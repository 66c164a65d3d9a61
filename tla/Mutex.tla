------------------------------- MODULE Mutex -------------------------------
(***************************************************************************)
(* The Mutex of base/mutex.h as a global variable, in each of its builds:  *)
(* used by global constructors that run before its own, when is_safe_      *)
(* makes it do nothing; by threads in main; and by threads that run on     *)
(* while exit() destroys it. A thread holds it at most once, through       *)
(* MutexLock, ReaderMutexLock or WriterMutexLock.                          *)
(***************************************************************************)
CONSTANTS Threads,
          Main,      \* the thread that runs global constructors and main
          Builds     \* some of "rwlock", "pthread_mutex", "critical_section",
                     \* "no_threads" and "no_threads_ndebug"

ASSUME MutexAssumption ==
  /\ Main \in Threads
  /\ Builds \subseteq {"rwlock", "pthread_mutex", "critical_section", "no_threads",
                       "no_threads_ndebug"}

VARIABLES build,
          phase,     \* "static", "main", "exit"
          object,    \* "zeroed", "constructed", "destroyed"
          is_safe_,
          primitive, \* the lock of the system: the mode each thread has it in
          held,      \* what each thread thinks it holds
          aborted

mutexVars == <<build, phase, object, is_safe_, primitive, held, aborted>>

Modes == {"none", "read", "write"}

MutexInit ==
  /\ build \in Builds
  /\ phase = "static"
  /\ object = "zeroed" /\ is_safe_ = FALSE
  /\ primitive = [t \in Threads |-> "none"]
  /\ held = [t \in Threads |-> "none"]
  /\ aborted = FALSE

NoThreads == build \in {"no_threads", "no_threads_ndebug"}

\* Before main there is one thread, and with NO_THREADS always.
Runs(t) == t = Main \/ (phase # "static" /\ ~NoThreads)

-----------------------------------------------------------------------------
(* Constructor and destructor *)

\* The constructor leaves is_safe_ out.
MutForget == FALSE

SetIsSafe == ~NoThreads

\* It runs between two other global constructors, none of which leaves the
\* mutex locked for another.
Construct ==
  /\ phase = "static" /\ object = "zeroed" /\ held[Main] = "none"
  /\ object' = "constructed" /\ is_safe_' = SetIsSafe
  /\ primitive' = [t \in Threads |-> "none"]
  /\ UNCHANGED <<build, phase, held, aborted>>

StartMain ==
  /\ phase = "static" /\ object = "constructed" /\ held[Main] = "none"
  /\ phase' = "main"
  /\ UNCHANGED <<build, object, is_safe_, primitive, held, aborted>>

LeaveMain ==
  /\ phase = "main" /\ held[Main] = "none"
  /\ phase' = "exit"
  /\ UNCHANGED <<build, object, is_safe_, primitive, held, aborted>>

\* To destroy a locked primitive is undefined: pthread_mutex_destroy returns
\* EBUSY and SAFE_PTHREAD aborts, or nothing is noticed.
Destroy ==
  /\ phase = "exit" /\ object = "constructed"
  /\ object' = "destroyed"
  /\ aborted' \in {FALSE, \E t \in Threads : primitive[t] # "none"}
  /\ UNCHANGED <<build, phase, is_safe_, primitive, held>>

-----------------------------------------------------------------------------
(* Lock, Unlock, ReaderLock, ReaderUnlock *)

\* The routine goes to the primitive.
Safe == IF NoThreads THEN build = "no_threads" ELSE is_safe_

\* Using the primitive is defined: a zeroed int is a lock count already.
Usable == object = "constructed" \/ (object = "zeroed" /\ NoThreads)

Grants(t, mode) ==
  \A u \in Threads \ {t} : primitive[u] = "none" \/ (mode = "read" /\ primitive[u] = "read")

\* An error of the primitive: SAFE_PTHREAD aborts.
PrimitiveFails == aborted' = TRUE /\ UNCHANGED <<build, phase, object, is_safe_, primitive, held>>

\* mode is the one asked for, actual the one that the build has.
Take(t, mode, actual) ==
  /\ Runs(t) /\ held[t] = "none"
  /\ \/ /\ Safe => Grants(t, actual)
        /\ held' = [held EXCEPT ![t] = mode]
        /\ primitive' = IF Safe THEN [primitive EXCEPT ![t] = actual] ELSE primitive
        /\ UNCHANGED <<build, phase, object, is_safe_, aborted>>
     \/ Safe /\ ~Usable /\ PrimitiveFails

\* TryLock is the same: it returns false where Lock would block.
Lock(t) == Take(t, "write", "write")

ReaderLock(t) == Take(t, "read", IF build \in {"rwlock", "no_threads"} THEN "read" ELSE "write")

\* The primitive is left locked.
MutLeaveLocked(t) == primitive

Unlocked(t) == IF Safe THEN [primitive EXCEPT ![t] = "none"] ELSE primitive

\* Unlock and ReaderUnlock.
Unlock(t) ==
  /\ Runs(t) /\ held[t] # "none"
  /\ \/ /\ held' = [held EXCEPT ![t] = "none"]
        /\ primitive' = Unlocked(t)
        /\ UNCHANGED <<build, phase, object, is_safe_, aborted>>
     \/ Safe /\ (~Usable \/ primitive[t] = "none") /\ PrimitiveFails

-----------------------------------------------------------------------------
MutexNext == /\ ~aborted
             /\ \/ Construct \/ StartMain \/ LeaveMain \/ Destroy
                \/ \E t \in Threads : Lock(t) \/ ReaderLock(t) \/ Unlock(t)

MutexSpec == MutexInit /\ [][MutexNext]_mutexVars

-----------------------------------------------------------------------------
(* Properties *)

(* Every variable has its type. *)
MutexTypeOK ==
  /\ build \in Builds
  /\ phase \in {"static", "main", "exit"}
  /\ object \in {"zeroed", "constructed", "destroyed"}
  /\ is_safe_ \in BOOLEAN /\ aborted \in BOOLEAN
  /\ primitive \in [Threads -> Modes] /\ held \in [Threads -> Modes]

\* The primitive is there when main is, and is_safe_ says so; only Main runs
\* when no other thread can.
LifeOK ==
  /\ object = "zeroed" => phase = "static"
  /\ object = "destroyed" => phase = "exit"
  /\ is_safe_ <=> ~NoThreads /\ object # "zeroed"
  /\ \A t \in Threads : ~Runs(t) => held[t] = "none"

\* A share of the primitive is never taken for exclusive use.
SharesAreReads == \A t \in Threads : primitive[t] = "read" => held[t] = "read"

(* The primitive is locked by exactly the threads that think they hold the *)
(* Mutex, also when some of their calls came before the constructor and    *)
(* did nothing: no call is left out that a later one counts on.            *)
PrimitiveAgrees ==
  Safe => \A t \in Threads : primitive[t] = "none" <=> held[t] = "none"

(* SAFE_PTHREAD never aborts before main returns: a lock or unlock on a    *)
(* primitive that is not there yet, or that is not locked, cannot happen.  *)
(* After that it can: is_safe_ stays true in a destroyed Mutex.            *)
AbortsOnlyAtExit == aborted => object = "destroyed"

Promise == INSTANCE RWLock WITH holds <- held, open <- object # "destroyed"

(* All of the above, which every step preserves. *)
MutexInv == /\ MutexTypeOK /\ LifeOK /\ AbortsOnlyAtExit
            /\ Safe => SharesAreReads
            /\ PrimitiveAgrees

(* Until it is destroyed, and in every build, the Mutex is the lock that   *)
(* mutex.h describes: writers are alone, readers share with readers only,  *)
(* although before the constructor no call locks anything.                 *)
MutexKeepsPromise == Promise!RWSpec

=============================================================================
