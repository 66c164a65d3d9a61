--------------------------- MODULE MCTestProcess ---------------------------
(***************************************************************************)
(* A process from its global constructors to exit(), for model checking:   *)
(* the test program of TestProcess, with text and scopes of depth two or   *)
(* with no text and deeper scopes, and a global Mutex. They share no       *)
(* state, so each behaviour is of one of the three.                        *)
(***************************************************************************)
EXTENDS TestProcess, Mutex

CONSTANTS main_thread, t1, t2

AllBuilds == {"rwlock", "pthread_mutex", "critical_section", "no_threads",
              "no_threads_ndebug"}

VARIABLE part

LifeInit == /\ part \in {"output", "scopes", "mutex"}
            /\ ProcessInit /\ MutexInit
            /\ part # "mutex" => build = "rwlock"

\* The only text is then that of a failing CHECK that ends the process.
Silent == printed' = 0 \/ ended' = "aborted"

LifeNext == /\ \/ /\ ProcessNext /\ UNCHANGED mutexVars
                  /\ \/ part = "output" /\ Len(scopes') <= 2
                     \/ part = "scopes" /\ Silent
               \/ part = "mutex" /\ MutexNext /\ UNCHANGED processVars
            /\ UNCHANGED part

LifeSpec == LifeInit /\ [][LifeNext]_<<part, processVars, mutexVars>>

=============================================================================
