------------------------------- MODULE RWLock -------------------------------
(***************************************************************************)
(* What base/mutex.h promises of a Mutex, from its constructor to its      *)
(* destructor and for global constructors that run even before: Lock is    *)
(* exclusive, ReaderLock shares only with other readers.                   *)
(***************************************************************************)
CONSTANT Threads

VARIABLES holds,   \* each thread's "none", "read" or "write"
          open     \* until the destructor has run

RWInit == open = TRUE /\ holds = [t \in Threads |-> "none"]

\* The others leave room for a lock of this mode.
Compatible(t, mode) == \A u \in Threads \ {t} :
                         holds[u] = "none" \/ (mode = "read" /\ holds[u] = "read")

Acquire(t, mode) == /\ holds[t] = "none" /\ Compatible(t, mode)
                    /\ holds' = [holds EXCEPT ![t] = mode]
                    /\ UNCHANGED open

Release(t) == holds' = [holds EXCEPT ![t] = "none"] /\ UNCHANGED open

Close == open' = FALSE /\ UNCHANGED holds

\* Nothing is promised once it is closed.
Anything == ~open /\ UNCHANGED open

RWNext == \/ \E t \in Threads : \/ \E mode \in {"read", "write"} : Acquire(t, mode)
                                \/ Release(t)
          \/ Close \/ Anything

RWSpec == RWInit /\ [][RWNext]_<<holds, open>>

=============================================================================
