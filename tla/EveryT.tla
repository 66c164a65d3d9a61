------------------------------- MODULE EveryT -------------------------------
(***************************************************************************)
(* LOG_EVERY_T of googlelog/logging.h.in, as built with C++11 chrono and   *)
(* atomics, beside the macros of OccasionalLog: one site executed by       *)
(* several threads. The time of the last message is loaded and stored by   *)
(* relaxed atomic accesses of their own, with the clock read before: every *)
(* access is a step.                                                       *)
(***************************************************************************)
EXTENDS OccasionalLog, SequencesExt

CONSTANTS Period,         \* LOG_TIME_PERIOD
          MaxClock,       \* bound: the last instant
          MaxTimers       \* bound: threads that execute the site

ASSUME PeriodAssumption == Period \in Nat /\ MaxClock \in Nat /\ MaxTimers \in Nat

VARIABLES clock,                  \* steady_clock, 0 when the machine started
          LOG_PREVIOUS_TIME_RAW,
          LOG_CURRENT_TIME,       \* of each thread
          messages,               \* history: the times of the messages, in
                                  \* the order they were decided on
          skipped                 \* history: the time of the last execution
                                  \* that logged nothing, or NULL

timeVars == <<clock, LOG_PREVIOUS_TIME_RAW, LOG_CURRENT_TIME, messages, skipped>>

countVars == <<macro, LOG_OCCURRENCES, LOG_OCCURRENCES_MOD_N, temp, sampled, logged>>

SiteInit ==
  /\ Init
  /\ clock \in IF macro = "EVERY_T" THEN 0..MaxClock ELSE {0}
  /\ LOG_PREVIOUS_TIME_RAW = 0
  /\ LOG_CURRENT_TIME = [t \in Threads |-> 0]
  /\ messages = <<>>
  /\ skipped = NULL

Tick == /\ macro = "EVERY_T" /\ clock < MaxClock
        /\ clock' = clock + 1
        /\ UNCHANGED <<LOG_PREVIOUS_TIME_RAW, LOG_CURRENT_TIME, messages, skipped, vars>>

\* steady_clock::now()
ReadClock(t) ==
  /\ macro = "EVERY_T" /\ Cardinality(Users \cup {t}) <= MaxTimers
  /\ Begin(t)
  /\ LOG_CURRENT_TIME' = [LOG_CURRENT_TIME EXCEPT ![t] = clock]
  /\ pc' = [pc EXCEPT ![t] = "load_time"]
  /\ UNCHANGED <<clock, LOG_PREVIOUS_TIME_RAW, messages, skipped, countVars>>

\* The last message is forgotten.
MutForgetPrevious(now, previous) == now > Period

Elapsed(now, previous) == now - previous > Period

\* The load of LOG_PREVIOUS_TIME_RAW and the test of LOG_TIME_DELTA.
LoadPrevious(t) ==
  /\ pc[t] = "load_time"
  /\ IF Elapsed(LOG_CURRENT_TIME[t], LOG_PREVIOUS_TIME_RAW)
       THEN /\ pc' = [pc EXCEPT ![t] = "store_time"]
            /\ messages' = Append(messages, LOG_CURRENT_TIME[t])
            /\ UNCHANGED <<LOG_CURRENT_TIME, skipped>>
       ELSE /\ pc' = [pc EXCEPT ![t] = "idle"]
            /\ LOG_CURRENT_TIME' = [LOG_CURRENT_TIME EXCEPT ![t] = 0]
            /\ skipped' = LOG_CURRENT_TIME[t]
            /\ UNCHANGED messages
  /\ UNCHANGED <<clock, LOG_PREVIOUS_TIME_RAW, executions, execution, countVars>>

\* The next period begins when this one was to end.
MutAddPeriod(t) == LOG_PREVIOUS_TIME_RAW + Period

\* The next period begins with the store.
MutStoreNow(t) == clock

NewPrevious(t) == LOG_CURRENT_TIME[t]

\* LOG_PREVIOUS_TIME_RAW.store(...); the message follows.
StorePrevious(t) ==
  /\ pc[t] = "store_time"
  /\ LOG_PREVIOUS_TIME_RAW' = NewPrevious(t)
  /\ LOG_CURRENT_TIME' = [LOG_CURRENT_TIME EXCEPT ![t] = 0]
  /\ pc' = [pc EXCEPT ![t] = "idle"]
  /\ UNCHANGED <<clock, executions, execution, messages, skipped, countVars>>

SiteNext == \/ Next /\ UNCHANGED timeVars
            \/ Tick
            \/ \E t \in Threads : ReadClock(t) \/ LoadPrevious(t) \/ StorePrevious(t)

SiteSpec == SiteInit /\ [][SiteNext]_<<vars, timeVars>>

-----------------------------------------------------------------------------
(* Properties *)

(* Every variable has its type, those of the counting macros included, and *)
(* the time of the last message is the time of some message, if not of the *)
(* last one.                                                               *)
TimeTypeOK ==
  /\ TypeOK
  /\ clock \in 0..MaxClock
  /\ LOG_PREVIOUS_TIME_RAW \in {0} \cup Range(messages)
  /\ LOG_CURRENT_TIME \in [Threads -> 0..MaxClock]
  /\ messages \in Seq(1..MaxClock)
  /\ skipped \in (0..MaxClock) \cup {NULL}

(* Nothing is kept back without reason, whatever threads overtake each     *)
(* other between clock, load and store, and although a slow thread may set *)
(* the time of the last message back: an execution that logs nothing is    *)
(* within the period of a message that is logged, or of the start of the   *)
(* machine.                                                                *)
SkipJustified ==
  skipped # NULL =>
    \/ skipped <= Period
    \/ \E i \in DOMAIN messages : skipped - messages[i] <= Period

(* The messages of one period are few. A thread that runs alone logs one.  *)
(* With others, each thread may once set the time of the last message back *)
(* with a time it read before the period began, and the threads that are   *)
(* not about to do so may then all log again: of T threads 1 + 2 + ... + T *)
(* messages at most.                                                       *)
BurstBounded ==
  LET T == Cardinality(Users)
  IN \A start \in 0..MaxClock :
       Cardinality({i \in DOMAIN messages :
                      messages[i] \in start..(start + Period)}) <= (T * (T + 1)) \div 2

=============================================================================
