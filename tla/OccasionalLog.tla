--------------------------- MODULE OccasionalLog ---------------------------
(***************************************************************************)
(* The occasional-logging macros of googlelog/logging.h.in, as built with  *)
(* C++11 atomics: one site of LOG_EVERY_N (which PLOG_EVERY_N,             *)
(* SYSLOG_EVERY_N and DLOG_EVERY_N share), LOG_IF_EVERY_N or LOG_FIRST_N,  *)
(* executed by several threads. Each access to one of the site's counters  *)
(* is atomic, an execution is not: every access is a step.                 *)
(* EveryT adds LOG_EVERY_T.                                                *)
(***************************************************************************)
EXTENDS Integers, Sequences, FiniteSets

CONSTANTS Threads,
          Macros,         \* the macros the site may be written with
          N,              \* the macro's argument n
          IntMax,         \* the greatest int
          MaxExecutions,  \* bound: how often the site is executed
          NULL

ASSUME ThreadsAssumption == IsFiniteSet(Threads) /\ Threads # {}

ASSUME MacrosAssumption ==
         Macros \subseteq {"EVERY_N", "IF_EVERY_N", "FIRST_N", "EVERY_T"}

ASSUME NAssumption == /\ N \in Nat \ {0} /\ MaxExecutions \in Nat
                      /\ IntMax \in Nat /\ N + Cardinality(Threads) <= IntMax

VARIABLES macro,                  \* the site's macro
          LOG_OCCURRENCES,
          LOG_OCCURRENCES_MOD_N,  \* of EVERY_N and IF_EVERY_N
          pc,
          temp,                   \* the value a thread has loaded, or NULL
          execution,              \* history: which execution a thread runs
          executions,             \* history: executions begun
          sampled,                \* history: those that IF_EVERY_N's condition let by
          logged                  \* history: the messages logged

vars == <<macro, LOG_OCCURRENCES, LOG_OCCURRENCES_MOD_N, pc, temp, execution,
          executions, sampled, logged>>

Init ==
  /\ macro \in Macros
  /\ LOG_OCCURRENCES = 0
  /\ LOG_OCCURRENCES_MOD_N = 0
  /\ pc = [t \in Threads |-> "idle"]
  /\ temp = [t \in Threads |-> NULL]
  /\ execution = [t \in Threads |-> 0]
  /\ executions = 0
  /\ sampled = <<>>
  /\ logged = <<>>

\* The value of an int that is incremented to v: atomics wrap around.
AsInt(v) == ((v + IntMax + 1) % (2 * IntMax + 2)) - IntMax - 1

Goto(t, label) == pc' = [pc EXCEPT ![t] = label]

\* The statement is over, or its message is logged next.
Decide(t, log) == /\ Goto(t, IF log THEN "log" ELSE "idle")
                  /\ temp' = [temp EXCEPT ![t] = NULL]

Begin(t) == /\ pc[t] = "idle" /\ executions < MaxExecutions
            /\ executions' = executions + 1
            /\ execution' = [execution EXCEPT ![t] = executions + 1]

-----------------------------------------------------------------------------
(* SOME_KIND_OF_LOG_EVERY_N *)

\* ++LOG_OCCURRENCES
CountOccurrence(t) ==
  /\ macro \in {"EVERY_N", "IF_EVERY_N"}
  /\ Begin(t)
  /\ LOG_OCCURRENCES' = AsInt(LOG_OCCURRENCES + 1)
  /\ Goto(t, IF macro = "EVERY_N" THEN "add" ELSE "condition")
  /\ UNCHANGED <<macro, LOG_OCCURRENCES_MOD_N, temp, sampled, logged>>

\* The counter runs to n + 1.
MutWrapLate(v) == v > N + 1

Wraps(v) == v > N

\* ++LOG_OCCURRENCES_MOD_N > n
AddModN(t) ==
  /\ pc[t] = "add"
  /\ LOG_OCCURRENCES_MOD_N' = LOG_OCCURRENCES_MOD_N + 1
  /\ Goto(t, IF Wraps(LOG_OCCURRENCES_MOD_N + 1) THEN "subtract" ELSE "compare")
  /\ UNCHANGED <<macro, LOG_OCCURRENCES, temp, execution, executions, sampled,
                 logged>>

\* The counter starts anew, whatever the others have added to it.
MutStartAnew(v) == 1

WrapAround(v) == v - N

\* LOG_OCCURRENCES_MOD_N -= n
SubtractModN(t) ==
  /\ pc[t] = "subtract"
  /\ LOG_OCCURRENCES_MOD_N' = WrapAround(LOG_OCCURRENCES_MOD_N)
  /\ Goto(t, "compare")
  /\ UNCHANGED <<macro, LOG_OCCURRENCES, temp, execution, executions, sampled,
                 logged>>

\* LOG_OCCURRENCES_MOD_N == 1
CompareModN(t) ==
  /\ pc[t] = "compare"
  /\ Decide(t, LOG_OCCURRENCES_MOD_N = 1)
  /\ UNCHANGED <<macro, LOG_OCCURRENCES, LOG_OCCURRENCES_MOD_N, execution,
                 executions, sampled, logged>>

-----------------------------------------------------------------------------
(* SOME_KIND_OF_LOG_IF_EVERY_N *)

\* (condition), and the load of LOG_OCCURRENCES_MOD_N when it is true.
Condition(t, holds) ==
  /\ pc[t] = "condition"
  /\ IF holds
       THEN /\ temp' = [temp EXCEPT ![t] = LOG_OCCURRENCES_MOD_N]
            /\ sampled' = Append(sampled, execution[t])
            /\ Goto(t, "store")
       ELSE /\ Goto(t, "idle")
            /\ UNCHANGED <<temp, sampled>>
  /\ UNCHANGED <<macro, LOG_OCCURRENCES, LOG_OCCURRENCES_MOD_N, execution,
                 executions, logged>>

\* (LOG_OCCURRENCES_MOD_N=(LOG_OCCURRENCES_MOD_N + 1) % n) == (1 % n), of
\* the value stored.
StoreModN(t) ==
  /\ pc[t] = "store"
  /\ LOG_OCCURRENCES_MOD_N' = (temp[t] + 1) % N
  /\ Decide(t, LOG_OCCURRENCES_MOD_N' = 1 % N)
  /\ UNCHANGED <<macro, LOG_OCCURRENCES, execution, executions, sampled, logged>>

-----------------------------------------------------------------------------
(* SOME_KIND_OF_LOG_FIRST_N *)

Counted(v) == v <= N

\* if (LOG_OCCURRENCES <= n)
TestFirst(t) ==
  /\ macro = "FIRST_N"
  /\ Begin(t)
  /\ temp' = [temp EXCEPT ![t] = LOG_OCCURRENCES]
  /\ Goto(t, IF Counted(LOG_OCCURRENCES) THEN "increment" ELSE "compare_first")
  /\ UNCHANGED <<macro, LOG_OCCURRENCES, LOG_OCCURRENCES_MOD_N, sampled, logged>>

\*   ++LOG_OCCURRENCES;
Increment(t) ==
  /\ pc[t] = "increment"
  /\ LOG_OCCURRENCES' = AsInt(LOG_OCCURRENCES + 1)
  /\ Goto(t, "compare_first")
  /\ UNCHANGED <<macro, LOG_OCCURRENCES_MOD_N, temp, execution, executions,
                 sampled, logged>>

\* The value loaded for the first test is used again for the second.
MutTestOnce(t) == temp[t] < N

AmongFirst(t) == LOG_OCCURRENCES <= N

CompareFirst(t) ==
  /\ pc[t] = "compare_first"
  /\ Decide(t, AmongFirst(t))
  /\ UNCHANGED <<macro, LOG_OCCURRENCES, LOG_OCCURRENCES_MOD_N, execution,
                 executions, sampled, logged>>

-----------------------------------------------------------------------------
\* LogMessage(..., LOG_OCCURRENCES, ...): COUNTER is loaded again.
Log(t) ==
  /\ pc[t] = "log"
  /\ logged' = Append(logged, [execution |-> execution[t],
                               counter |-> LOG_OCCURRENCES])
  /\ Goto(t, "idle")
  /\ UNCHANGED <<macro, LOG_OCCURRENCES, LOG_OCCURRENCES_MOD_N, temp, execution,
                 executions, sampled>>

Next == \E t \in Threads :
          \/ CountOccurrence(t) \/ AddModN(t) \/ SubtractModN(t) \/ CompareModN(t)
          \/ \E holds \in BOOLEAN : Condition(t, holds)
          \/ StoreModN(t)
          \/ TestFirst(t) \/ Increment(t) \/ CompareFirst(t)
          \/ Log(t)

Spec == Init /\ [][Next]_vars

-----------------------------------------------------------------------------
(* Properties *)

Quiet == \A t \in Threads : pc[t] = "idle"

Inside(labels) == {t \in Threads : pc[t] \in labels}

Pcs == {"idle", "add", "subtract", "compare", "condition", "store", "increment",
        "compare_first", "log", "load_time", "store_time"}

(* Every variable has its type; and whatever the threads do, LOG_FIRST_N's *)
(* counter stops: it cannot pass n by more than one increment a thread, so *)
(* it never overflows, and LOG_IF_EVERY_N's stays a remainder.             *)
TypeOK ==
  /\ macro \in Macros
  /\ LOG_OCCURRENCES \in (-IntMax - 1)..IntMax
  /\ macro = "FIRST_N" => LOG_OCCURRENCES \in 0..(N + Cardinality(Threads))
  /\ LOG_OCCURRENCES_MOD_N \in Int
  /\ macro = "IF_EVERY_N" => LOG_OCCURRENCES_MOD_N \in 0..(N - 1)
  /\ pc \in [Threads -> Pcs]
  /\ temp \in [Threads -> Nat \cup {NULL}]
  /\ execution \in [Threads -> 0..MaxExecutions]
  /\ executions \in 0..MaxExecutions
  /\ sampled \in Seq(1..MaxExecutions)
  /\ logged \in Seq([execution : 1..MaxExecutions, counter : (-IntMax - 1)..IntMax])

(* However LOG_FIRST_N's test, its increment and its second test           *)
(* interleave, it never logs more than n messages, as a thread that logs   *)
(* has counted itself before the counter passed n; and of the first n it   *)
(* loses less than one for each thread. That it can lose some is not what  *)
(* googlelog/logging.h.in:237 says: "Outputs log messages for the first 20 *)
(* times it is executed".                                                  *)
FirstNWithin ==
  macro = "FIRST_N" =>
    /\ Len(logged) + Cardinality(Inside({"log"})) <= N
    /\ Quiet => Len(logged) + Cardinality(Threads) >
                  (IF executions < N THEN executions ELSE N)

(* LOG_EVERY_N's sampling keeps its phase: after any storm of threads that *)
(* wrap the counter at the same time, once the site is quiet the counter   *)
(* is at most n and congruent to the number of occurrences, so that a      *)
(* thread that comes alone logs on no other than the 1st, n+1st, 2n+1st... *)
(* occurrence; and of these it has lost less than one for each thread.     *)
PhaseKept ==
  macro = "EVERY_N" /\ Quiet =>
    /\ LOG_OCCURRENCES_MOD_N <= N
    /\ (executions - LOG_OCCURRENCES_MOD_N) % N = 0
    /\ executions = 0 \/ LOG_OCCURRENCES_MOD_N > N - N * Cardinality(Threads)

\* The executions the documentation says are logged.
Due(k) == CASE macro = "EVERY_N" -> (k - 1) % N = 0
            [] macro = "FIRST_N" -> k <= N
            [] macro = "IF_EVERY_N" ->
                 \E i \in DOMAIN sampled : sampled[i] = k /\ (i - 1) % N = 0

LoggedExecutions == {logged[i].execution : i \in DOMAIN logged}

\* The threads that have executed the site.
Users == {t \in Threads : execution[t] # 0}

(* A site that one thread executes, of however many, logs when             *)
(* googlelog/logging.h.in:218-237 says: the 1st, n+1st, 2n+1st... time, of *)
(* those with the condition for LOG_IF_EVERY_N, or the first n times, each *)
(* once. COUNTER is the number of the execution as an int: when it has     *)
(* overflowed, COUNTER is negative and nothing else changes. For           *)
(* LOG_IF_EVERY_N that is not what logging.h.in:230-231 tells, with "Got   *)
(* the COUNTERth big cookie": LOG_OCCURRENCES is incremented before the    *)
(* condition is looked at (logging.h.in:1093-1095), so COUNTER numbers the *)
(* executions whose condition failed as well, all cookies and not the big  *)
(* ones.                                                                   *)
ExactWhenAlone ==
  macro # "EVERY_T" /\ Cardinality(Users) = 1 /\ Quiet =>
    /\ LoggedExecutions = {k \in 1..executions : Due(k)}
    /\ Cardinality(LoggedExecutions) = Len(logged)
    /\ \A i \in DOMAIN logged : logged[i].counter = AsInt(logged[i].execution)

=============================================================================
