------------------------ MODULE OccasionalLogProofs ------------------------
(***************************************************************************)
(* Proofs about OccasionalLog with EveryT, for any number of threads, any  *)
(* n, any period, any int and any number of executions: what LOG_FIRST_N   *)
(* and LOG_EVERY_N keep when threads race, that LOG_EVERY_T keeps nothing  *)
(* back without reason and bounds its bursts, and that a site which one    *)
(* thread executes does just what is documented.                           *)
(***************************************************************************)
EXTENDS EveryT, FiniteSetTheorems, TLAPS

\* How many threads are at a label.
Count(label) == Cardinality(Inside({label}))

(* What the labels of a thread say: its macro, that it runs an execution,  *)
(* and that LOG_IF_EVERY_N has loaded what it is going to store.           *)
LabelsOK ==
  \A t \in Threads :
    /\ pc[t] \in {"add", "subtract", "compare"} => macro = "EVERY_N"
    /\ pc[t] \in {"condition", "store"} => macro = "IF_EVERY_N"
    /\ pc[t] \in {"increment", "compare_first"} => macro = "FIRST_N"
    /\ pc[t] \in {"load_time", "store_time"} => macro = "EVERY_T"
    /\ pc[t] = "log" => macro # "EVERY_T"
    /\ pc[t] # "idle" => execution[t] >= 1
    /\ pc[t] = "store" => temp[t] \in Nat

(* LOG_FIRST_N: while the counter has not passed n, it counts the threads  *)
(* that have logged or still may. When it passes n, the ones that have not *)
(* made their second test are the only ones that lose their message.       *)
FirstNInv ==
  macro = "FIRST_N" =>
    /\ LOG_OCCURRENCES \in Nat
    /\ LOG_OCCURRENCES + Count("increment") <= N + Cardinality(Threads)
    /\ Len(logged) + Count("log") <= N
    /\ LOG_OCCURRENCES <= N =>
         /\ Len(logged) + Count("log") + Count("compare_first") = LOG_OCCURRENCES
         /\ executions = LOG_OCCURRENCES + Count("increment")
    /\ LOG_OCCURRENCES > N =>
         Len(logged) + Count("log") + Cardinality(Threads) > N

(* LOG_EVERY_N: once the additions and subtractions that threads are about *)
(* to make are made, the counter is congruent to the executions, at most n *)
(* and, if anyone has counted, above n - n T.                              *)
PhaseInv ==
  macro = "EVERY_N" =>
    LET settled == LOG_OCCURRENCES_MOD_N - N * Count("subtract")
    IN /\ \E k \in Nat : executions = Count("add") + LOG_OCCURRENCES_MOD_N + N * k
       /\ settled <= N
       /\ \/ settled > N - N * Cardinality(Threads)
          \/ /\ executions = Count("add")
             /\ LOG_OCCURRENCES_MOD_N = 0 /\ Count("subtract") = 0

(* LOG_EVERY_T: the time a thread is about to store is that of a message. *)
StoresMessageTime ==
  \A t \in Threads : pc[t] = "store_time" => LOG_CURRENT_TIME[t] \in Range(messages)

IInv == /\ TimeTypeOK /\ LabelsOK /\ FirstNInv /\ PhaseInv
        /\ StoresMessageTime /\ SkipJustified

-----------------------------------------------------------------------------
(* Facts about counting threads, and about the int's arithmetic. *)

\* There are finitely many threads, and some.
LEMMA ThreadsCount == Cardinality(Threads) \in Nat /\ Cardinality(Threads) >= 1
<1>1. IsFiniteSet(Threads) /\ Cardinality(Threads) \in Nat /\ Cardinality(Threads) # 0
  BY ThreadsAssumption, FS_CardinalityType, FS_EmptySet
<1> QED BY <1>1

\* A count is a number of threads.
LEMMA CountType ==
  ASSUME NEW label
  PROVE  /\ IsFiniteSet(Inside({label}))
         /\ Count(label) \in Nat
         /\ Count(label) <= Cardinality(Threads)
         /\ Cardinality(Threads) \in Nat /\ Cardinality(Threads) >= 1
<1>1. IsFiniteSet(Threads) /\ Cardinality(Threads) \in Nat /\ Cardinality(Threads) # 0
  BY ThreadsAssumption, FS_CardinalityType, FS_EmptySet
<1>2. Inside({label}) \in SUBSET Threads
  BY DEF Inside
<1>3. IsFiniteSet(Inside({label})) /\ Count(label) <= Cardinality(Threads)
  BY <1>1, <1>2, FS_Subset, ThreadsAssumption DEF Count
<1>4. Count(label) \in Nat
  BY <1>3, FS_CardinalityType DEF Count
<1> QED BY <1>1, <1>3, <1>4

\* A thread that is elsewhere is not counted.
LEMMA CountWithout ==
  ASSUME NEW label, NEW t \in Threads, pc[t] # label
  PROVE  Count(label) <= Cardinality(Threads) - 1
<1>1. Inside({label}) \in SUBSET (Threads \ {t})
  BY DEF Inside
<1>2. /\ IsFiniteSet(Threads \ {t})
      /\ Cardinality(Threads \ {t}) = Cardinality(Threads) - 1
  BY ThreadsAssumption, FS_RemoveElement
<1>3. Count(label) <= Cardinality(Threads \ {t})
  BY <1>1, <1>2, FS_Subset DEF Count
<1> QED BY <1>2, <1>3

\* A thread at a label is counted.
LEMMA CountHere ==
  ASSUME NEW label, NEW t \in Threads, pc[t] = label
  PROVE  Count(label) >= 1
<1>1. t \in Inside({label})
  BY DEF Inside
<1>2. Count(label) \in Nat /\ IsFiniteSet(Inside({label}))
  BY CountType
<1>3. Count(label) # 0
  BY <1>1, <1>2, FS_EmptySet DEF Count
<1> QED BY <1>2, <1>3

\* A quiet site has nobody inside.
LEMMA CountQuiet ==
  ASSUME NEW label, Quiet, label # "idle"
  PROVE  Count(label) = 0
<1>1. Inside({label}) = {}
  BY DEF Inside, Quiet
<1> QED BY <1>1, FS_EmptySet DEF Count

\* Thread t moves from a label to another, and no other thread moves.
Moves(t, from, to) == /\ t \in Threads /\ pc \in [Threads -> Pcs]
                      /\ pc[t] = from /\ pc' = [pc EXCEPT ![t] = to]

\* When a thread moves, the counts of the label it leaves and reaches change.
LEMMA CountStep ==
  ASSUME NEW label, NEW t, NEW from, NEW to, Moves(t, from, to)
  PROVE  /\ from = label /\ to = label => Count(label)' = Count(label)
         /\ from = label /\ to # label => Count(label)' = Count(label) - 1
         /\ from # label /\ to = label => Count(label)' = Count(label) + 1
         /\ from # label /\ to # label => Count(label)' = Count(label)
<1>1. IsFiniteSet(Inside({label})) /\ Count(label) \in Nat
  BY CountType
<1>2. /\ t \in Threads /\ pc \in [Threads -> Pcs]
      /\ pc[t] = from /\ pc' = [pc EXCEPT ![t] = to]
      /\ t \in Inside({label}) <=> from = label
  BY DEF Inside, Moves
<1>3. CASE from = label /\ to = label
  <2>1. Inside({label})' = Inside({label})
    BY <1>2, <1>3 DEF Inside
  <2> QED BY <1>1, <1>3, <2>1 DEF Count
<1>4. CASE from = label /\ to # label
  <2>1. Inside({label})' = Inside({label}) \ {t}
    BY <1>2, <1>4 DEF Inside
  <2>2. Cardinality(Inside({label}) \ {t}) = Cardinality(Inside({label})) - 1
    BY <1>1, <1>2, <1>4, FS_RemoveElement
  <2> QED BY <1>1, <1>4, <2>1, <2>2 DEF Count
<1>5. CASE from # label /\ to = label
  <2>1. Inside({label})' = Inside({label}) \cup {t}
    BY <1>2, <1>5 DEF Inside
  <2>2. Cardinality(Inside({label}) \cup {t}) = Cardinality(Inside({label})) + 1
    BY <1>1, <1>2, <1>5, FS_AddElement
  <2> QED BY <1>1, <1>5, <2>1, <2>2 DEF Count
<1>6. CASE from # label /\ to # label
  <2>1. Inside({label})' = Inside({label})
    BY <1>2, <1>6 DEF Inside
  <2> QED BY <1>1, <1>6, <2>1 DEF Count
<1> QED BY <1>3, <1>4, <1>5, <1>6

\* An int that a thread increments is an int, and wraps around only at its end.
LEMMA AsIntFacts ==
  ASSUME NEW v \in Int
  PROVE  /\ AsInt(v) \in (-IntMax - 1)..IntMax
         /\ v \in 0..IntMax => AsInt(v) = v
<1> DEFINE m == 2 * IntMax + 2
<1>1. m \in Nat \ {0} /\ IntMax \in Nat
  BY NAssumption
<1>2. (v + IntMax + 1) % m \in 0..(m - 1)
  BY <1>1
<1>3. ASSUME NEW x \in 0..(m - 1) PROVE x % m = x
  BY <1>1, <1>3
<1> HIDE DEF m
<1>4. (v + IntMax + 1) % m \in 0..(2 * IntMax + 1)
  BY <1>1, <1>2 DEF m
<1>5. v \in 0..IntMax => (v + IntMax + 1) % m = v + IntMax + 1
  BY <1>1, <1>3 DEF m
<1>6. AsInt(v) = ((v + IntMax + 1) % m) - IntMax - 1
  BY DEF AsInt, m
<1> QED BY <1>1, <1>4, <1>5, <1>6

\* A number is a multiple of m and its remainder.
LEMMA Division ==
  ASSUME NEW m \in Nat \ {0}, NEW x \in Int
  PROVE  /\ x = m * (x \div m) + (x % m)
         /\ x \div m \in Int /\ x % m \in 0..(m - 1)
<1>1. x = m * (x \div m) + (x % m)
  OBVIOUS
<1>2. x \div m \in Int /\ x % m \in 0..(m - 1)
  OBVIOUS
<1> QED BY <1>1, <1>2

\* Multiples of n leave no remainder.
LEMMA MultipleOfN ==
  ASSUME NEW k \in Nat
  PROVE  (N * k) % N = 0
<1>1. N \in Nat \ {0} /\ N * k \in Int
  BY NAssumption
<1>2. PICK x \in Int : x = N * k
  BY <1>1
<1> DEFINE q == x \div N
           r == x % N
<1>3. q \in Int /\ r \in 0..(N - 1) /\ x = N * q + r
  BY <1>1, Division
<1> HIDE DEF q, r
<1>4. r = N * (k - q)
  BY <1>1, <1>2, <1>3
<1>5. k - q = 0
  <2>1. k - q >= 1 => N * (k - q) >= N
    BY <1>1, <1>3
  <2>2. k - q <= -1 => N * (k - q) <= -N
    BY <1>1, <1>3
  <2> QED BY <1>1, <1>3, <1>4, <2>1, <2>2
<1> QED BY <1>1, <1>2, <1>4, <1>5 DEF r

-----------------------------------------------------------------------------
(* Initially. *)

\* Init and SiteInit establish the invariant.
LEMMA InitInv == SiteInit => IInv
<1> SUFFICES ASSUME SiteInit PROVE IInv
  OBVIOUS
<1> USE DEF SiteInit, Init
<1>1. /\ N \in Nat \ {0} /\ IntMax \in Nat /\ MaxExecutions \in Nat
      /\ Cardinality(Threads) \in Nat /\ Cardinality(Threads) >= 1
  BY NAssumption, CountType
<1>2. \A label : label # "idle" => Count(label) = 0
  BY CountQuiet DEF Quiet
<1>3. Count("add") = 0 /\ Count("subtract") = 0 /\ Count("log") = 0
      /\ Count("compare_first") = 0 /\ Count("increment") = 0
  BY <1>2
<1>4. TypeOK
  BY <1>1 DEF TypeOK, Pcs
<1>5. TimeTypeOK
  BY <1>4, PeriodAssumption DEF TimeTypeOK
<1>6. LabelsOK
  BY DEF LabelsOK
<1>7. FirstNInv
  BY <1>1, <1>3 DEF FirstNInv
<1>8. PhaseInv
  <2>1. 0 = Count("add") + LOG_OCCURRENCES_MOD_N + N * 0
    BY <1>1, <1>3
  <2>2. LOG_OCCURRENCES_MOD_N - N * Count("subtract") = 0
    BY <1>1, <1>3
  <2> QED BY <1>1, <1>3, <2>1, <2>2 DEF PhaseInv
<1>9. StoresMessageTime /\ SkipJustified
  BY DEF StoresMessageTime, SkipJustified
<1> QED BY <1>5, <1>6, <1>7, <1>8, <1>9 DEF IInv

-----------------------------------------------------------------------------
(* Types and labels. *)

\* A step of a counting macro keeps the types and the labels.
LEMMA CountingTypes ==
  ASSUME IInv, NEW t \in Threads,
         \/ CountOccurrence(t) \/ AddModN(t) \/ SubtractModN(t) \/ CompareModN(t)
         \/ \E holds \in BOOLEAN : Condition(t, holds)
         \/ StoreModN(t)
         \/ TestFirst(t) \/ Increment(t) \/ CompareFirst(t)
         \/ Log(t)
  PROVE  TypeOK' /\ LabelsOK'
<1> USE DEF IInv, TimeTypeOK, Goto
<1>0. /\ N \in Nat \ {0} /\ IntMax \in Nat /\ MaxExecutions \in Nat
      /\ Cardinality(Threads) \in Nat /\ Cardinality(Threads) >= 1
      /\ N + Cardinality(Threads) <= IntMax
  BY NAssumption, CountType
<1>1. CASE CountOccurrence(t)
  <2>0. LOG_OCCURRENCES + 1 \in Int
    BY <1>0 DEF TypeOK
  <2>1. AsInt(LOG_OCCURRENCES + 1) \in (-IntMax - 1)..IntMax
    BY <2>0, AsIntFacts
  <2>2. /\ \/ macro = "EVERY_N" /\ pc' = [pc EXCEPT ![t] = "add"]
           \/ macro = "IF_EVERY_N" /\ pc' = [pc EXCEPT ![t] = "condition"]
        /\ executions' = executions + 1 /\ executions < MaxExecutions
        /\ execution' = [execution EXCEPT ![t] = executions + 1]
        /\ LOG_OCCURRENCES' = AsInt(LOG_OCCURRENCES + 1)
        /\ UNCHANGED <<macro, LOG_OCCURRENCES_MOD_N, temp, sampled, logged>>
    BY <1>1 DEF CountOccurrence, Begin
  <2>3. /\ pc' \in [Threads -> Pcs] /\ execution' \in [Threads -> 0..MaxExecutions]
        /\ executions' \in 0..MaxExecutions
    <3>1. "add" \in Pcs /\ "condition" \in Pcs /\ pc \in [Threads -> Pcs]
      BY DEF Pcs, TypeOK
    <3>2. pc' \in [Threads -> Pcs]
      BY <2>2, <3>1
    <3>3. executions + 1 \in 0..MaxExecutions
      BY <1>0, <2>2 DEF TypeOK
    <3> QED BY <2>2, <3>2, <3>3 DEF TypeOK
  <2>4. TypeOK'
    BY <1>0, <2>1, <2>2, <2>3 DEF TypeOK
  <2>5. LabelsOK'
    BY <1>0, <2>2 DEF TypeOK, LabelsOK
  <2> QED BY <2>4, <2>5
<1>2. CASE AddModN(t)
  BY <1>0, <1>2 DEF TypeOK, LabelsOK, AddModN, Pcs
<1>3. CASE SubtractModN(t)
  BY <1>0, <1>3 DEF TypeOK, LabelsOK, SubtractModN, WrapAround, Pcs
<1>4. CASE CompareModN(t)
  BY <1>0, <1>4 DEF TypeOK, LabelsOK, CompareModN, Decide, Pcs
<1>5. CASE \E holds \in BOOLEAN : Condition(t, holds)
  <2>1. /\ macro = "IF_EVERY_N" /\ LOG_OCCURRENCES_MOD_N \in 0..(N - 1)
        /\ execution[t] \in 1..MaxExecutions
    BY <1>0, <1>5 DEF TypeOK, LabelsOK, Condition
  <2>2. Append(sampled, execution[t]) \in Seq(1..MaxExecutions)
    BY <2>1 DEF TypeOK
  <2>3. /\ \/ /\ temp' = [temp EXCEPT ![t] = LOG_OCCURRENCES_MOD_N]
              /\ sampled' = Append(sampled, execution[t])
              /\ pc' = [pc EXCEPT ![t] = "store"]
           \/ pc' = [pc EXCEPT ![t] = "idle"] /\ UNCHANGED <<temp, sampled>>
        /\ UNCHANGED <<macro, LOG_OCCURRENCES, LOG_OCCURRENCES_MOD_N, execution,
                       executions, logged>>
    BY <1>5 DEF Condition
  <2>4. /\ pc' \in [Threads -> Pcs] /\ temp' \in [Threads -> Nat \cup {NULL}]
        /\ sampled' \in Seq(1..MaxExecutions)
    <3>1. "store" \in Pcs /\ "idle" \in Pcs /\ pc \in [Threads -> Pcs]
      BY DEF Pcs, TypeOK
    <3>2. pc' \in [Threads -> Pcs]
      BY <2>3, <3>1
    <3>3. LOG_OCCURRENCES_MOD_N \in Nat
      BY <1>0, <2>1
    <3> QED BY <2>2, <2>3, <3>2, <3>3 DEF TypeOK
  <2>5. TypeOK'
    BY <1>0, <2>1, <2>3, <2>4 DEF TypeOK
  <2>6. LabelsOK'
    BY <1>0, <2>1, <2>3 DEF TypeOK, LabelsOK
  <2> QED BY <2>5, <2>6
<1>6. CASE StoreModN(t)
  <2>1. temp[t] \in Nat /\ macro = "IF_EVERY_N"
    BY <1>6 DEF LabelsOK, StoreModN
  <2>2. (temp[t] + 1) % N \in 0..(N - 1)
    BY <1>0, <2>1
  <2> QED BY <1>0, <1>6, <2>1, <2>2 DEF TypeOK, LabelsOK, StoreModN, Decide, Pcs
<1>7. CASE TestFirst(t)
  BY <1>0, <1>7 DEF TypeOK, LabelsOK, TestFirst, Begin, Pcs
<1>8. CASE Increment(t)
  <2>1. /\ macro = "FIRST_N" /\ LOG_OCCURRENCES \in Nat
        /\ LOG_OCCURRENCES + Count("increment") <= N + Cardinality(Threads)
    BY <1>8 DEF LabelsOK, Increment, FirstNInv
  <2>2. Count("increment") >= 1
    BY <1>8, CountHere DEF Increment
  <2>3. LOG_OCCURRENCES + 1 \in 0..(N + Cardinality(Threads))
    <3>1. Count("increment") \in Nat
      BY CountType
    <3> QED BY <1>0, <2>1, <2>2, <3>1
  <2>4. AsInt(LOG_OCCURRENCES + 1) = LOG_OCCURRENCES + 1
    BY <1>0, <2>3, AsIntFacts
  <2> QED BY <1>0, <1>8, <2>1, <2>3, <2>4 DEF TypeOK, LabelsOK, Increment, Pcs
<1>9. CASE CompareFirst(t)
  BY <1>0, <1>9 DEF TypeOK, LabelsOK, CompareFirst, Decide, Pcs
<1>10. CASE Log(t)
  <2>1. [execution |-> execution[t], counter |-> LOG_OCCURRENCES]
          \in [execution : 1..MaxExecutions, counter : (-IntMax - 1)..IntMax]
    BY <1>10 DEF TypeOK, LabelsOK, Log
  <2> QED BY <1>0, <1>10, <2>1 DEF TypeOK, LabelsOK, Log, Pcs
<1> QED BY <1>1, <1>2, <1>3, <1>4, <1>5, <1>6, <1>7, <1>8, <1>9, <1>10

\* A step of LOG_EVERY_T, or of the clock, keeps the types and the labels, the
\* time stored is that of a message, and what is kept back is kept back rightly.
LEMMA EveryTInv ==
  ASSUME IInv, Tick \/ \E t \in Threads : ReadClock(t) \/ LoadPrevious(t) \/ StorePrevious(t)
  PROVE  TimeTypeOK' /\ LabelsOK' /\ StoresMessageTime' /\ SkipJustified'
<1> USE DEF IInv, TimeTypeOK, countVars
<1>0. /\ N \in Nat \ {0} /\ IntMax \in Nat /\ MaxExecutions \in Nat
      /\ Period \in Nat /\ MaxClock \in Nat
      /\ Cardinality(Threads) \in Nat /\ Cardinality(Threads) >= 1
  BY NAssumption, PeriodAssumption, CountType
<1>1. CASE Tick
  BY <1>0, <1>1 DEF Tick, vars, TypeOK, LabelsOK, StoresMessageTime, SkipJustified
<1>2. ASSUME NEW t \in Threads, ReadClock(t)
      PROVE  TimeTypeOK' /\ LabelsOK' /\ StoresMessageTime' /\ SkipJustified'
  <2>1. TimeTypeOK'
    BY <1>0, <1>2 DEF ReadClock, Begin, TypeOK, Pcs
  <2>2. LabelsOK'
    BY <1>0, <1>2 DEF ReadClock, Begin, TypeOK, LabelsOK
  <2>3. StoresMessageTime' /\ SkipJustified'
    BY <1>0, <1>2 DEF ReadClock, Begin, TypeOK, StoresMessageTime, SkipJustified
  <2> QED BY <2>1, <2>2, <2>3
<1>3. ASSUME NEW t \in Threads, LoadPrevious(t)
      PROVE  TimeTypeOK' /\ LabelsOK' /\ StoresMessageTime' /\ SkipJustified'
  <2> DEFINE now == LOG_CURRENT_TIME[t]
  <2>1. now \in 0..MaxClock /\ LOG_PREVIOUS_TIME_RAW \in 0..MaxClock
    BY <1>0 DEF Range
  <2>2. CASE Elapsed(now, LOG_PREVIOUS_TIME_RAW)
    <3>1. now \in 1..MaxClock
      BY <1>0, <2>1, <2>2 DEF Elapsed
    <3>2. /\ messages' = Append(messages, now) /\ UNCHANGED <<LOG_CURRENT_TIME, skipped>>
          /\ pc' = [pc EXCEPT ![t] = "store_time"]
      BY <1>3, <2>2 DEF LoadPrevious
    <3>3. /\ messages' \in Seq(1..MaxClock) /\ Len(messages') = Len(messages) + 1
          /\ \A i \in 1..Len(messages) : messages'[i] = messages[i]
          /\ messages'[Len(messages) + 1] = now
      BY <3>1, <3>2
    <3>4. now \in Range(messages') /\ Range(messages) \subseteq Range(messages')
      BY <3>3 DEF Range
    <3>5. TimeTypeOK' /\ LabelsOK'
      BY <1>0, <1>3, <3>2, <3>3, <3>4 DEF LoadPrevious, TypeOK, Pcs, LabelsOK
    <3>6. StoresMessageTime'
      BY <3>2, <3>4 DEF StoresMessageTime, TypeOK
    <3>7. SkipJustified'
      BY <3>2, <3>3 DEF SkipJustified
    <3> QED BY <3>5, <3>6, <3>7
  <2>3. CASE ~Elapsed(now, LOG_PREVIOUS_TIME_RAW)
    <3>1. /\ pc' = [pc EXCEPT ![t] = "idle"]
          /\ LOG_CURRENT_TIME' = [LOG_CURRENT_TIME EXCEPT ![t] = 0]
          /\ skipped' = now /\ UNCHANGED messages
      BY <1>3, <2>3 DEF LoadPrevious
    <3>2. TimeTypeOK' /\ LabelsOK' /\ StoresMessageTime'
      BY <1>0, <1>3, <2>1, <3>1
         DEF LoadPrevious, TypeOK, Pcs, LabelsOK, StoresMessageTime
    <3>3. now - LOG_PREVIOUS_TIME_RAW <= Period
      BY <1>0, <2>1, <2>3 DEF Elapsed
    <3>4. SkipJustified'
      BY <2>1, <3>1, <3>3 DEF SkipJustified, Range
    <3> QED BY <3>2, <3>4
  <2> QED BY <2>2, <2>3
<1>4. ASSUME NEW t \in Threads, StorePrevious(t)
      PROVE  TimeTypeOK' /\ LabelsOK' /\ StoresMessageTime' /\ SkipJustified'
  BY <1>0, <1>4 DEF StorePrevious, NewPrevious, TypeOK, Pcs, LabelsOK, StoresMessageTime,
     SkipJustified
<1> QED BY <1>1, <1>2, <1>3, <1>4

-----------------------------------------------------------------------------
(* LOG_FIRST_N and LOG_EVERY_N. *)

\* The steps of LOG_FIRST_N keep its invariant.
LEMMA FirstNStep ==
  ASSUME IInv, TypeOK', macro = "FIRST_N", NEW t \in Threads,
         TestFirst(t) \/ Increment(t) \/ CompareFirst(t) \/ Log(t)
  PROVE  FirstNInv'
<1> DEFINE T == Cardinality(Threads)
           logging == Count("log")
           comparing == Count("compare_first")
           incrementing == Count("increment")
           C == LOG_OCCURRENCES
<1>1. /\ N \in Nat \ {0} /\ T \in Nat /\ T >= 1 /\ T' = T
      /\ logging \in Nat /\ comparing \in Nat /\ incrementing \in Nat
      /\ N + T <= IntMax /\ IntMax \in Nat
  BY NAssumption, CountType
<1>2. /\ pc \in [Threads -> Pcs] /\ executions \in Nat
      /\ Len(logged) \in Nat /\ macro' = macro
  BY DEF IInv, TimeTypeOK, TypeOK, TestFirst, Increment, CompareFirst, Log
<1>3. /\ C \in Nat
      /\ C + incrementing <= N + T
      /\ Len(logged) + logging <= N
      /\ C <= N => /\ Len(logged) + logging + comparing = C
                   /\ executions = C + incrementing
      /\ C > N => Len(logged) + logging + T > N
  BY DEF IInv, FirstNInv
<1> SUFFICES
      /\ C' \in Nat
      /\ C' + incrementing' <= N + T
      /\ Len(logged)' + logging' <= N
      /\ C' <= N => /\ Len(logged)' + logging' + comparing' = C'
                    /\ executions' = C' + incrementing'
      /\ C' > N => Len(logged)' + logging' + T > N
  BY <1>1 DEF FirstNInv
<1> HIDE DEF T, logging, comparing, incrementing, C
<1>4. CASE TestFirst(t)
  <2>1. C' = C /\ logged' = logged /\ executions' = executions + 1 /\ pc[t] = "idle"
    BY <1>4 DEF TestFirst, Begin, C
  <2>2. CASE C <= N
    <3>0. Counted(LOG_OCCURRENCES)
      BY <2>2 DEF Counted, C
    <3>1. Moves(t, "idle", "increment")
      BY <1>2, <1>4, <2>1, <3>0 DEF TestFirst, Goto, Moves
    <3>2. logging' = logging /\ comparing' = comparing /\ incrementing' = incrementing + 1
      BY <3>1, CountStep DEF logging, comparing, incrementing
    <3>3. incrementing <= T - 1
      BY <2>1, CountWithout DEF incrementing, T
    <3> QED BY <1>1, <1>2, <1>3, <2>1, <2>2, <3>2, <3>3
  <2>3. CASE C > N
    <3>0. ~Counted(LOG_OCCURRENCES)
      BY <1>1, <1>3, <2>3 DEF Counted, C
    <3>1. Moves(t, "idle", "compare_first")
      BY <1>2, <1>4, <2>1, <3>0 DEF TestFirst, Goto, Moves
    <3>2. logging' = logging /\ incrementing' = incrementing
      BY <3>1, CountStep DEF logging, incrementing
    <3> QED BY <1>1, <1>2, <1>3, <2>1, <2>3, <3>2
  <2> QED BY <1>1, <1>3, <2>2, <2>3
<1>5. CASE Increment(t)
  <2>1. /\ C' = AsInt(C + 1) /\ logged' = logged /\ executions' = executions
        /\ pc[t] = "increment" /\ Moves(t, "increment", "compare_first")
    BY <1>2, <1>5 DEF Increment, Goto, C, Moves
  <2>2. /\ logging' = logging /\ comparing' = comparing + 1
        /\ incrementing' = incrementing - 1
    BY <2>1, CountStep DEF logging, comparing, incrementing
  <2>3. incrementing' \in Nat
    <3>1. incrementing >= 1
      BY <2>1, CountHere DEF incrementing, Moves
    <3> QED BY <1>1, <2>2, <3>1
  <2>4. C' = C + 1
    BY <1>1, <1>3, <2>1, <2>2, <2>3, AsIntFacts
  <2>5. comparing <= T - 1
    BY <2>1, CountWithout DEF comparing, T
  <2> QED BY <1>1, <1>2, <1>3, <2>1, <2>2, <2>3, <2>4, <2>5
<1>6. CASE CompareFirst(t)
  <2>1. C' = C /\ logged' = logged /\ executions' = executions /\ pc[t] = "compare_first"
    BY <1>6 DEF CompareFirst, C
  <2>2. CASE C <= N
    <3>0. AmongFirst(t)
      BY <2>2 DEF AmongFirst, C
    <3>1. Moves(t, "compare_first", "log")
      BY <1>2, <1>6, <2>1, <3>0 DEF CompareFirst, Decide, Goto, Moves
    <3>2. /\ logging' = logging + 1 /\ comparing' = comparing - 1
          /\ incrementing' = incrementing
      BY <3>1, CountStep DEF logging, comparing, incrementing
    <3>3. comparing >= 1
      BY <2>1, CountHere DEF comparing
    <3> QED BY <1>1, <1>2, <1>3, <2>1, <2>2, <3>2, <3>3
  <2>3. CASE C > N
    <3>0. ~AmongFirst(t)
      BY <1>1, <1>3, <2>3 DEF AmongFirst, C
    <3>1. Moves(t, "compare_first", "idle")
      BY <1>2, <1>6, <2>1, <3>0 DEF CompareFirst, Decide, Goto, Moves
    <3>2. logging' = logging /\ incrementing' = incrementing
      BY <3>1, CountStep DEF logging, incrementing
    <3> QED BY <1>1, <1>2, <1>3, <2>1, <2>3, <3>2
  <2> QED BY <1>1, <1>3, <2>2, <2>3
<1>7. CASE Log(t)
  <2>1. /\ C' = C /\ executions' = executions
        /\ pc[t] = "log" /\ Moves(t, "log", "idle")
    BY <1>2, <1>7 DEF Log, Goto, C, Moves
  <2>2. Len(logged)' = Len(logged) + 1
    BY <1>7 DEF Log, IInv, TimeTypeOK, TypeOK
  <2>3. /\ logging' = logging - 1 /\ comparing' = comparing
        /\ incrementing' = incrementing
    BY <2>1, CountStep DEF logging, comparing, incrementing
  <2> QED BY <1>1, <1>2, <1>3, <2>1, <2>2, <2>3
<1> QED BY <1>4, <1>5, <1>6, <1>7

\* The steps of LOG_EVERY_N keep its invariant.
LEMMA PhaseStep ==
  ASSUME IInv, TypeOK', macro = "EVERY_N", NEW t \in Threads,
         CountOccurrence(t) \/ AddModN(t) \/ SubtractModN(t) \/ CompareModN(t) \/ Log(t)
  PROVE  PhaseInv'
<1> DEFINE T == Cardinality(Threads)
           adding == Count("add")
           S == Count("subtract")
           M == LOG_OCCURRENCES_MOD_N
<1>0. /\ N \in Nat \ {0} /\ T \in Nat /\ T >= 1
      /\ adding \in Nat /\ S \in Nat
  BY NAssumption, CountType
<1>1. /\ N \in Nat \ {0} /\ T \in Nat /\ T >= 1
      /\ adding \in Nat /\ S \in Nat /\ N * S \in Nat
  BY <1>0
<1>2. /\ pc \in [Threads -> Pcs] /\ executions \in Nat /\ M \in Int /\ macro' = macro
  BY DEF IInv, TimeTypeOK, TypeOK, CountOccurrence, AddModN, SubtractModN, CompareModN, Log
<1>3. PICK k \in Nat : executions = adding + M + N * k
  BY DEF IInv, PhaseInv
<1>4. /\ M - N * S <= N
      /\ \/ M - N * S > N - N * T
         \/ executions = adding /\ M = 0 /\ S = 0
  BY DEF IInv, PhaseInv
<1>5. N * k \in Nat /\ N * T \in Nat /\ N * T >= N /\ N * (k + 1) = N * k + N
  BY <1>1
<1> SUFFICES
      /\ \E i \in Nat : executions' = adding' + M' + N * i
      /\ M' - N * S' <= N
      /\ \/ M' - N * S' > N - N * T
         \/ executions' = adding' /\ M' = 0 /\ S' = 0
  BY DEF PhaseInv
<1> HIDE DEF T, adding, S, M
<1>6. CASE CountOccurrence(t)
  <2>1. /\ M' = M /\ executions' = executions + 1
        /\ pc[t] = "idle" /\ Moves(t, "idle", "add")
    BY <1>2, <1>6 DEF CountOccurrence, Begin, Goto, M, Moves
  <2>2. adding' = adding + 1 /\ S' = S
    BY <2>1, CountStep DEF adding, S
  <2> QED BY <1>1, <1>2, <1>3, <1>4, <1>5, <2>1, <2>2
<1>7. CASE AddModN(t)
  <2>1. M' = M + 1 /\ executions' = executions /\ pc[t] = "add"
    BY <1>7 DEF AddModN, M
  <2>2. CASE M + 1 > N
    <3>0. Wraps(LOG_OCCURRENCES_MOD_N + 1)
      BY <2>2 DEF Wraps, M
    <3>1. Moves(t, "add", "subtract")
      BY <1>2, <1>7, <2>1, <3>0 DEF AddModN, Goto, Moves
    <3>2. adding' = adding - 1 /\ S' = S + 1
      BY <3>1, CountStep DEF adding, S
    <3>3. S + 1 <= T
      BY <1>1, <2>1, CountWithout DEF S, T
    <3>4. N * (S + 1) = N * S + N /\ N * (S + 1) <= N * T
      <4>1. N * T = N * (S + 1) + N * (T - (S + 1)) /\ N * (T - (S + 1)) >= 0
        BY <1>1, <3>3
      <4> QED BY <1>1, <4>1
    <3>5. executions' = adding' + M' + N * k
      BY <1>1, <1>2, <1>3, <1>5, <2>1, <3>2
    <3>6. M' - N * S' <= N /\ M' - N * S' > N - N * T
      BY <1>1, <1>2, <1>4, <1>5, <2>1, <2>2, <3>2, <3>4
    <3> QED BY <3>5, <3>6
  <2>3. CASE M + 1 <= N
    <3>0. ~Wraps(LOG_OCCURRENCES_MOD_N + 1)
      BY <1>1, <1>2, <2>3 DEF Wraps, M
    <3>1. Moves(t, "add", "compare")
      BY <1>2, <1>7, <2>1, <3>0 DEF AddModN, Goto, Moves
    <3>2. adding' = adding - 1 /\ S' = S
      BY <3>1, CountStep DEF adding, S
    <3>3. executions' = adding' + M' + N * k
      BY <1>1, <1>2, <1>3, <1>5, <2>1, <3>2
    <3>4. M' - N * S' <= N
      BY <1>1, <1>2, <2>1, <2>3, <3>2
    <3>5. M' - N * S' > N - N * T
      <4>1. S = 0 => N * S = 0
        BY <1>1
      <4> QED BY <1>1, <1>2, <1>4, <1>5, <2>1, <3>2, <4>1
    <3> QED BY <3>3, <3>4, <3>5
  <2> QED BY <1>1, <1>2, <2>2, <2>3
<1>8. CASE SubtractModN(t)
  <2>1. /\ M' = M - N /\ executions' = executions
        /\ pc[t] = "subtract" /\ Moves(t, "subtract", "compare")
    BY <1>2, <1>8 DEF SubtractModN, WrapAround, Goto, M, Moves
  <2>2. adding' = adding /\ S' = S - 1
    BY <2>1, CountStep DEF adding, S
  <2>3. S >= 1
    BY <2>1, CountHere DEF S, Moves
  <2>4. N * (S - 1) = N * S - N
    BY <1>1
  <2>5. executions' = adding' + M' + N * (k + 1)
    BY <1>1, <1>2, <1>3, <1>5, <2>1, <2>2
  <2> QED BY <1>1, <1>2, <1>4, <1>5, <2>1, <2>2, <2>3, <2>4, <2>5
<1>9. CASE CompareModN(t) \/ Log(t)
  <2>1. /\ M' = M /\ executions' = executions
        /\ \E from \in {"compare", "log"}, to \in {"idle", "log"} : Moves(t, from, to)
    BY <1>2, <1>9 DEF CompareModN, Log, Decide, Goto, M, Moves
  <2>2. adding' = adding /\ S' = S
    BY <2>1, CountStep DEF adding, S
  <2> QED BY <1>1, <1>2, <1>3, <1>4, <2>1, <2>2
<1> QED BY <1>6, <1>7, <1>8, <1>9

-----------------------------------------------------------------------------
(* The invariant, and what it says when threads race. *)

\* The inductive step: every step of the site keeps the invariant.
LEMMA StepInv == IInv /\ [SiteNext]_<<vars, timeVars>> => IInv'
<1> SUFFICES ASSUME IInv, [SiteNext]_<<vars, timeVars>> PROVE IInv'
  OBVIOUS
<1>1. CASE UNCHANGED <<vars, timeVars>>
  BY <1>1 DEF vars, timeVars, IInv, TimeTypeOK, TypeOK, LabelsOK, FirstNInv, PhaseInv,
     StoresMessageTime, SkipJustified, Count, Inside
<1>2. ASSUME NEW t \in Threads, UNCHANGED timeVars,
             \/ CountOccurrence(t) \/ AddModN(t) \/ SubtractModN(t) \/ CompareModN(t)
             \/ \E holds \in BOOLEAN : Condition(t, holds)
             \/ StoreModN(t)
             \/ TestFirst(t) \/ Increment(t) \/ CompareFirst(t)
             \/ Log(t)
      PROVE  IInv'
  <2>1. TypeOK' /\ LabelsOK'
    BY <1>2, CountingTypes
  <2>2. macro' = macro
    BY <1>2 DEF CountOccurrence, AddModN, SubtractModN, CompareModN, Condition, StoreModN,
       TestFirst, Increment, CompareFirst, Log
  <2>3. TimeTypeOK'
    BY <1>2, <2>1 DEF IInv, TimeTypeOK, timeVars
  <2>4. FirstNInv'
    <3>1. CASE macro = "FIRST_N"
      <4>1. TestFirst(t) \/ Increment(t) \/ CompareFirst(t) \/ Log(t)
        BY <1>2, <3>1 DEF CountOccurrence, AddModN, SubtractModN, CompareModN, Condition,
           StoreModN, IInv, LabelsOK
      <4> QED BY <2>1, <3>1, <4>1, FirstNStep
    <3> QED BY <2>2, <3>1 DEF FirstNInv
  <2>5. PhaseInv'
    <3>1. CASE macro = "EVERY_N"
      <4>1. CountOccurrence(t) \/ AddModN(t) \/ SubtractModN(t) \/ CompareModN(t) \/ Log(t)
        BY <1>2, <3>1 DEF Condition, StoreModN, TestFirst, Increment, CompareFirst,
           IInv, LabelsOK
      <4> QED BY <2>1, <3>1, <4>1, PhaseStep
    <3> QED BY <2>2, <3>1 DEF PhaseInv
  <2>6. StoresMessageTime'
    <3>1. \A u \in Threads : pc'[u] = "store_time" => pc[u] = "store_time"
      BY <1>2 DEF CountOccurrence, AddModN, SubtractModN, CompareModN, Condition, StoreModN,
         TestFirst, Increment, CompareFirst, Log, Goto, Decide, IInv, TimeTypeOK, TypeOK
    <3> QED BY <1>2, <3>1 DEF IInv, StoresMessageTime, timeVars
  <2>7. SkipJustified'
    BY <1>2 DEF IInv, SkipJustified, timeVars
  <2> QED BY <2>1, <2>3, <2>4, <2>5, <2>6, <2>7 DEF IInv
<1>3. CASE Tick \/ \E t \in Threads : ReadClock(t) \/ LoadPrevious(t) \/ StorePrevious(t)
  <2>1. macro = "EVERY_T" /\ macro' = macro
    BY <1>3 DEF Tick, vars, ReadClock, LoadPrevious, StorePrevious, countVars, IInv, LabelsOK
  <2>2. FirstNInv' /\ PhaseInv'
    BY <2>1 DEF FirstNInv, PhaseInv
  <2> QED BY <1>3, <2>2, EveryTInv DEF IInv
<1> QED BY <1>1, <1>2, <1>3 DEF SiteNext, Next

\* What the invariant says of LOG_FIRST_N when the site is quiet.
LEMMA FirstNFromInv == IInv => FirstNWithin
<1> SUFFICES ASSUME IInv, macro = "FIRST_N"
             PROVE  /\ Len(logged) + Cardinality(Inside({"log"})) <= N
                    /\ Quiet => Len(logged) + Cardinality(Threads) >
                                  (IF executions < N THEN executions ELSE N)
  BY DEF FirstNWithin
<1>1. /\ N \in Nat \ {0} /\ Cardinality(Threads) \in Nat /\ Cardinality(Threads) >= 1
      /\ Len(logged) \in Nat /\ executions \in Nat /\ LOG_OCCURRENCES \in Nat
  <2>1. LOG_OCCURRENCES \in Nat
    BY DEF IInv, FirstNInv
  <2> QED BY <2>1, NAssumption, ThreadsCount DEF IInv, TimeTypeOK, TypeOK
<1>2. Len(logged) + Cardinality(Inside({"log"})) <= N
  BY DEF IInv, FirstNInv, Count
<1>3. ASSUME Quiet
      PROVE  Len(logged) + Cardinality(Threads) > (IF executions < N THEN executions ELSE N)
  <2>1. Count("log") = 0 /\ Count("compare_first") = 0 /\ Count("increment") = 0
    BY <1>3, CountQuiet
  <2>2. CASE LOG_OCCURRENCES <= N
    <3>1. Len(logged) = executions
      BY <1>1, <2>1, <2>2 DEF IInv, FirstNInv
    <3> QED BY <1>1, <3>1
  <2>3. CASE LOG_OCCURRENCES > N
    <3>1. Len(logged) + Cardinality(Threads) > N
      BY <1>1, <2>1, <2>3 DEF IInv, FirstNInv
    <3> QED BY <1>1, <3>1
  <2> QED BY <1>1, <2>2, <2>3
<1> QED BY <1>2, <1>3

\* What the invariant says of LOG_EVERY_N when the site is quiet.
LEMMA PhaseFromInv == IInv => PhaseKept
<1> SUFFICES ASSUME IInv, macro = "EVERY_N", Quiet
             PROVE  /\ LOG_OCCURRENCES_MOD_N <= N
                    /\ (executions - LOG_OCCURRENCES_MOD_N) % N = 0
                    /\ executions = 0 \/ LOG_OCCURRENCES_MOD_N > N - N * Cardinality(Threads)
  BY DEF PhaseKept
<1>1. /\ N \in Nat \ {0} /\ executions \in Nat /\ LOG_OCCURRENCES_MOD_N \in Int
      /\ Cardinality(Threads) \in Nat
  BY NAssumption, ThreadsCount DEF IInv, TimeTypeOK, TypeOK
<1>2. Count("add") = 0 /\ Count("subtract") = 0
  BY CountQuiet
<1>3. LOG_OCCURRENCES_MOD_N - N * Count("subtract") = LOG_OCCURRENCES_MOD_N
  BY <1>1, <1>2
<1>4. PICK k \in Nat : executions = Count("add") + LOG_OCCURRENCES_MOD_N + N * k
  BY DEF IInv, PhaseInv
<1>5. N * k \in Nat /\ executions - LOG_OCCURRENCES_MOD_N = N * k
  BY <1>1, <1>2, <1>4
<1>6. (executions - LOG_OCCURRENCES_MOD_N) % N = 0
  BY <1>5, MultipleOfN
<1>7. LOG_OCCURRENCES_MOD_N <= N
  BY <1>3 DEF IInv, PhaseInv
<1>8. executions = 0 \/ LOG_OCCURRENCES_MOD_N > N - N * Cardinality(Threads)
  BY <1>2, <1>3 DEF IInv, PhaseInv
<1> QED BY <1>6, <1>7, <1>8

(* Whatever the threads, n, the period and the int, the site keeps its     *)
(* inductive invariant.                                                    *)
THEOREM SiteInductive == SiteSpec => []IInv
BY InitInv, StepInv, PTL DEF SiteSpec

(* The counters and the times stay in their ranges: LOG_FIRST_N's cannot   *)
(* overflow, as the code supposes, however many threads race through it.   *)
THEOREM SiteTypeCorrect == SiteSpec => []TimeTypeOK
<1>1. IInv => TimeTypeOK
  BY DEF IInv
<1> QED BY <1>1, SiteInductive, PTL

(* LOG_FIRST_N logs no more than n messages, and loses less than one for   *)
(* each thread.                                                            *)
THEOREM FirstNHolds == SiteSpec => []FirstNWithin
BY FirstNFromInv, SiteInductive, PTL

(* LOG_EVERY_N keeps its phase after any storm of threads. *)
THEOREM PhaseHolds == SiteSpec => []PhaseKept
BY PhaseFromInv, SiteInductive, PTL

(* LOG_EVERY_T keeps nothing back without a message in its period. *)
THEOREM SkipHolds == SiteSpec => []SkipJustified
<1>1. IInv => SkipJustified
  BY DEF IInv
<1> QED BY <1>1, SiteInductive, PTL

-----------------------------------------------------------------------------
(* The messages of a period of LOG_EVERY_T. *)

\* The threads that hold a time before start.
Old(start) == {t \in Threads : /\ pc[t] \in {"load_time", "store_time"}
                               /\ LOG_CURRENT_TIME[t] < start}

\* Those that are going to set the time of the last message to start or later.
Closing(start) == {t \in Threads : /\ pc[t] = "store_time"
                                   /\ LOG_CURRENT_TIME[t] >= start}

InPeriod(start) == {i \in DOMAIN messages : messages[i] \in start..(start + Period)}

(* Twice the messages of a period and those that may still come: while the *)
(* time of the last message is before it (open), one of each of the T      *)
(* users that neither holds an old time nor has logged; and with each of   *)
(* the O old times all who then hold none can log anew.                    *)
Budget(T, O, C, m, open) ==
  2 * m + (IF open THEN 2 * (T - O - C) ELSE 0) + O * (2 * T - O + 1) <= T * (T + 1)

BudgetKept(start) ==
  Budget(Cardinality(Users), Cardinality(Old(start)), Cardinality(Closing(start)),
         Cardinality(InPeriod(start)), LOG_PREVIOUS_TIME_RAW < start)

(* No time is in the future, and no period has more messages than its      *)
(* budget.                                                                 *)
BurstInv ==
  /\ \A t \in Threads : LOG_CURRENT_TIME[t] <= clock
  /\ \A i \in DOMAIN messages : messages[i] <= clock
  /\ macro # "EVERY_T" => messages = <<>>
  /\ macro = "EVERY_T" => \A start \in 0..clock : BudgetKept(start)

\* A period that has no message yet is within its budget.
LEMMA BudgetStarts ==
  ASSUME NEW T \in Nat, NEW O \in Nat, NEW C \in Nat, O + C <= T, NEW open \in BOOLEAN
  PROVE  Budget(T, O, C, 0, open)
<1> DEFINE d == T - O
<1>1. d \in Nat /\ C <= d /\ C >= 0
  OBVIOUS
<1>2. d * d >= d
  BY <1>1
<1>3. T * (T + 1) - O * (2 * T - O + 1) = d * d + d
  OBVIOUS
<1>4. O * (2 * T - O + 1) \in Int /\ T * (T + 1) \in Int /\ d * d \in Int
  OBVIOUS
<1>5. 2 * (T - O - C) <= 2 * d
  BY <1>1
<1> HIDE DEF d
<1>6. 2 * 0 + (IF open THEN 2 * (T - O - C) ELSE 0) <= d * d + d
  BY <1>1, <1>2, <1>4, <1>5
<1> QED BY <1>1, <1>3, <1>4, <1>6 DEF Budget

(* What may happen to a budget: a thread becomes a user, it logs in the    *)
(* open period or elsewhere, it gives up an old time or stores it, or it   *)
(* closes the period.                                                      *)
LEMMA BudgetSteps ==
  ASSUME NEW T \in Nat, NEW O \in Nat, NEW C \in Nat, NEW m \in Nat, O + C <= T,
         NEW open \in BOOLEAN, Budget(T, O, C, m, open)
  PROVE  /\ Budget(T + 1, O, C, m, open)
         /\ open => Budget(T, O, C + 1, m + 1, open)
         /\ Budget(T, O, C + 1, m, open)
         /\ O >= 1 => Budget(T, O - 1, C, m, open) /\ Budget(T, O - 1, C, m, TRUE)
         /\ Budget(T, O, C - 1, m, FALSE)
<1> DEFINE P == O * (2 * T - O + 1)
           Q == T * (T + 1)
           free == T - O - C
<1>1. P \in Int /\ Q \in Int /\ free \in Nat
  OBVIOUS
<1>2. /\ (T + 1) * ((T + 1) + 1) = Q + 2 * T + 2
      /\ O * (2 * (T + 1) - O + 1) = P + 2 * O
      /\ (O - 1) * (2 * T - (O - 1) + 1) = P - 2 * (T - O + 1)
  OBVIOUS
<1>3. /\ T + 1 - O - C = free + 1 /\ T - O - (C + 1) = free - 1
      /\ T - (O - 1) - C = free + 1
      /\ T - O >= free /\ free <= T - O /\ T - O >= 0 /\ O <= T
  OBVIOUS
<1>4. 2 * m + (IF open THEN 2 * free ELSE 0) + P <= Q
  BY DEF Budget
<1> HIDE DEF P, Q, free
<1>5. Budget(T + 1, O, C, m, open)
  <2> SUFFICES 2 * m + (IF open THEN 2 * (free + 1) ELSE 0) + (P + 2 * O) <= Q + 2 * T + 2
    BY <1>2, <1>3 DEF Budget
  <2> QED BY <1>1, <1>3, <1>4
<1>6. open => Budget(T, O, C + 1, m + 1, open)
  <2> SUFFICES ASSUME open PROVE 2 * (m + 1) + 2 * (free - 1) + P <= Q
    BY <1>3 DEF Budget, P, Q
  <2> QED BY <1>1, <1>4
<1>7. Budget(T, O, C + 1, m, open)
  <2> SUFFICES 2 * m + (IF open THEN 2 * (free - 1) ELSE 0) + P <= Q
    BY <1>3 DEF Budget, P, Q
  <2> QED BY <1>1, <1>4
<1>8. Budget(T, O - 1, C, m, open)
  <2> SUFFICES 2 * m + (IF open THEN 2 * (free + 1) ELSE 0) + (P - 2 * (T - O + 1)) <= Q
    BY <1>2, <1>3 DEF Budget, Q
  <2> QED BY <1>1, <1>3, <1>4
<1>9. Budget(T, O - 1, C, m, TRUE)
  <2> SUFFICES 2 * m + 2 * (free + 1) + (P - 2 * (T - O + 1)) <= Q
    BY <1>2, <1>3 DEF Budget, Q
  <2> QED BY <1>1, <1>3, <1>4
<1>10. Budget(T, O, C - 1, m, FALSE)
  <2> SUFFICES 2 * m + 0 + P <= Q
    BY DEF Budget, P, Q
  <2> QED BY <1>1, <1>4
<1> QED BY <1>5, <1>6, <1>7, <1>8, <1>9, <1>10

\* Who holds an old time and who closes the period are users, and not the same.
LEMMA BurstSets ==
  ASSUME IInv, NEW start
  PROVE  /\ IsFiniteSet(Users) /\ Cardinality(Users) \in Nat
         /\ IsFiniteSet(Old(start)) /\ Cardinality(Old(start)) \in Nat
         /\ IsFiniteSet(Closing(start)) /\ Cardinality(Closing(start)) \in Nat
         /\ start \in Int =>
              Cardinality(Old(start)) + Cardinality(Closing(start)) <= Cardinality(Users)
         /\ IsFiniteSet(InPeriod(start)) /\ Cardinality(InPeriod(start)) \in Nat
<1>1. \A t \in Threads : pc[t] # "idle" => t \in Users
  BY DEF IInv, TimeTypeOK, TypeOK, LabelsOK, Users
<1>2. Users \in SUBSET Threads /\ Old(start) \in SUBSET Users /\ Closing(start) \in SUBSET Users
  BY <1>1 DEF Users, Old, Closing
<1>3. IsFiniteSet(Users)
  BY <1>2, ThreadsAssumption, FS_Subset
<1>4. IsFiniteSet(Old(start)) /\ IsFiniteSet(Closing(start))
  BY <1>2, <1>3, FS_Subset
<1>5. /\ Cardinality(Users) \in Nat /\ Cardinality(Old(start)) \in Nat
      /\ Cardinality(Closing(start)) \in Nat
  BY <1>3, <1>4, FS_CardinalityType
<1>6. ASSUME start \in Int
      PROVE  Cardinality(Old(start)) + Cardinality(Closing(start)) <= Cardinality(Users)
  <2>1. Old(start) \cap Closing(start) = {}
    BY <1>6 DEF Old, Closing, IInv, TimeTypeOK
  <2>2. /\ IsFiniteSet(Old(start) \cup Closing(start))
        /\ Cardinality(Old(start) \cup Closing(start)) =
             Cardinality(Old(start)) + Cardinality(Closing(start))
    <3>1. Cardinality(Old(start) \cap Closing(start)) = 0
      BY <2>1, FS_EmptySet
    <3> QED BY <1>4, <1>5, <3>1, FS_Union
  <2>3. Old(start) \cup Closing(start) \in SUBSET Users
    BY <1>2
  <2> QED BY <1>3, <2>2, <2>3, FS_Subset
<1>7. IsFiniteSet(InPeriod(start))
  <2>1. InPeriod(start) \in SUBSET (1..Len(messages)) /\ Len(messages) \in Nat
    BY DEF InPeriod, IInv, TimeTypeOK
  <2>2. IsFiniteSet(1..Len(messages))
    BY <2>1, FS_Interval
  <2> QED BY <2>1, <2>2, FS_Subset
<1> QED BY <1>3, <1>4, <1>5, <1>6, <1>7, FS_CardinalityType

(* Every step of LOG_EVERY_T keeps the budget of each period that has      *)
(* begun.                                                                  *)
LEMMA BudgetStep ==
  ASSUME IInv, IInv', BurstInv, macro = "EVERY_T", NEW start \in 0..clock',
         Tick \/ \E t \in Threads : ReadClock(t) \/ LoadPrevious(t) \/ StorePrevious(t)
  PROVE  BudgetKept(start)'
<1> DEFINE T == Cardinality(Users)
           O == Cardinality(Old(start))
           C == Cardinality(Closing(start))
           m == Cardinality(InPeriod(start))
           open == LOG_PREVIOUS_TIME_RAW < start
<1>0. /\ Period \in Nat /\ MaxClock \in Nat /\ start \in Nat /\ clock \in 0..MaxClock
      /\ pc \in [Threads -> Pcs] /\ execution \in [Threads -> 0..MaxExecutions]
      /\ MaxExecutions \in Nat /\ executions \in Nat
      /\ LOG_CURRENT_TIME \in [Threads -> 0..MaxClock]
      /\ messages \in Seq(1..MaxClock) /\ LOG_PREVIOUS_TIME_RAW \in 0..MaxClock
  <2>1. /\ Period \in Nat /\ MaxClock \in Nat /\ MaxExecutions \in Nat
        /\ clock \in 0..MaxClock /\ clock' \in 0..MaxClock
        /\ LOG_CURRENT_TIME \in [Threads -> 0..MaxClock]
        /\ messages \in Seq(1..MaxClock)
        /\ LOG_PREVIOUS_TIME_RAW \in {0} \cup Range(messages)
    BY NAssumption, PeriodAssumption DEF IInv, TimeTypeOK
  <2>2. LOG_PREVIOUS_TIME_RAW \in 0..MaxClock
    BY <2>1 DEF Range
  <2>3. /\ pc \in [Threads -> Pcs] /\ execution \in [Threads -> 0..MaxExecutions]
        /\ executions \in Nat
    BY DEF IInv, TimeTypeOK, TypeOK
  <2> QED BY <2>1, <2>2, <2>3
<1>1. /\ IsFiniteSet(Users) /\ T \in Nat
      /\ IsFiniteSet(Old(start)) /\ O \in Nat
      /\ IsFiniteSet(Closing(start)) /\ C \in Nat
      /\ O + C <= T
      /\ IsFiniteSet(InPeriod(start)) /\ m \in Nat
      /\ open \in BOOLEAN
  BY <1>0, BurstSets
<1>2. start <= clock => Budget(T, O, C, m, open)
  BY <1>0 DEF BurstInv, BudgetKept
<1>3. start <= clock =>
        /\ Budget(T + 1, O, C, m, open)
        /\ open => Budget(T, O, C + 1, m + 1, open)
        /\ Budget(T, O, C + 1, m, open)
        /\ O >= 1 => Budget(T, O - 1, C, m, open) /\ Budget(T, O - 1, C, m, TRUE)
        /\ Budget(T, O, C - 1, m, FALSE)
  BY <1>1, <1>2, BudgetSteps
<1>4. SUFFICES Budget(T', O', C', m', open')
  BY DEF BudgetKept
<1> HIDE DEF T, O, C, m, open
<1>5. CASE Tick
  <2>1. /\ T' = T /\ O' = O /\ C' = C /\ m' = m /\ open' = open
        /\ clock' = clock + 1
    BY <1>5 DEF Tick, vars, T, O, C, m, open, Users, Old, Closing, InPeriod
  <2>2. CASE start <= clock
    BY <1>2, <2>1, <2>2
  <2>3. CASE start = clock + 1
    <3>1. InPeriod(start) = {}
      BY <1>0, <2>3 DEF BurstInv, InPeriod
    <3>2. m = 0
      BY <3>1, FS_EmptySet DEF m
    <3> QED BY <1>1, <2>1, <3>2, BudgetStarts
  <2> QED BY <1>0, <2>1, <2>2, <2>3
<1>6. ASSUME NEW t \in Threads, ReadClock(t) PROVE Budget(T', O', C', m', open')
  <2>1. /\ pc[t] = "idle" /\ pc' = [pc EXCEPT ![t] = "load_time"]
        /\ execution' = [execution EXCEPT ![t] = executions + 1]
        /\ LOG_CURRENT_TIME' = [LOG_CURRENT_TIME EXCEPT ![t] = clock]
        /\ UNCHANGED <<clock, LOG_PREVIOUS_TIME_RAW, messages>>
    BY <1>6 DEF ReadClock, Begin
  <2>2. start <= clock
    BY <1>0, <2>1
  <2>3. Old(start)' = Old(start) /\ Closing(start)' = Closing(start)
    BY <1>0, <2>1, <2>2 DEF Old, Closing
  <2>4. Users' = Users \cup {t}
    BY <1>0, <2>1 DEF Users
  <2>5. T' = T \/ T' = T + 1
    BY <1>1, <2>4, FS_AddElement DEF T
  <2>6. O' = O /\ C' = C /\ m' = m /\ open' = open
    BY <2>1, <2>3 DEF O, C, m, open, InPeriod
  <2> QED BY <1>2, <1>3, <2>2, <2>5, <2>6
<1>7. ASSUME NEW t \in Threads, LoadPrevious(t) PROVE Budget(T', O', C', m', open')
  <2> DEFINE now == LOG_CURRENT_TIME[t]
  <2>1. /\ pc[t] = "load_time" /\ now \in 0..MaxClock
        /\ UNCHANGED <<clock, LOG_PREVIOUS_TIME_RAW, execution>>
    BY <1>0, <1>7 DEF LoadPrevious
  <2>2. start <= clock /\ T' = T /\ open' = open
    BY <1>0, <2>1 DEF T, open, Users
  <2>3. CASE Elapsed(now, LOG_PREVIOUS_TIME_RAW)
    <3>1. /\ pc' = [pc EXCEPT ![t] = "store_time"]
          /\ messages' = Append(messages, now)
          /\ LOG_CURRENT_TIME' = LOG_CURRENT_TIME
      BY <1>7, <2>3 DEF LoadPrevious
    <3>2. Old(start)' = Old(start)
      BY <1>0, <2>1, <3>1 DEF Old
    <3>3. /\ t \notin Closing(start)
          /\ Closing(start)' = IF now >= start THEN Closing(start) \cup {t} ELSE Closing(start)
      BY <1>0, <2>1, <3>1 DEF Closing
    <3>4. /\ Len(messages) \in Nat /\ Len(messages) + 1 \notin InPeriod(start)
          /\ InPeriod(start)' = IF now \in start..(start + Period)
                                THEN InPeriod(start) \cup {Len(messages) + 1}
                                ELSE InPeriod(start)
      <4>1. /\ Len(messages) \in Nat /\ DOMAIN messages = 1..Len(messages)
            /\ DOMAIN messages' = 1..(Len(messages) + 1)
            /\ \A i \in 1..Len(messages) : messages'[i] = messages[i]
            /\ messages'[Len(messages) + 1] = now
        BY <1>0, <2>1, <3>1
      <4> QED BY <4>1 DEF InPeriod
    <3>5. O' = O
      BY <3>2 DEF O
    <3>6. C' = IF now >= start THEN C + 1 ELSE C
      BY <1>1, <3>3, FS_AddElement DEF C
    <3>7. m' = IF now \in start..(start + Period) THEN m + 1 ELSE m
      BY <1>1, <3>4, FS_AddElement DEF m
    <3>8. now \in start..(start + Period) => open /\ now >= start
      BY <1>0, <2>1, <2>3 DEF Elapsed, open
    <3> QED BY <1>2, <1>3, <2>2, <3>5, <3>6, <3>7, <3>8
  <2>4. CASE ~Elapsed(now, LOG_PREVIOUS_TIME_RAW)
    <3>1. /\ pc' = [pc EXCEPT ![t] = "idle"] /\ messages' = messages
          /\ LOG_CURRENT_TIME' = [LOG_CURRENT_TIME EXCEPT ![t] = 0]
      BY <1>7, <2>4 DEF LoadPrevious
    <3>2. Old(start)' = Old(start) \ {t} /\ Closing(start)' = Closing(start)
      BY <1>0, <2>1, <3>1 DEF Old, Closing
    <3>3. C' = C /\ m' = m
      BY <3>1, <3>2 DEF C, m, InPeriod
    <3>4. O' = O \/ (O' = O - 1 /\ t \in Old(start))
      BY <1>1, <3>2, FS_RemoveElement DEF O
    <3>5. t \in Old(start) => O >= 1
      BY <1>1, FS_EmptySet DEF O
    <3> QED BY <1>2, <1>3, <2>2, <3>3, <3>4, <3>5
  <2> QED BY <2>3, <2>4
<1>8. ASSUME NEW t \in Threads, StorePrevious(t) PROVE Budget(T', O', C', m', open')
  <2> DEFINE time == LOG_CURRENT_TIME[t]
  <2>1. /\ pc[t] = "store_time" /\ time \in 0..MaxClock
        /\ pc' = [pc EXCEPT ![t] = "idle"]
        /\ LOG_CURRENT_TIME' = [LOG_CURRENT_TIME EXCEPT ![t] = 0]
        /\ LOG_PREVIOUS_TIME_RAW' = time
        /\ UNCHANGED <<clock, execution, messages>>
    BY <1>0, <1>8 DEF StorePrevious, NewPrevious
  <2>2. start <= clock /\ T' = T /\ m' = m
    BY <1>0, <2>1 DEF T, m, Users, InPeriod
  <2>3. /\ Old(start)' = Old(start) \ {t} /\ Closing(start)' = Closing(start) \ {t}
        /\ time < start => t \in Old(start) /\ t \notin Closing(start)
        /\ time >= start => t \notin Old(start) /\ t \in Closing(start)
    BY <1>0, <2>1 DEF Old, Closing
  <2>4. CASE time < start
    <3>1. O' = O - 1 /\ C' = C
      BY <1>1, <2>3, <2>4, FS_RemoveElement DEF O, C
    <3>2. O >= 1
      BY <1>1, <2>3, <2>4, FS_EmptySet DEF O
    <3>3. open' = TRUE
      BY <2>1, <2>4 DEF open
    <3> QED BY <1>3, <2>2, <3>1, <3>2, <3>3
  <2>5. CASE time >= start
    <3>1. O' = O /\ C' = C - 1
      BY <1>1, <2>3, <2>5, FS_RemoveElement DEF O, C
    <3>2. open' = FALSE
      BY <1>0, <2>1, <2>5 DEF open
    <3> QED BY <1>3, <2>2, <3>1, <3>2
  <2> QED BY <1>0, <2>1, <2>4, <2>5
<1> QED BY <1>5, <1>6, <1>7, <1>8

(* Initially no message has been logged. *)
LEMMA BurstStarts == SiteInit => BurstInv
<1> SUFFICES ASSUME SiteInit PROVE BurstInv
  OBVIOUS
<1>1. /\ \A t \in Threads : LOG_CURRENT_TIME[t] <= clock
      /\ messages = <<>> /\ clock \in Nat
  BY PeriodAssumption DEF SiteInit
<1>2. ASSUME NEW start \in 0..clock PROVE BudgetKept(start)
  <2>1. /\ Cardinality(Users) \in Nat /\ Cardinality(Old(start)) \in Nat
        /\ Cardinality(Closing(start)) \in Nat
        /\ Cardinality(Old(start)) + Cardinality(Closing(start)) <= Cardinality(Users)
    BY InitInv, BurstSets, <1>1
  <2>2. InPeriod(start) = {}
    BY <1>1 DEF InPeriod
  <2>3. Cardinality(InPeriod(start)) = 0
    BY <2>2, FS_EmptySet
  <2>4. (LOG_PREVIOUS_TIME_RAW < start) \in BOOLEAN
    OBVIOUS
  <2> QED BY <2>1, <2>3, <2>4, BudgetStarts DEF BudgetKept
<1> QED BY <1>1, <1>2 DEF BurstInv

(* Every step keeps the messages of each period within its budget. *)
LEMMA BurstStep ==
  IInv /\ IInv' /\ BurstInv /\ [SiteNext]_<<vars, timeVars>> => BurstInv'
<1> SUFFICES ASSUME IInv, IInv', BurstInv, [SiteNext]_<<vars, timeVars>> PROVE BurstInv'
  OBVIOUS
<1>0. /\ clock \in Nat /\ LOG_CURRENT_TIME \in [Threads -> 0..MaxClock]
      /\ MaxClock \in Nat /\ messages \in Seq(1..MaxClock)
  BY PeriodAssumption DEF IInv, TimeTypeOK
<1>1. CASE UNCHANGED <<vars, timeVars>>
  BY <1>1 DEF vars, timeVars, BurstInv, BudgetKept, Budget, Users, Old, Closing, InPeriod
<1>2. CASE Next /\ UNCHANGED timeVars
  <2>1. macro # "EVERY_T" /\ macro' = macro
    BY <1>2 DEF Next, CountOccurrence, AddModN, SubtractModN, CompareModN, Condition,
       StoreModN, TestFirst, Increment, CompareFirst, Log, IInv, LabelsOK
  <2> QED BY <1>2, <2>1 DEF BurstInv, timeVars
<1>3. CASE Tick \/ \E t \in Threads : ReadClock(t) \/ LoadPrevious(t) \/ StorePrevious(t)
  <2>1. macro = "EVERY_T" /\ macro' = macro
    BY <1>3 DEF Tick, vars, ReadClock, LoadPrevious, StorePrevious, countVars, IInv, LabelsOK
  <2>2. \A start \in 0..clock' : BudgetKept(start)'
    BY <1>3, <2>1, BudgetStep
  <2>3. clock' \in Nat /\ clock' >= clock /\ \A t \in Threads : LOG_CURRENT_TIME'[t] <= clock'
    <3>1. CASE Tick
      BY <1>0, <3>1 DEF Tick, BurstInv
    <3>2. CASE \E t \in Threads : ReadClock(t)
      BY <1>0, <3>2 DEF ReadClock, BurstInv
    <3>3. CASE \E t \in Threads : LoadPrevious(t)
      BY <1>0, <3>3 DEF LoadPrevious, BurstInv
    <3>4. CASE \E t \in Threads : StorePrevious(t)
      BY <1>0, <3>4 DEF StorePrevious, BurstInv
    <3> QED BY <1>3, <3>1, <3>2, <3>3, <3>4
  <2>4. \A i \in DOMAIN messages' : messages'[i] <= clock'
    <3>1. \/ messages' = messages
          \/ \E t \in Threads : messages' = Append(messages, LOG_CURRENT_TIME[t])
      BY <1>3 DEF Tick, ReadClock, LoadPrevious, StorePrevious
    <3>2. \A i \in DOMAIN messages : messages[i] <= clock'
      BY <1>0, <2>3 DEF BurstInv, IInv, TimeTypeOK
    <3>3. ASSUME NEW t \in Threads, messages' = Append(messages, LOG_CURRENT_TIME[t])
          PROVE  \A i \in DOMAIN messages' : messages'[i] <= clock'
      <4>1. LOG_CURRENT_TIME[t] <= clock'
        BY <1>0, <2>3 DEF BurstInv, IInv, TimeTypeOK
      <4>2. /\ DOMAIN messages' = 1..(Len(messages) + 1) /\ Len(messages) \in Nat
            /\ \A i \in 1..Len(messages) : messages'[i] = messages[i]
            /\ messages'[Len(messages) + 1] = LOG_CURRENT_TIME[t]
        BY <1>0, <3>3
      <4> QED BY <1>0, <3>2, <4>1, <4>2
    <3> QED BY <3>1, <3>2, <3>3
  <2> QED BY <2>1, <2>2, <2>3, <2>4 DEF BurstInv
<1> QED BY <1>1, <1>2, <1>3 DEF SiteNext

(* What the budget says of the messages of a period. *)
LEMMA BurstFromInv == IInv /\ BurstInv => BurstBounded
<1> SUFFICES ASSUME IInv, BurstInv, NEW start \in 0..MaxClock
             PROVE  Cardinality(InPeriod(start))
                      <= (Cardinality(Users) * (Cardinality(Users) + 1)) \div 2
  BY DEF BurstBounded, InPeriod
<1> DEFINE T == Cardinality(Users)
           O == Cardinality(Old(start))
           C == Cardinality(Closing(start))
           m == Cardinality(InPeriod(start))
<1>1. T \in Nat /\ O \in Nat /\ C \in Nat /\ m \in Nat /\ O + C <= T
  BY BurstSets
<1>2. T * (T + 1) \in Nat
  BY <1>1
<1>3. CASE macro # "EVERY_T" \/ start > clock
  <2>1. InPeriod(start) = {}
    BY <1>3 DEF BurstInv, InPeriod, IInv, TimeTypeOK
  <2>2. m = 0
    BY <2>1, FS_EmptySet
  <2> QED BY <1>2, <2>2
<1>4. CASE macro = "EVERY_T" /\ start \in 0..clock
  <2>1. Budget(T, O, C, m, LOG_PREVIOUS_TIME_RAW < start)
    BY <1>4 DEF BurstInv, BudgetKept
  <2>2. O * (2 * T - O + 1) >= 0
    BY <1>1
  <2>3. O * (2 * T - O + 1) \in Int
    BY <1>1
  <2> HIDE DEF T, O, C, m
  <2>4. 2 * m <= T * (T + 1)
    BY <1>1, <1>2, <2>1, <2>2, <2>3 DEF Budget
  <2> QED BY <1>1, <1>2, <2>4 DEF T, m
<1> QED BY <1>3, <1>4 DEF IInv, TimeTypeOK

(* The messages of a period are bounded by the number of users alone,      *)
(* however the threads overtake each other between clock, load and store.  *)
THEOREM BurstHolds == SiteSpec => []BurstBounded
<1>1. SiteInit => BurstInv
  BY BurstStarts
<1>2. IInv /\ IInv' /\ BurstInv /\ [SiteNext]_<<vars, timeVars>> => BurstInv'
  BY BurstStep
<1>3. IInv /\ BurstInv => BurstBounded
  BY BurstFromInv
<1> QED BY <1>1, <1>2, <1>3, SiteInductive, PTL DEF SiteSpec

-----------------------------------------------------------------------------
(* A site that one thread uses. *)

\* The executions of thread u that are over.
Completed(u) == IF pc[u] = "idle" THEN executions ELSE executions - 1

\* What a single user has logged when k of its executions are over.
RecordExact(k) ==
  /\ LoggedExecutions = {e \in 1..k : Due(e)}
  /\ \A i, j \in DOMAIN logged : i < j => logged[i].execution < logged[j].execution
  /\ \A i \in DOMAIN logged : logged[i].counter = AsInt(logged[i].execution)

\* LOG_EVERY_N's counter when a single user has counted k times.
ModNAfter(k) == IF k = 0 THEN 0 ELSE ((k - 1) % N) + 1

(* LOG_EVERY_N, when its single user u has e executions behind him or runs *)
(* the e-th.                                                               *)
EveryNAlone(u, e) ==
  /\ LOG_OCCURRENCES = AsInt(e)
  /\ CASE pc[u] = "add" -> LOG_OCCURRENCES_MOD_N = ModNAfter(e - 1)
       [] pc[u] = "subtract" -> LOG_OCCURRENCES_MOD_N = N + 1 /\ (e - 1) % N = 0
       [] OTHER -> LOG_OCCURRENCES_MOD_N = ModNAfter(e)

(* LOG_IF_EVERY_N: the counter follows the executions whose condition held. *)
IfEveryNAlone(u, e) ==
  /\ LOG_OCCURRENCES = AsInt(e)
  /\ \A i \in DOMAIN sampled : sampled[i] <= e /\ (pc[u] = "condition" => sampled[i] < e)
  /\ \A i, j \in DOMAIN sampled : i < j => sampled[i] < sampled[j]
  /\ IF pc[u] = "store"
       THEN /\ sampled # <<>> /\ sampled[Len(sampled)] = e
            /\ temp[u] = (Len(sampled) - 1) % N
       ELSE LOG_OCCURRENCES_MOD_N = Len(sampled) % N

(* LOG_FIRST_N: the counter stops at n + 1. *)
FirstNAlone(u, e) ==
  IF pc[u] = "increment" THEN LOG_OCCURRENCES = e - 1 /\ e <= N + 1
  ELSE LOG_OCCURRENCES = IF e <= N THEN e ELSE N + 1

(* While nobody but u uses the site, it is where the executions of u say.  *)
AloneWith(u) ==
  /\ execution[u] = executions
  /\ RecordExact(Completed(u))
  /\ pc[u] = "log" => Due(executions)
  /\ macro = "EVERY_N" => EveryNAlone(u, executions)
  /\ macro = "IF_EVERY_N" => IfEveryNAlone(u, executions)
  /\ macro = "FIRST_N" => FirstNAlone(u, executions)

AloneInv == macro # "EVERY_T" => \A u \in Threads : Users \subseteq {u} => AloneWith(u)

\* Counting on by one, modulo m.
LEMMA RemainderStep ==
  ASSUME NEW m \in Nat \ {0}, NEW k \in Nat
  PROVE  /\ k % m \in 0..(m - 1)
         /\ k < m => k % m = k
         /\ (k + 1) % m = IF k % m = m - 1 THEN 0 ELSE (k % m) + 1
<1> DEFINE q == k \div m
           r == k % m
           p == (k + 1) \div m
           s == (k + 1) % m
<1>1. q \in Int /\ r \in 0..(m - 1) /\ k = m * q + r
  BY Division
<1>2. p \in Int /\ s \in 0..(m - 1) /\ k + 1 = m * p + s
  BY Division
<1>3. k < m => r = k
  OBVIOUS
<1> HIDE DEF q, r, p, s
<1>4. m * (p - q) = r + 1 - s
  BY <1>1, <1>2
<1>5. p - q \in Int /\ r + 1 - s <= m /\ r + 1 - s > -m
  BY <1>1, <1>2
<1>6. p - q = 0 \/ p - q = 1
  <2>1. p - q >= 2 => m * (p - q) >= 2 * m
    BY <1>5
  <2>2. p - q <= -1 => m * (p - q) <= -m
    BY <1>5
  <2> QED BY <1>4, <1>5, <2>1, <2>2
<1>7. s = IF r = m - 1 THEN 0 ELSE r + 1
  <2>1. p - q = 0 => m * (p - q) = 0
    BY <1>5
  <2>2. p - q = 1 => m * (p - q) = m
    BY <1>5
  <2> QED BY <1>1, <1>2, <1>4, <1>6, <2>1, <2>2
<1> QED BY <1>1, <1>3, <1>7 DEF r, s

\* An int that is incremented once more.
LEMMA AsIntNext ==
  ASSUME NEW k \in Nat
  PROVE  AsInt(AsInt(k) + 1) = AsInt(k + 1)
<1> DEFINE m == 2 * IntMax + 2
           x == k + IntMax + 1
<1>1. m \in Nat \ {0} /\ x \in Nat /\ IntMax \in Nat
  BY NAssumption
<1>2. /\ AsInt(k) = (x % m) - IntMax - 1
      /\ AsInt(k + 1) = (((k + 1) + IntMax + 1) % m) - IntMax - 1
      /\ AsInt(AsInt(k) + 1) = (((AsInt(k) + 1) + IntMax + 1) % m) - IntMax - 1
  BY DEF AsInt
<1>3. (k + 1) + IntMax + 1 = x + 1
  BY <1>1
<1> HIDE DEF m, x
<1>4. x % m \in 0..(m - 1) /\ (x + 1) % m = IF x % m = m - 1 THEN 0 ELSE (x % m) + 1
  BY <1>1, RemainderStep
<1>5. PICK r \in 0..(m - 1) : r = x % m
  BY <1>4
<1>6. r \in Nat /\ r < m
  BY <1>1, <1>5
<1>7. r % m = r /\ (r + 1) % m = IF r % m = m - 1 THEN 0 ELSE (r % m) + 1
  BY <1>1, <1>6, RemainderStep
<1>8. (AsInt(k) + 1) + IntMax + 1 = r + 1
  BY <1>1, <1>2, <1>5, <1>6
<1> QED BY <1>2, <1>3, <1>4, <1>5, <1>7, <1>8

\* LOG_EVERY_N counts one further, or wraps around.
LEMMA ModNNext ==
  ASSUME NEW k \in Nat
  PROVE  /\ ModNAfter(k) \in 0..N
         /\ ModNAfter(k) + 1 > N => ModNAfter(k) = N /\ ModNAfter(k + 1) = 1 /\ k % N = 0
         /\ ModNAfter(k) + 1 <= N => ModNAfter(k + 1) = ModNAfter(k) + 1
         /\ ModNAfter(k + 1) = 1 <=> k % N = 0
<1>1. N \in Nat \ {0}
  BY NAssumption
<1>2. ModNAfter(k + 1) = (k % N) + 1 /\ k % N \in 0..(N - 1)
  BY <1>1, RemainderStep DEF ModNAfter
<1>3. CASE k = 0
  BY <1>1, <1>2, <1>3, RemainderStep DEF ModNAfter
<1>4. CASE k > 0
  <2>1. k - 1 \in Nat /\ (k - 1) + 1 = k
    BY <1>4
  <2>2. /\ (k - 1) % N \in 0..(N - 1)
        /\ k % N = IF (k - 1) % N = N - 1 THEN 0 ELSE ((k - 1) % N) + 1
    BY <1>1, <2>1, RemainderStep
  <2>3. ModNAfter(k) = ((k - 1) % N) + 1
    BY <1>4 DEF ModNAfter
  <2> QED BY <1>1, <1>2, <2>2, <2>3
<1> QED BY <1>3, <1>4

\* LOG_IF_EVERY_N counts one further: when it reaches what n leaves of one.
LEMMA SampleNext ==
  ASSUME NEW k \in Nat
  PROVE  /\ ((k % N) + 1) % N = (k + 1) % N
         /\ (k + 1) % N = 1 % N <=> k % N = 0
<1>1. N \in Nat \ {0}
  BY NAssumption
<1>2. k % N \in 0..(N - 1) /\ (k + 1) % N = IF k % N = N - 1 THEN 0 ELSE (k % N) + 1
  BY <1>1, RemainderStep
<1>3. PICK r \in 0..(N - 1) : r = k % N
  BY <1>2
<1>4. r \in Nat /\ r < N
  BY <1>1, <1>3
<1>5. r % N = r /\ (r + 1) % N = IF r % N = N - 1 THEN 0 ELSE (r % N) + 1
  BY <1>1, <1>4, RemainderStep
<1>6. 1 % N = IF N = 1 THEN 0 ELSE 1
  <2>1. /\ 0 % N \in 0..(N - 1) /\ 0 % N = 0
        /\ (0 + 1) % N = IF 0 % N = N - 1 THEN 0 ELSE (0 % N) + 1
    <3>1. 0 \in Nat /\ 0 < N
      BY <1>1
    <3> QED BY <1>1, <3>1, RemainderStep
  <2> QED BY <1>1, <2>1
<1> QED BY <1>1, <1>2, <1>3, <1>4, <1>5, <1>6

(* What is logged stays exact when nothing is logged and what is due stays *)
(* so, when an execution ends that is not due, and when one logs that is.  *)
LEMMA RecordSame ==
  ASSUME NEW k \in Nat, RecordExact(k), logged' = logged,
         \A e \in 1..k : Due(e)' <=> Due(e)
  PROVE  RecordExact(k)'
BY DEF RecordExact, LoggedExecutions

LEMMA RecordSkips ==
  ASSUME NEW k \in Nat, RecordExact(k)', ~Due(k + 1)'
  PROVE  RecordExact(k + 1)'
<1>1. \A e : e \in 1..(k + 1) <=> e \in 1..k \/ e = k + 1
  OBVIOUS
<1>2. {e \in 1..(k + 1) : Due(e)'} = {e \in 1..k : Due(e)'}
  BY <1>1
<1> QED BY <1>2 DEF RecordExact

LEMMA RecordGrows ==
  ASSUME IInv, NEW k \in Nat, RecordExact(k), Due(k + 1),
         logged' = Append(logged, [execution |-> k + 1, counter |-> AsInt(k + 1)]),
         \A e \in 1..(k + 1) : Due(e)' <=> Due(e)
  PROVE  RecordExact(k + 1)'
<1> DEFINE message == [execution |-> k + 1, counter |-> AsInt(k + 1)]
           n == Len(logged)
<1>1. /\ n \in Nat /\ DOMAIN logged = 1..n /\ DOMAIN logged' = 1..(n + 1)
      /\ \A i \in 1..n : logged'[i] = logged[i]
      /\ logged'[n + 1] = message
  BY DEF IInv, TimeTypeOK, TypeOK
<1>2. message.execution = k + 1 /\ message.counter = AsInt(k + 1)
  OBVIOUS
<1> HIDE DEF n, message
<1>3. \A e : e \in 1..(k + 1) <=> e \in 1..k \/ e = k + 1
  OBVIOUS
<1>4. \A i : i \in 1..(n + 1) <=> i \in 1..n \/ i = n + 1
  BY <1>1
<1>5. LoggedExecutions' = LoggedExecutions \cup {k + 1}
  BY <1>1, <1>2, <1>4 DEF LoggedExecutions
<1>6. LoggedExecutions' = {e \in 1..(k + 1) : Due(e)'}
  BY <1>3, <1>5 DEF RecordExact
<1>7. \A i \in 1..n : logged[i].execution \in 1..k
  BY <1>1 DEF RecordExact, LoggedExecutions
<1>8. ASSUME NEW i \in 1..(n + 1), NEW j \in 1..(n + 1), i < j
      PROVE  logged'[i].execution < logged'[j].execution
  <2>1. i \in 1..n /\ logged'[i] = logged[i] /\ logged[i].execution \in 1..k
    BY <1>1, <1>7, <1>8
  <2>2. CASE j \in 1..n
    BY <1>1, <1>8, <2>1, <2>2 DEF RecordExact
  <2>3. CASE j = n + 1
    BY <1>1, <1>2, <2>1, <2>3
  <2> QED BY <1>4, <2>2, <2>3
<1>9. \A i \in 1..(n + 1) : logged'[i].counter = AsInt(logged'[i].execution)
  BY <1>1, <1>2, <1>4 DEF RecordExact
<1>10. \A v : AsInt(v)' = AsInt(v)
  BY DEF AsInt
<1> QED BY <1>1, <1>6, <1>8, <1>9, <1>10 DEF RecordExact

(* What is known of a single user before its step.                         *)
LEMMA AloneFacts ==
  ASSUME IInv, NEW u \in Threads, AloneWith(u)
  PROVE  /\ N \in Nat \ {0} /\ IntMax \in Nat /\ N + 1 <= IntMax
         /\ executions \in Nat /\ execution[u] = executions
         /\ execution \in [Threads -> 0..MaxExecutions]
         /\ pc \in [Threads -> Pcs] /\ temp \in [Threads -> Nat \cup {NULL}]
         /\ pc[u] # "idle" => executions - 1 \in Nat /\ executions >= 1
         /\ (executions - 1) + 1 = executions
<1>1. /\ N \in Nat \ {0} /\ IntMax \in Nat /\ N + Cardinality(Threads) <= IntMax
      /\ Cardinality(Threads) \in Nat /\ Cardinality(Threads) >= 1
  BY NAssumption, ThreadsCount
<1>2. /\ executions \in Nat /\ execution[u] = executions
      /\ execution \in [Threads -> 0..MaxExecutions]
      /\ pc \in [Threads -> Pcs] /\ temp \in [Threads -> Nat \cup {NULL}]
      /\ pc[u] # "idle" => execution[u] >= 1
  BY NAssumption DEF IInv, TimeTypeOK, TypeOK, LabelsOK, AloneWith
<1> QED BY <1>1, <1>2

(* The message of a single user is the next that is due.                   *)
LEMMA AloneLogs ==
  ASSUME IInv, NEW u \in Threads, macro # "EVERY_T", AloneWith(u), Log(u)
  PROVE  AloneWith(u)'
<1>0. /\ N \in Nat \ {0} /\ IntMax \in Nat /\ N + 1 <= IntMax
      /\ executions - 1 \in Nat /\ executions >= 1 /\ (executions - 1) + 1 = executions
      /\ execution[u] = executions /\ executions \in Nat
      /\ pc \in [Threads -> Pcs]
  BY AloneFacts DEF Log
<1>1. /\ pc[u] = "log" /\ pc' = [pc EXCEPT ![u] = "idle"]
      /\ logged' = Append(logged, [execution |-> executions, counter |-> LOG_OCCURRENCES])
      /\ UNCHANGED <<macro, LOG_OCCURRENCES, LOG_OCCURRENCES_MOD_N, temp, execution,
                     executions, sampled>>
  BY <1>0 DEF Log, Goto
<1>2. PICK k \in Nat : k + 1 = executions /\ k = executions - 1
  BY <1>0
<1>3. LOG_OCCURRENCES = AsInt(executions)
  <2>1. macro \in {"EVERY_N", "IF_EVERY_N", "FIRST_N"}
    BY MacrosAssumption DEF IInv, TimeTypeOK, TypeOK
  <2>2. CASE macro = "EVERY_N" \/ macro = "IF_EVERY_N"
    BY <2>2 DEF AloneWith, EveryNAlone, IfEveryNAlone
  <2>3. CASE macro = "FIRST_N"
    <3>1. executions <= N
      BY <1>1, <2>3 DEF AloneWith, Due
    <3>2. LOG_OCCURRENCES = executions
      BY <1>1, <2>3, <3>1 DEF AloneWith, FirstNAlone
    <3>3. executions \in 0..IntMax
      BY <1>0, <3>1
    <3> QED BY <3>2, <3>3, AsIntFacts
  <2> QED BY <2>1, <2>2, <2>3
<1>4. RecordExact(k) /\ Due(k + 1)
  BY <1>1, <1>2 DEF AloneWith, Completed
<1>5. \A e \in 1..(k + 1) : Due(e)' <=> Due(e)
  BY <1>1 DEF Due
<1>6. RecordExact(k + 1)'
  BY <1>1, <1>2, <1>3, <1>4, <1>5, RecordGrows
<1>7. pc'[u] = "idle" /\ Completed(u)' = k + 1
  BY <1>0, <1>1, <1>2 DEF Completed
<1>8. RecordExact(Completed(u))'
  BY <1>6, <1>7 DEF RecordExact
<1>9. macro = "EVERY_N" => EveryNAlone(u, executions)'
  BY <1>1, <1>7 DEF AloneWith, EveryNAlone, ModNAfter, AsInt
<1>10. macro = "IF_EVERY_N" => IfEveryNAlone(u, executions)'
  BY <1>1, <1>7 DEF AloneWith, IfEveryNAlone, AsInt
<1>11. macro = "FIRST_N" => FirstNAlone(u, executions)'
  BY <1>1, <1>7 DEF AloneWith, FirstNAlone
<1> QED BY <1>0, <1>1, <1>7, <1>8, <1>9, <1>10, <1>11 DEF AloneWith

(* Where the record stands when a single user begins an execution, goes on *)
(* with it, decides to log it or to leave it.                              *)
LEMMA AloneRecord ==
  ASSUME IInv, NEW u \in Threads, AloneWith(u), logged' = logged, executions' \in Nat,
         \A e \in 1..Completed(u) : Due(e)' <=> Due(e),
         \/ pc[u] = "idle" /\ pc'[u] # "idle" /\ executions' = executions + 1
         \/ pc[u] # "idle" /\ pc'[u] # "idle" /\ executions' = executions
         \/ /\ pc[u] # "idle" /\ pc'[u] = "idle" /\ executions' = executions
            /\ ~Due(executions)'
  PROVE  RecordExact(Completed(u))'
<1>0. executions \in Nat /\ (pc[u] # "idle" => executions - 1 \in Nat)
  BY AloneFacts
<1>1. PICK k \in Nat : k = Completed(u)
  BY <1>0 DEF Completed
<1>2. RecordExact(k) /\ \A e \in 1..k : Due(e)' <=> Due(e)
  BY <1>1 DEF AloneWith
<1>3. RecordExact(k)'
  BY <1>2, RecordSame
<1>4. CASE pc'[u] # "idle"
  <2>1. Completed(u)' = k
    BY <1>0, <1>1, <1>4 DEF Completed
  <2> QED BY <1>3, <2>1 DEF RecordExact
<1>5. CASE pc'[u] = "idle"
  <2>1. /\ pc[u] # "idle" /\ k + 1 = executions /\ Completed(u)' = k + 1
        /\ executions' = executions /\ ~Due(executions)'
    BY <1>0, <1>1, <1>5 DEF Completed
  <2>2. ~Due(k + 1)'
    BY <2>1 DEF Due
  <2>3. RecordExact(k + 1)'
    BY <1>3, <2>2, RecordSkips
  <2> QED BY <2>1, <2>3 DEF RecordExact
<1> QED BY <1>4, <1>5

(* LOG_EVERY_N with a single user. *)
LEMMA EveryNAloneStep ==
  ASSUME IInv, NEW u \in Threads, macro = "EVERY_N", AloneWith(u),
         CountOccurrence(u) \/ AddModN(u) \/ SubtractModN(u) \/ CompareModN(u)
  PROVE  AloneWith(u)'
<1>0. /\ N \in Nat \ {0} /\ executions \in Nat /\ execution[u] = executions
      /\ execution \in [Threads -> 0..MaxExecutions]
      /\ pc \in [Threads -> Pcs]
      /\ pc[u] # "idle" => executions - 1 \in Nat /\ executions >= 1
      /\ (executions - 1) + 1 = executions
  BY AloneFacts
<1>1. /\ macro' = macro /\ sampled' = sampled /\ logged' = logged
      /\ \A e : Due(e)' <=> Due(e)
  BY DEF CountOccurrence, AddModN, SubtractModN, CompareModN, Due
<1>2. EveryNAlone(u, executions) /\ LOG_OCCURRENCES = AsInt(executions)
  BY DEF AloneWith, EveryNAlone
<1>3. \A e : Due(e) <=> (e - 1) % N = 0
  BY DEF Due
<1>4. SUFFICES /\ execution'[u] = executions' /\ executions' \in Nat
               /\ pc'[u] = "log" => Due(executions)'
               /\ EveryNAlone(u, executions)'
               /\ \/ pc[u] = "idle" /\ pc'[u] # "idle" /\ executions' = executions + 1
                  \/ pc[u] # "idle" /\ pc'[u] # "idle" /\ executions' = executions
                  \/ /\ pc[u] # "idle" /\ pc'[u] = "idle" /\ executions' = executions
                     /\ ~Due(executions)'
  <2>1. \A e \in 1..Completed(u) : Due(e)' <=> Due(e)
    BY <1>1
  <2>2. RecordExact(Completed(u))'
    BY <1>1, <1>4, <2>1, AloneRecord
  <2> QED BY <1>1, <1>4, <2>2 DEF AloneWith
<1>5. CASE CountOccurrence(u)
  <2>1. /\ pc[u] = "idle" /\ pc' = [pc EXCEPT ![u] = "add"]
        /\ executions' = executions + 1
        /\ execution' = [execution EXCEPT ![u] = executions + 1]
        /\ LOG_OCCURRENCES' = AsInt(LOG_OCCURRENCES + 1)
        /\ LOG_OCCURRENCES_MOD_N' = LOG_OCCURRENCES_MOD_N
    BY <1>5 DEF CountOccurrence, Begin, Goto
  <2>2. LOG_OCCURRENCES' = AsInt(executions + 1)
    BY <1>0, <1>2, <2>1, AsIntNext
  <2>3. LOG_OCCURRENCES_MOD_N' = ModNAfter(executions)
    BY <1>2, <2>1 DEF EveryNAlone
  <2>4. pc'[u] = "add" /\ executions' - 1 = executions
    BY <1>0, <2>1
  <2>5. EveryNAlone(u, executions)'
    BY <2>1, <2>2, <2>3, <2>4 DEF EveryNAlone, ModNAfter, AsInt
  <2> QED BY <1>0, <2>1, <2>4, <2>5
<1>6. CASE AddModN(u)
  <2>1. /\ pc[u] = "add" /\ LOG_OCCURRENCES_MOD_N' = LOG_OCCURRENCES_MOD_N + 1
        /\ pc' = [pc EXCEPT ![u] = IF Wraps(LOG_OCCURRENCES_MOD_N + 1) THEN "subtract"
                                   ELSE "compare"]
        /\ executions' = executions /\ execution' = execution
        /\ LOG_OCCURRENCES' = LOG_OCCURRENCES
    BY <1>6 DEF AddModN, Goto
  <2>2. PICK k \in Nat : k = executions - 1 /\ k + 1 = executions
    BY <1>0, <2>1
  <2>3. LOG_OCCURRENCES_MOD_N = ModNAfter(k)
    BY <1>2, <2>1, <2>2 DEF EveryNAlone
  <2>4. CASE ModNAfter(k) + 1 > N
    <3>1. pc'[u] = "subtract"
      BY <1>0, <2>1, <2>3, <2>4 DEF Wraps
    <3>2. LOG_OCCURRENCES_MOD_N' = N + 1 /\ (executions' - 1) % N = 0
      BY <2>1, <2>2, <2>3, <2>4, ModNNext
    <3> QED BY <1>0, <1>2, <2>1, <3>1, <3>2 DEF EveryNAlone, AsInt
  <2>5. CASE ModNAfter(k) + 1 <= N
    <3>1. pc'[u] = "compare"
      BY <1>0, <2>1, <2>3, <2>5, ModNNext DEF Wraps
    <3>2. LOG_OCCURRENCES_MOD_N' = ModNAfter(executions)
      BY <2>1, <2>2, <2>3, <2>5, ModNNext
    <3> QED BY <1>0, <1>2, <2>1, <3>1, <3>2 DEF EveryNAlone, AsInt, ModNAfter
  <2> QED BY <1>0, <2>4, <2>5, ModNNext
<1>7. CASE SubtractModN(u)
  <2>1. /\ pc[u] = "subtract" /\ LOG_OCCURRENCES_MOD_N' = LOG_OCCURRENCES_MOD_N - N
        /\ pc' = [pc EXCEPT ![u] = "compare"]
        /\ executions' = executions /\ execution' = execution
        /\ LOG_OCCURRENCES' = LOG_OCCURRENCES
    BY <1>7 DEF SubtractModN, Goto, WrapAround
  <2>2. PICK k \in Nat : k = executions - 1 /\ k + 1 = executions
    BY <1>0, <2>1
  <2>3. LOG_OCCURRENCES_MOD_N = N + 1 /\ k % N = 0
    BY <1>2, <2>1, <2>2 DEF EveryNAlone
  <2>4. LOG_OCCURRENCES_MOD_N' = ModNAfter(executions)
    <3>1. ModNAfter(k + 1) = 1
      BY <2>3, ModNNext
    <3> QED BY <1>0, <2>1, <2>2, <2>3, <3>1
  <2>5. pc'[u] = "compare"
    BY <1>0, <2>1
  <2> QED BY <1>0, <1>2, <2>1, <2>4, <2>5 DEF EveryNAlone, AsInt, ModNAfter
<1>8. CASE CompareModN(u)
  <2>1. /\ pc[u] = "compare"
        /\ pc' = [pc EXCEPT ![u] = IF LOG_OCCURRENCES_MOD_N = 1 THEN "log" ELSE "idle"]
        /\ executions' = executions /\ execution' = execution
        /\ UNCHANGED <<LOG_OCCURRENCES, LOG_OCCURRENCES_MOD_N>>
    BY <1>8 DEF CompareModN, Decide, Goto
  <2>2. PICK k \in Nat : k = executions - 1 /\ k + 1 = executions
    BY <1>0, <2>1
  <2>3. LOG_OCCURRENCES_MOD_N = ModNAfter(executions)
    BY <1>2, <2>1 DEF EveryNAlone
  <2>4. LOG_OCCURRENCES_MOD_N = 1 <=> Due(executions)
    BY <1>3, <2>2, <2>3, ModNNext
  <2>5. Due(executions)' <=> Due(executions)
    BY <1>1, <2>1 DEF Due
  <2>6. pc'[u] = IF LOG_OCCURRENCES_MOD_N = 1 THEN "log" ELSE "idle"
    BY <1>0, <2>1
  <2>7. EveryNAlone(u, executions)'
    BY <1>2, <2>1, <2>3, <2>6 DEF EveryNAlone, AsInt, ModNAfter
  <2> QED BY <1>0, <2>1, <2>4, <2>5, <2>6, <2>7
<1> QED BY <1>5, <1>6, <1>7, <1>8

(* LOG_FIRST_N with a single user. *)
LEMMA FirstNAloneStep ==
  ASSUME IInv, NEW u \in Threads, macro = "FIRST_N", AloneWith(u),
         TestFirst(u) \/ Increment(u) \/ CompareFirst(u)
  PROVE  AloneWith(u)'
<1>0. /\ N \in Nat \ {0} /\ executions \in Nat /\ execution[u] = executions
      /\ IntMax \in Nat /\ N + 1 <= IntMax
      /\ execution \in [Threads -> 0..MaxExecutions]
      /\ pc \in [Threads -> Pcs]
      /\ pc[u] # "idle" => executions - 1 \in Nat /\ executions >= 1
  BY AloneFacts
<1>1. /\ macro' = macro /\ sampled' = sampled /\ logged' = logged
      /\ \A e : Due(e)' <=> Due(e)
  BY DEF TestFirst, Increment, CompareFirst, Due
<1>2. FirstNAlone(u, executions)
  BY DEF AloneWith
<1>3. \A e : Due(e) <=> e <= N
  BY DEF Due
<1>4. SUFFICES /\ execution'[u] = executions' /\ executions' \in Nat
               /\ pc'[u] = "log" => Due(executions)'
               /\ FirstNAlone(u, executions)'
               /\ \/ pc[u] = "idle" /\ pc'[u] # "idle" /\ executions' = executions + 1
                  \/ pc[u] # "idle" /\ pc'[u] # "idle" /\ executions' = executions
                  \/ /\ pc[u] # "idle" /\ pc'[u] = "idle" /\ executions' = executions
                     /\ ~Due(executions)'
  <2>1. \A e \in 1..Completed(u) : Due(e)' <=> Due(e)
    BY <1>1
  <2>2. RecordExact(Completed(u))'
    BY <1>1, <1>4, <2>1, AloneRecord
  <2> QED BY <1>1, <1>4, <2>2 DEF AloneWith
<1>5. CASE TestFirst(u)
  <2>1. /\ pc[u] = "idle" /\ executions' = executions + 1
        /\ pc' = [pc EXCEPT ![u] = IF Counted(LOG_OCCURRENCES) THEN "increment"
                                   ELSE "compare_first"]
        /\ execution' = [execution EXCEPT ![u] = executions + 1]
        /\ LOG_OCCURRENCES' = LOG_OCCURRENCES
    BY <1>5 DEF TestFirst, Begin, Goto
  <2>2. LOG_OCCURRENCES = IF executions <= N THEN executions ELSE N + 1
    BY <1>2, <2>1 DEF FirstNAlone
  <2>3. pc'[u] = IF LOG_OCCURRENCES <= N THEN "increment" ELSE "compare_first"
    BY <1>0, <2>1 DEF Counted
  <2>4. execution'[u] = executions'
    BY <1>0, <2>1
  <2>5. FirstNAlone(u, executions)'
    BY <1>0, <2>1, <2>2, <2>3 DEF FirstNAlone
  <2> QED BY <1>0, <2>1, <2>3, <2>4, <2>5
<1>6. CASE Increment(u)
  <2>1. /\ pc[u] = "increment" /\ executions' = executions /\ execution' = execution
        /\ pc' = [pc EXCEPT ![u] = "compare_first"]
        /\ LOG_OCCURRENCES' = AsInt(LOG_OCCURRENCES + 1)
    BY <1>6 DEF Increment, Goto
  <2>2. LOG_OCCURRENCES = executions - 1 /\ executions <= N + 1
    BY <1>2, <2>1 DEF FirstNAlone
  <2>3. LOG_OCCURRENCES + 1 = executions /\ executions \in 0..IntMax
    BY <1>0, <2>2
  <2>4. LOG_OCCURRENCES' = executions
    BY <1>0, <2>1, <2>3, AsIntFacts
  <2>5. pc'[u] = "compare_first"
    BY <1>0, <2>1
  <2>6. FirstNAlone(u, executions)'
    BY <1>0, <2>1, <2>2, <2>4, <2>5 DEF FirstNAlone
  <2> QED BY <1>0, <2>1, <2>5, <2>6
<1>7. CASE CompareFirst(u)
  <2>1. /\ pc[u] = "compare_first" /\ executions' = executions /\ execution' = execution
        /\ pc' = [pc EXCEPT ![u] = IF AmongFirst(u) THEN "log" ELSE "idle"]
        /\ LOG_OCCURRENCES' = LOG_OCCURRENCES
    BY <1>7 DEF CompareFirst, Decide, Goto
  <2>2. LOG_OCCURRENCES = IF executions <= N THEN executions ELSE N + 1
    BY <1>2, <2>1 DEF FirstNAlone
  <2>3. AmongFirst(u) <=> executions <= N
    BY <1>0, <2>2 DEF AmongFirst
  <2>4. pc'[u] = IF executions <= N THEN "log" ELSE "idle"
    BY <1>0, <2>1, <2>3
  <2>5. Due(executions)' <=> executions <= N
    BY <1>1, <2>1 DEF Due
  <2>6. FirstNAlone(u, executions)'
    BY <1>0, <2>1, <2>2, <2>4 DEF FirstNAlone
  <2> QED BY <1>0, <2>1, <2>4, <2>5, <2>6
<1> QED BY <1>5, <1>6, <1>7

(* The elements of a sequence are of its set. *)
LEMMA SequenceElements ==
  ASSUME NEW S, NEW q \in Seq(S)
  PROVE  \A i \in 1..Len(q) : q[i] \in S
OBVIOUS

(* LOG_IF_EVERY_N with a single user. *)
LEMMA IfEveryNAloneStep ==
  ASSUME IInv, NEW u \in Threads, macro = "IF_EVERY_N", AloneWith(u), executions' \in Nat,
         \/ CountOccurrence(u)
         \/ \E holds \in BOOLEAN : Condition(u, holds)
         \/ StoreModN(u)
  PROVE  AloneWith(u)'
<1>0. /\ N \in Nat \ {0} /\ executions \in Nat /\ execution[u] = executions
      /\ execution \in [Threads -> 0..MaxExecutions]
      /\ pc \in [Threads -> Pcs] /\ temp \in [Threads -> Nat \cup {NULL}]
      /\ pc[u] # "idle" => executions - 1 \in Nat /\ executions >= 1
  BY AloneFacts
<1>1. /\ macro' = macro /\ logged' = logged
      /\ sampled \in Seq(1..MaxExecutions) /\ Len(sampled) \in Nat
      /\ DOMAIN sampled = 1..Len(sampled)
      /\ \A i \in 1..Len(sampled) : sampled[i] \in Nat
  <2>1. sampled \in Seq(1..MaxExecutions)
    BY DEF IInv, TimeTypeOK, TypeOK
  <2>2. macro' = macro /\ logged' = logged
    BY DEF CountOccurrence, Condition, StoreModN
  <2>3. Len(sampled) \in Nat /\ DOMAIN sampled = 1..Len(sampled)
    BY <2>1
  <2>4. \A i \in 1..Len(sampled) : sampled[i] \in Nat
    <3>1. \A i \in 1..Len(sampled) : sampled[i] \in 1..MaxExecutions
      BY <2>1, SequenceElements
    <3>2. 1..MaxExecutions \subseteq Nat
      BY NAssumption
    <3> QED BY <3>1, <3>2
  <2> QED BY <2>1, <2>2, <2>3, <2>4
<1>2. /\ LOG_OCCURRENCES = AsInt(executions)
      /\ \A i \in 1..Len(sampled) :
           sampled[i] <= executions /\ (pc[u] = "condition" => sampled[i] < executions)
      /\ \A i, j \in 1..Len(sampled) : i < j => sampled[i] < sampled[j]
      /\ pc[u] # "store" => LOG_OCCURRENCES_MOD_N = Len(sampled) % N
  BY <1>1 DEF AloneWith, IfEveryNAlone
<1>3. \A e : Due(e) <=> \E i \in DOMAIN sampled : sampled[i] = e /\ (i - 1) % N = 0
  BY DEF Due
<1>4. \A e : Due(e)' <=> \E i \in DOMAIN sampled' : sampled'[i] = e /\ (i - 1) % N = 0
  BY <1>1 DEF Due
<1>5. SUFFICES /\ execution'[u] = executions'
               /\ \A e \in 1..Completed(u) : Due(e)' <=> Due(e)
               /\ pc'[u] = "log" => Due(executions)'
               /\ IfEveryNAlone(u, executions)'
               /\ \/ pc[u] = "idle" /\ pc'[u] # "idle" /\ executions' = executions + 1
                  \/ pc[u] # "idle" /\ pc'[u] # "idle" /\ executions' = executions
                  \/ /\ pc[u] # "idle" /\ pc'[u] = "idle" /\ executions' = executions
                     /\ ~Due(executions)'
  <2>1. RecordExact(Completed(u))'
    BY <1>1, <1>5, AloneRecord
  <2> QED BY <1>1, <1>5, <2>1 DEF AloneWith
<1>6. CASE CountOccurrence(u)
  <2>1. /\ pc[u] = "idle" /\ pc' = [pc EXCEPT ![u] = "condition"]
        /\ executions' = executions + 1
        /\ execution' = [execution EXCEPT ![u] = executions + 1]
        /\ LOG_OCCURRENCES' = AsInt(LOG_OCCURRENCES + 1)
        /\ LOG_OCCURRENCES_MOD_N' = LOG_OCCURRENCES_MOD_N /\ sampled' = sampled
    BY <1>6 DEF CountOccurrence, Begin, Goto
  <2>2. LOG_OCCURRENCES' = AsInt(executions + 1)
    BY <1>0, <1>2, <2>1, AsIntNext
  <2>3. pc'[u] = "condition" /\ execution'[u] = executions'
    BY <1>0, <2>1
  <2>4. \A i \in 1..Len(sampled) : sampled[i] < executions + 1
    BY <1>0, <1>1, <1>2
  <2>5. IfEveryNAlone(u, executions)'
    BY <1>0, <1>1, <1>2, <2>1, <2>2, <2>3, <2>4 DEF IfEveryNAlone, AsInt
  <2>6. \A e : Due(e)' <=> Due(e)
    BY <1>3, <1>4, <2>1
  <2> QED BY <2>1, <2>3, <2>5, <2>6
<1>7. CASE \E holds \in BOOLEAN : Condition(u, holds)
  <2>1. /\ pc[u] = "condition" /\ executions' = executions /\ execution' = execution
        /\ LOG_OCCURRENCES' = LOG_OCCURRENCES
        /\ LOG_OCCURRENCES_MOD_N' = LOG_OCCURRENCES_MOD_N
    BY <1>7 DEF Condition
  <2>2. Completed(u) = executions - 1
    BY <2>1 DEF Completed
  <2>3. CASE /\ temp' = [temp EXCEPT ![u] = LOG_OCCURRENCES_MOD_N]
             /\ sampled' = Append(sampled, executions)
             /\ pc' = [pc EXCEPT ![u] = "store"]
    <3>1. pc'[u] = "store" /\ temp'[u] = Len(sampled) % N
      BY <1>0, <1>2, <2>1, <2>3
    <3>2. /\ Len(sampled') = Len(sampled) + 1
          /\ DOMAIN sampled' = 1..(Len(sampled) + 1)
          /\ \A i \in 1..Len(sampled) : sampled'[i] = sampled[i]
          /\ sampled'[Len(sampled) + 1] = executions
          /\ sampled' # <<>>
      BY <1>1, <2>3
    <3>3. \A i : i \in 1..(Len(sampled) + 1) <=> i \in 1..Len(sampled) \/ i = Len(sampled) + 1
      BY <1>1
    <3>4. ASSUME NEW e \in 1..Completed(u) PROVE Due(e)' <=> Due(e)
      <4>1. e # executions
        BY <1>0, <2>2
      <4> QED BY <1>1, <1>3, <1>4, <3>2, <3>3, <4>1
    <3>5. \A i \in 1..(Len(sampled) + 1) : sampled'[i] <= executions
      BY <1>0, <1>1, <1>2, <3>2, <3>3
    <3>6. \A i, j \in 1..(Len(sampled) + 1) : i < j => sampled'[i] < sampled'[j]
      <4> SUFFICES ASSUME NEW i \in 1..(Len(sampled) + 1), NEW j \in 1..(Len(sampled) + 1),
                          i < j
                   PROVE  sampled'[i] < sampled'[j]
        OBVIOUS
      <4>1. i \in 1..Len(sampled)
        BY <1>1
      <4> QED BY <1>1, <1>2, <2>1, <3>2, <3>3, <4>1
    <3>7. (Len(sampled) + 1) - 1 = Len(sampled)
      BY <1>1
    <3>8. IfEveryNAlone(u, executions)'
      BY <1>2, <2>1, <3>1, <3>2, <3>5, <3>6, <3>7 DEF IfEveryNAlone, AsInt
    <3> QED BY <1>0, <2>1, <3>1, <3>4, <3>8
  <2>4. CASE pc' = [pc EXCEPT ![u] = "idle"] /\ UNCHANGED <<temp, sampled>>
    <3>1. pc'[u] = "idle"
      BY <1>0, <2>4
    <3>2. \A e : Due(e)' <=> Due(e)
      BY <1>3, <1>4, <2>4
    <3>3. ~Due(executions)
      <4>1. \A i \in 1..Len(sampled) : sampled[i] # executions
        BY <1>0, <1>1, <1>2, <2>1
      <4> QED BY <1>1, <1>3, <4>1
    <3>4. ~Due(executions)'
      BY <1>3, <1>4, <2>1, <2>4, <3>3
    <3>5. IfEveryNAlone(u, executions)'
      BY <1>1, <1>2, <2>1, <2>4, <3>1 DEF IfEveryNAlone, AsInt
    <3> QED BY <1>0, <2>1, <3>1, <3>2, <3>4, <3>5
  <2> QED BY <1>0, <1>7, <2>3, <2>4 DEF Condition, Goto
<1>8. CASE StoreModN(u)
  <2>1. /\ pc[u] = "store" /\ executions' = executions /\ execution' = execution
        /\ LOG_OCCURRENCES_MOD_N' = (temp[u] + 1) % N
        /\ pc' = [pc EXCEPT ![u] = IF LOG_OCCURRENCES_MOD_N' = 1 % N THEN "log" ELSE "idle"]
        /\ UNCHANGED <<LOG_OCCURRENCES, sampled>>
    BY <1>8 DEF StoreModN, Decide, Goto
  <2>2. /\ sampled # <<>> /\ sampled[Len(sampled)] = executions
        /\ temp[u] = (Len(sampled) - 1) % N
    BY <2>1 DEF AloneWith, IfEveryNAlone
  <2>3. Len(sampled) >= 1
    BY <1>1, <2>2
  <2>4. PICK k \in Nat : k = Len(sampled) - 1 /\ k + 1 = Len(sampled)
    <3>1. Len(sampled) - 1 \in Nat /\ (Len(sampled) - 1) + 1 = Len(sampled)
      BY <1>1, <2>3
    <3> QED BY <3>1
  <2>5. LOG_OCCURRENCES_MOD_N' = (k + 1) % N /\ ((k + 1) % N = 1 % N <=> k % N = 0)
    BY <2>1, <2>2, <2>4, SampleNext
  <2>6. Due(executions) <=> k % N = 0
    <3>1. \A i \in 1..Len(sampled) : sampled[i] = executions => i = Len(sampled)
      <4> SUFFICES ASSUME NEW i \in 1..Len(sampled), i # Len(sampled)
                   PROVE  sampled[i] # executions
        OBVIOUS
      <4>0. Len(sampled) \in Nat
        BY <1>1
      <4>1. i < Len(sampled) /\ Len(sampled) \in 1..Len(sampled)
        BY <2>3, <4>0
      <4>2. sampled[i] < sampled[Len(sampled)] /\ sampled[i] \in Nat
        BY <1>1, <1>2, <4>1
      <4> QED BY <1>0, <2>2, <4>2
    <3>2. Len(sampled) \in DOMAIN sampled
      BY <1>1, <2>3
    <3> QED BY <1>1, <1>3, <2>2, <2>4, <3>1, <3>2
  <2>7. \A e : Due(e)' <=> Due(e)
    BY <1>3, <1>4, <2>1
  <2>8. Due(executions)' <=> Due(executions)
    BY <1>3, <1>4, <2>1
  <2>9. pc'[u] = IF k % N = 0 THEN "log" ELSE "idle"
    BY <1>0, <2>1, <2>5
  <2>10. IfEveryNAlone(u, executions)'
    BY <1>1, <1>2, <2>1, <2>4, <2>5, <2>9 DEF IfEveryNAlone, AsInt
  <2> QED BY <1>0, <2>1, <2>6, <2>7, <2>8, <2>9, <2>10
<1> QED BY <1>6, <1>7, <1>8

(* No execution is over, and none is due. *)
LEMMA AloneStarts == SiteInit => AloneInv
<1> SUFFICES ASSUME SiteInit, macro # "EVERY_T", NEW u \in Threads PROVE AloneWith(u)
  BY DEF AloneInv
<1>1. /\ N \in Nat \ {0} /\ IntMax \in Nat /\ N + 1 <= IntMax
  BY NAssumption, ThreadsCount
<1>2. /\ execution[u] = 0 /\ executions = 0 /\ pc[u] = "idle"
      /\ logged = <<>> /\ sampled = <<>>
      /\ LOG_OCCURRENCES = 0 /\ LOG_OCCURRENCES_MOD_N = 0
  BY DEF SiteInit, Init
<1>3. LoggedExecutions = {} /\ {e \in 1..0 : Due(e)} = {}
  BY <1>2 DEF LoggedExecutions
<1>4. RecordExact(Completed(u))
  BY <1>2, <1>3 DEF RecordExact, Completed
<1>5. AsInt(0) = 0
  BY <1>1, AsIntFacts
<1>6. EveryNAlone(u, executions)
  BY <1>2, <1>5 DEF EveryNAlone, ModNAfter
<1>7. IfEveryNAlone(u, executions)
  <2>1. 0 % N = 0
    BY <1>1, RemainderStep
  <2> QED BY <1>2, <1>5, <2>1 DEF IfEveryNAlone
<1>8. FirstNAlone(u, executions)
  BY <1>1, <1>2 DEF FirstNAlone
<1> QED BY <1>2, <1>4, <1>6, <1>7, <1>8 DEF AloneWith

(* Every step of a single user goes on with its executions. *)
LEMMA AloneStep ==
  IInv /\ IInv' /\ AloneInv /\ [SiteNext]_<<vars, timeVars>> => AloneInv'
<1> SUFFICES ASSUME IInv, IInv', AloneInv, [SiteNext]_<<vars, timeVars>>,
                    macro' # "EVERY_T", NEW u \in Threads, Users' \subseteq {u}
             PROVE  AloneWith(u)'
  BY DEF AloneInv
<1>0. /\ execution \in [Threads -> 0..MaxExecutions] /\ MaxExecutions \in Nat
      /\ executions \in Nat /\ executions' \in Nat
      /\ \A t \in Threads : pc[t] # "idle" => execution[t] >= 1
  <2>1. TypeOK /\ TypeOK' /\ LabelsOK
    BY DEF IInv, TimeTypeOK
  <2>2. MaxExecutions \in Nat /\ 0..MaxExecutions \subseteq Nat
    BY NAssumption
  <2>3. execution \in [Threads -> 0..MaxExecutions] /\ executions \in 0..MaxExecutions
    BY <2>1 DEF TypeOK
  <2>4. executions' \in 0..MaxExecutions
    BY <2>1 DEF TypeOK
  <2>5. \A t \in Threads : pc[t] # "idle" => execution[t] >= 1
    BY <2>1 DEF LabelsOK
  <2> QED BY <2>2, <2>3, <2>4, <2>5
<1>1. CASE UNCHANGED <<vars, timeVars>>
  <2>1. macro # "EVERY_T" /\ Users \subseteq {u}
    BY <1>1 DEF vars, Users
  <2>2. AloneWith(u)
    BY <2>1 DEF AloneInv
  <2>3. \A e : Due(e)' <=> Due(e)
    BY <1>1 DEF vars, Due
  <2>4. Completed(u)' = Completed(u) /\ LoggedExecutions' = LoggedExecutions
    BY <1>1 DEF vars, Completed, LoggedExecutions
  <2>5. RecordExact(Completed(u))'
    <3>1. {e \in 1..Completed(u) : Due(e)}' = {e \in 1..Completed(u) : Due(e)}
      BY <2>3, <2>4
    <3> QED BY <1>1, <2>2, <2>4, <3>1 DEF vars, AloneWith, RecordExact, AsInt
  <2>6. (pc[u] = "log" => Due(executions))'
    BY <1>1, <2>2 DEF vars, AloneWith, Due
  <2>7. /\ EveryNAlone(u, executions)' <=> EveryNAlone(u, executions)
        /\ IfEveryNAlone(u, executions)' <=> IfEveryNAlone(u, executions)
        /\ FirstNAlone(u, executions)' <=> FirstNAlone(u, executions)
    BY <1>1 DEF vars, EveryNAlone, IfEveryNAlone, FirstNAlone, ModNAfter, AsInt
  <2> QED BY <1>1, <2>2, <2>5, <2>6, <2>7 DEF vars, AloneWith
<1>2. ASSUME NEW t \in Threads,
             \/ CountOccurrence(t) \/ AddModN(t) \/ SubtractModN(t) \/ CompareModN(t)
             \/ \E holds \in BOOLEAN : Condition(t, holds)
             \/ StoreModN(t)
             \/ TestFirst(t) \/ Increment(t) \/ CompareFirst(t)
             \/ Log(t)
      PROVE  AloneWith(u)'
  <2>1. macro' = macro
    BY <1>2 DEF CountOccurrence, AddModN, SubtractModN, CompareModN, Condition, StoreModN,
       TestFirst, Increment, CompareFirst, Log
  <2>2. /\ execution' = execution \/ execution' = [execution EXCEPT ![t] = executions + 1]
        /\ pc[t] # "idle" \/ execution' = [execution EXCEPT ![t] = executions + 1]
    BY <1>2 DEF CountOccurrence, AddModN, SubtractModN, CompareModN, Condition, StoreModN,
       TestFirst, Increment, CompareFirst, Log, Begin
  <2>3. t \in Users' /\ Users \subseteq Users'
    BY <1>0, <2>2 DEF Users
  <2>4. t = u /\ Users \subseteq {u}
    BY <2>3
  <2>5. macro # "EVERY_T" /\ AloneWith(u)
    BY <2>1, <2>4 DEF AloneInv
  <2>6. CASE Log(t)
    BY <2>4, <2>5, <2>6, AloneLogs
  <2>7. CASE macro = "EVERY_N" /\ ~Log(t)
    <3>1. CountOccurrence(u) \/ AddModN(u) \/ SubtractModN(u) \/ CompareModN(u)
      BY <1>2, <2>4, <2>7 DEF Condition, StoreModN, TestFirst, Increment, CompareFirst,
         IInv, LabelsOK
    <3> QED BY <2>5, <2>7, <3>1, EveryNAloneStep
  <2>8. CASE macro = "IF_EVERY_N" /\ ~Log(t)
    <3>1. CountOccurrence(u) \/ (\E holds \in BOOLEAN : Condition(u, holds)) \/ StoreModN(u)
      BY <1>2, <2>4, <2>8 DEF AddModN, SubtractModN, CompareModN, TestFirst, Increment,
         CompareFirst, IInv, LabelsOK
    <3> QED BY <1>0, <2>5, <2>8, <3>1, IfEveryNAloneStep
  <2>9. CASE macro = "FIRST_N" /\ ~Log(t)
    <3>1. TestFirst(u) \/ Increment(u) \/ CompareFirst(u)
      BY <1>2, <2>4, <2>9 DEF CountOccurrence, AddModN, SubtractModN, CompareModN, Condition,
         StoreModN, IInv, LabelsOK
    <3> QED BY <2>5, <2>9, <3>1, FirstNAloneStep
  <2>10. macro \in {"EVERY_N", "IF_EVERY_N", "FIRST_N"}
    BY <2>5, MacrosAssumption DEF IInv, TimeTypeOK, TypeOK
  <2> QED BY <2>6, <2>7, <2>8, <2>9, <2>10
<1>3. ~(Tick \/ \E t \in Threads : ReadClock(t) \/ LoadPrevious(t) \/ StorePrevious(t))
  <2> SUFFICES ASSUME Tick \/ \E t \in Threads : ReadClock(t) \/ LoadPrevious(t) \/ StorePrevious(t)
               PROVE  macro = "EVERY_T" /\ macro' = macro
    OBVIOUS
  <2> QED BY DEF Tick, vars, ReadClock, LoadPrevious, StorePrevious, countVars, IInv, LabelsOK
<1> QED BY <1>1, <1>2, <1>3 DEF SiteNext, Next

(* What this says of a quiet site with a single user. *)
LEMMA AloneFromInv == IInv /\ AloneInv => ExactWhenAlone
<1> SUFFICES ASSUME IInv, AloneInv, macro # "EVERY_T", Cardinality(Users) = 1, Quiet
             PROVE  /\ LoggedExecutions = {k \in 1..executions : Due(k)}
                    /\ Cardinality(LoggedExecutions) = Len(logged)
                    /\ \A i \in DOMAIN logged : logged[i].counter = AsInt(logged[i].execution)
  BY DEF ExactWhenAlone
<1>1. IsFiniteSet(Users) /\ Users \subseteq Threads
  BY BurstSets DEF Users
<1>2. PICK u : Users = {u}
  BY <1>1, FS_Singleton
<1>3. u \in Threads /\ AloneWith(u)
  BY <1>1, <1>2 DEF AloneInv
<1>4. RecordExact(executions)
  BY <1>3 DEF AloneWith, Completed, Quiet
<1>5. Cardinality(LoggedExecutions) = Len(logged)
  <2> DEFINE f == [i \in 1..Len(logged) |-> logged[i].execution]
  <2>1. Len(logged) \in Nat /\ DOMAIN logged = 1..Len(logged)
    BY DEF IInv, TimeTypeOK, TypeOK
  <2>2. LoggedExecutions = {logged[i].execution : i \in 1..Len(logged)}
    BY <2>1 DEF LoggedExecutions
  <2>3. f \in Surjection(1..Len(logged), LoggedExecutions)
    BY <2>2 DEF Surjection
  <2>4. \A i, j \in 1..Len(logged) : logged[i].execution = logged[j].execution => i = j
    <3>1. \A i \in 1..Len(logged) : logged[i].execution \in Nat
      <4>1. \A e \in LoggedExecutions : e \in Nat
        BY <1>4 DEF RecordExact
      <4>2. \A i \in 1..Len(logged) : logged[i].execution \in LoggedExecutions
        BY <2>2
      <4> QED BY <4>1, <4>2
    <3>2. \A i, j \in 1..Len(logged) : i < j => logged[i].execution < logged[j].execution
      BY <1>4, <2>1 DEF RecordExact
    <3> QED BY <2>1, <3>1, <3>2
  <2>5. f \in Injection(1..Len(logged), LoggedExecutions)
    <3>1. \A i \in 1..Len(logged) : f[i] = logged[i].execution
      OBVIOUS
    <3> HIDE DEF f
    <3> QED BY <2>3, <2>4, <3>1 DEF Surjection, Injection, IsInjective
  <2> HIDE DEF f
  <2>6. IsFiniteSet(1..Len(logged)) /\ Cardinality(1..Len(logged)) = Len(logged)
    <3>1. 1 \in Int /\ Len(logged) \in Int /\ (1 > Len(logged) => Len(logged) = 0)
      BY <2>1
    <3>2. /\ IsFiniteSet(1..Len(logged))
          /\ Cardinality(1..Len(logged)) =
               IF 1 > Len(logged) THEN 0 ELSE Len(logged) - 1 + 1
      BY <3>1, FS_Interval
    <3> QED BY <2>1, <3>1, <3>2
  <2> QED BY <2>3, <2>5, <2>6, FS_Surjection
<1> QED BY <1>4, <1>5 DEF RecordExact

(* A site that one thread executes logs exactly the documented executions, *)
(* each once and with its number among all executions, also those whose    *)
(* condition failed, through an overflow of the int.                       *)
THEOREM AloneExact == SiteSpec => []ExactWhenAlone
<1>1. SiteInit => AloneInv
  BY AloneStarts
<1>2. IInv /\ IInv' /\ AloneInv /\ [SiteNext]_<<vars, timeVars>> => AloneInv'
  BY AloneStep
<1>3. IInv /\ AloneInv => ExactWhenAlone
  BY AloneFromInv
<1> QED BY <1>1, <1>2, <1>3, SiteInductive, PTL DEF SiteSpec

=============================================================================
