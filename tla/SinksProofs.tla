---------------------------- MODULE SinksProofs ----------------------------
(***************************************************************************)
(* Proofs about Sinks, for any threads, any of the sinks and any number of *)
(* LOG statements: the waiting sink loses, doubles and reorders nothing,   *)
(* the locks are held where the code holds them, and as long as one thread *)
(* logs ScopedMockLog's Log() is called with the message of its statement. *)
(***************************************************************************)
EXTENDS Sinks, SequenceTheorems, FiniteSetTheorems, TLAPS

MessageSeqs == Seq(Messages)

Stacks == [Threads -> Seq(Frame)]

-----------------------------------------------------------------------------
(* The inductive invariant *)

(* Every variable has its type. *)
Typed ==
  /\ log_mutex \in Threads \cup {NULL} /\ mutex_ \in Threads \cup {NULL}
  /\ sinks \subseteq {"waiting", "mock"}
  /\ stack \in Stacks
  /\ count \in [Threads -> Nat] /\ begun \in 0..MaxLogs
  /\ messages_ \in MessageSeqs /\ global_messages \in MessageSeqs
  /\ captured \in MessageSeqs
  /\ should_exit_ \in BOOLEAN
  /\ writer \in {"poll", "take", "LOG", "LOG2", "store", "exited"}
  /\ message \in Messages \cup {NULL}
  /\ message_info_ \in Infos
  /\ main \in {"test", "stop", "join", "done"}
  /\ loggers \subseteq Threads /\ IsFiniteSet(loggers)

\* The LOG statements around the inner one all wait in ScopedMockLog's Log().
Nested(q) == \A i \in DOMAIN q : i > 1 => q[i].pc = "Log"

(* The stack of thread t and the locks it holds. *)
ThreadSound(t) ==
  /\ Nested(stack[t])
  /\ log_mutex = t <=> stack[t] # <<>> /\ stack[t][1].pc \in Locked
  /\ mutex_ = t <=> In(t, "Buffer") \/ (t = Writer /\ writer = "take")
  /\ stack[t] # <<>> => t \in loggers
  /\ In(t, "Buffer") => t = Main /\ "waiting" \in sinks

ThreadsInv == \A t \in Threads : ThreadSound(t)

(* The writer and the end of the test: the writer has a message in hand    *)
(* from taking it to storing it, leaves only an empty queue and only when  *)
(* it is told to, which happens when Main logs no more.                    *)
WriterInv ==
  /\ message = NULL <=> writer \in {"poll", "take", "exited"}
  /\ writer = "take" => messages_ # <<>>
  /\ writer = "exited" => messages_ = <<>> /\ should_exit_
  /\ main # "test" => stack[Main] = <<>> /\ "waiting" \notin sinks
  /\ should_exit_ => main \in {"join", "done"}
  /\ main = "done" => writer = "exited"

\* LOG statements that Run of the writer has begun.
WriterLogged == 2 * Len(global_messages)
                + (IF writer = "LOG2" THEN 1 ELSE IF writer = "store" THEN 2 ELSE 0)

(* Every message has a number that Messages knows. *)
CountInv ==
  /\ \A t \in Threads \ {Writer} : count[t] <= begun
  /\ WriterLogged <= count[Writer]
  /\ count[Writer] + Len(captured) <= begun + WriterLogged

Hand == IF message = NULL THEN <<>> ELSE <<message>>

(* What Main logged for the waiting sink is stored, in the hand of the     *)
(* writer, queued or coming.                                               *)
QueueInv == captured = ((global_messages \o Hand) \o messages_) \o Coming

\* Both arguments of a call of Log() that are those of message m.
Whole(m) == [head |-> m, text |-> m]

(* When t is the only thread that logs, message_info_ is what send() of    *)
(* its innermost statement made of it, and every call of Log() got its own *)
(* message.                                                                *)
MockSound(t) ==
  /\ misdelivered = {}
  /\ In(t, "send_text") => message_info_.head = Msg(t)
  /\ "mock" \in sinks /\ (In(t, "wait") \/ In(t, "WaitTillSent")) =>
       message_info_ = Whole(Msg(t))
  /\ \A i \in DOMAIN stack[t] :
       stack[t][i].pc = "Log" => stack[t][i].info = Whole(stack[t][i].msg)

MockInv == \A t \in Threads : loggers \subseteq {t} => MockSound(t)

IInv == Typed /\ ThreadsInv /\ WriterInv /\ CountInv /\ QueueInv /\ MockInv

-----------------------------------------------------------------------------
(* Stacks *)

(* The inner statement of thread t has come to place p. *)
Moved(t, p) ==
  /\ stack' \in Stacks
  /\ \A u \in Threads \ {t} : stack'[u] = stack[u]
  /\ stack[t] # <<>> /\ stack'[t] # <<>>
  /\ DOMAIN stack'[t] = DOMAIN stack[t]
  /\ 1 \in DOMAIN stack[t]
  /\ stack'[t][1].pc = p /\ stack'[t][1].msg = stack[t][1].msg
  /\ p # "Log" => stack'[t][1].info = stack[t][1].info
  /\ \A i \in DOMAIN stack[t] : i > 1 => stack'[t][i] = stack[t][i]

(* A statement with message m is begun inside of those of thread t. *)
Pushed(t, m) ==
  /\ stack' \in Stacks
  /\ \A u \in Threads \ {t} : stack'[u] = stack[u]
  /\ stack'[t] # <<>>
  /\ stack'[t][1] = [pc |-> "lock", msg |-> m, info |-> NoInfo]
  /\ \A i \in DOMAIN stack'[t] : i > 1 => i - 1 \in DOMAIN stack[t]
                                          /\ stack'[t][i] = stack[t][i - 1]

(* The inner statement of thread t has returned. *)
Popped(t) ==
  /\ stack' \in Stacks
  /\ \A u \in Threads \ {t} : stack'[u] = stack[u]
  /\ stack[t] # <<>>
  /\ \A i \in DOMAIN stack'[t] : i + 1 \in DOMAIN stack[t]
                                 /\ stack'[t][i] = stack[t][i + 1]

(* The first place of a sequence that is not empty. *)
LEMMA FirstPlace ==
  ASSUME NEW S, NEW q \in Seq(S), q # <<>>
  PROVE  /\ 1 \in DOMAIN q /\ q[1] \in S
         /\ DOMAIN q = 1..Len(q) /\ Len(q) \in Nat
<1>1. Len(q) \in Nat /\ DOMAIN q = 1..Len(q)
  OBVIOUS
<1>2. Len(q) # 0
  BY EmptySeq
<1> QED
  BY <1>1, <1>2

(* Another frame in the first place of a sequence. *)
LEMMA FirstReplaced ==
  ASSUME NEW S, NEW q \in Seq(S), q # <<>>, NEW f \in S
  PROVE  /\ [q EXCEPT ![1] = f] \in Seq(S) /\ [q EXCEPT ![1] = f] # <<>>
         /\ DOMAIN [q EXCEPT ![1] = f] = DOMAIN q
         /\ [q EXCEPT ![1] = f][1] = f
         /\ \A i \in DOMAIN q : i > 1 => [q EXCEPT ![1] = f][i] = q[i]
<1>1. 1 \in DOMAIN q /\ DOMAIN q = 1..Len(q) /\ Len(q) \in Nat
  BY FirstPlace
<1> DEFINE r == [q EXCEPT ![1] = f]
<1>2. /\ DOMAIN r = DOMAIN q /\ r[1] = f
      /\ \A i \in DOMAIN q : i > 1 => r[i] = q[i]
  BY <1>1
<1>3. r \in Seq(S)
  BY <1>1
<1>4. r # <<>>
  BY <1>1, <1>2
<1> QED
  BY <1>2, <1>3, <1>4

(* A thread that goes to another place only does that. *)
LEMMA GotoMoves ==
  ASSUME stack \in Stacks, NEW t \in Threads, stack[t] # <<>>,
         NEW p \in Places \ {"Log"}, Goto(t, p)
  PROVE  Moved(t, p)
<1> DEFINE f == [stack[t][1] EXCEPT !.pc = p]
           q == [stack[t] EXCEPT ![1] = f]
<1>1. stack[t] \in Seq(Frame)
  BY DEF Stacks
<1>2. 1 \in DOMAIN stack[t] /\ stack[t][1] \in Frame
  BY <1>1, FirstPlace
<1>3. /\ f \in Frame /\ f.pc = p /\ f.msg = stack[t][1].msg
      /\ f.info = stack[t][1].info
  BY <1>2 DEF Frame
<1>4. stack' = [stack EXCEPT ![t] = q]
  BY DEF Goto
<1> HIDE DEF f
<1>5. /\ q \in Seq(Frame) /\ q # <<>> /\ DOMAIN q = DOMAIN stack[t] /\ q[1] = f
      /\ \A i \in DOMAIN stack[t] : i > 1 => q[i] = stack[t][i]
  BY <1>1, <1>3, FirstReplaced
<1> HIDE DEF q
<1>6. stack' \in Stacks /\ stack'[t] = q /\ \A u \in Threads \ {t} : stack'[u] = stack[u]
  BY <1>4, <1>5 DEF Stacks
<1> QED
  BY <1>2, <1>3, <1>5, <1>6 DEF Moved

(* A statement that begins is put before the others of its thread. *)
LEMMA BeginPushes ==
  ASSUME stack \in Stacks, NEW t \in Threads, NEW m \in Messages,
         stack' = [stack EXCEPT ![t] =
                     <<[pc |-> "lock", msg |-> m, info |-> NoInfo]>> \o @]
  PROVE  Pushed(t, m)
<1> DEFINE f == [pc |-> "lock", msg |-> m, info |-> NoInfo]
           q == <<f>> \o stack[t]
<1>1. stack[t] \in Seq(Frame)
  BY DEF Stacks
<1>2. f \in Frame
  BY DEF Frame, Places, Infos, NoInfo
<1>3. stack' = [stack EXCEPT ![t] = q]
  OBVIOUS
<1>4. f = [pc |-> "lock", msg |-> m, info |-> NoInfo]
  OBVIOUS
<1> HIDE DEF f
<1>5. <<f>> \in Seq(Frame) /\ Len(<<f>>) = 1 /\ <<f>>[1] = f
  BY <1>2
<1>6. /\ q \in Seq(Frame) /\ Len(q) = 1 + Len(stack[t])
      /\ \A i \in 1..Len(q) : q[i] = IF i <= 1 THEN <<f>>[i] ELSE stack[t][i - 1]
  BY <1>1, <1>5, ConcatProperties
<1>7. /\ Len(stack[t]) \in Nat /\ DOMAIN stack[t] = 1..Len(stack[t])
  BY <1>1
<1>8. DOMAIN q = 1..Len(q)
  BY <1>6
<1> HIDE DEF q
<1>9. q[1] = f /\ q # <<>>
  BY <1>5, <1>6, <1>7, EmptySeq
<1>10. \A i \in DOMAIN q : i > 1 => i - 1 \in DOMAIN stack[t] /\ q[i] = stack[t][i - 1]
  BY <1>6, <1>7, <1>8
<1>11. stack' \in Stacks /\ stack'[t] = q /\ \A u \in Threads \ {t} : stack'[u] = stack[u]
  BY <1>3, <1>6 DEF Stacks
<1> QED
  BY <1>4, <1>9, <1>10, <1>11 DEF Pushed

(* A statement that returns uncovers the one around it. *)
LEMMA ReturnPops ==
  ASSUME stack \in Stacks, NEW t \in Threads, stack[t] # <<>>,
         stack' = [stack EXCEPT ![t] = Tail(@)]
  PROVE  Popped(t)
<1> DEFINE q == Tail(stack[t])
<1>1. stack[t] \in Seq(Frame)
  BY DEF Stacks
<1>2. Len(stack[t]) \in Nat /\ Len(stack[t]) # 0 /\ DOMAIN stack[t] = 1..Len(stack[t])
  BY <1>1, EmptySeq
<1>3. /\ q \in Seq(Frame) /\ Len(q) = Len(stack[t]) - 1 /\ DOMAIN q = 1..Len(q)
      /\ \A i \in 1..Len(q) : q[i] = stack[t][i + 1]
  BY <1>1, <1>2
<1>4. stack' = [stack EXCEPT ![t] = q]
  OBVIOUS
<1> HIDE DEF q
<1>5. \A i \in DOMAIN q : i + 1 \in DOMAIN stack[t] /\ q[i] = stack[t][i + 1]
  BY <1>2, <1>3
<1>6. stack' \in Stacks /\ stack'[t] = q /\ \A u \in Threads \ {t} : stack'[u] = stack[u]
  BY <1>3, <1>4 DEF Stacks
<1> QED
  BY <1>5, <1>6 DEF Popped

-----------------------------------------------------------------------------
(* Steps inside of a LOG statement *)

(* NULL is not a thread, and no message either. *)
LEMMA NullFacts == NULL \notin Threads /\ NULL \notin Messages
<1>1. NULL \notin Threads /\ NULL \notin Threads \X Nat
  BY SinksAssumption DEF Threads
<1>2. \A i \in 1..(3 * MaxLogs) : i \in Nat
  BY SinksAssumption
<1>3. \A m \in Messages : m \in Threads \X Nat
  BY <1>2 DEF Messages
<1> QED
  BY <1>1, <1>3

(* How log_mutex goes with the place p that thread t comes to. *)
LogMutexFollows(t, p) ==
  \/ log_mutex' = log_mutex /\ (stack[t][1].pc \in Locked <=> p \in Locked)
  \/ log_mutex = NULL /\ log_mutex' = t /\ p \in Locked
  \/ stack[t][1].pc \in Locked /\ log_mutex' = NULL /\ p \notin Locked

(* How mutex_ does. *)
MutexFollows(t, p) ==
  \/ mutex_' = mutex_ /\ stack[t][1].pc # "Buffer" /\ p # "Buffer"
  \/ mutex_ = NULL /\ mutex_' = t /\ p = "Buffer" /\ t = Main /\ "waiting" \in sinks
  \/ stack[t][1].pc = "Buffer" /\ mutex_' = NULL /\ p # "Buffer"

(* A statement that moves leaves every thread where its locks say. *)
LEMMA MoveThreads ==
  ASSUME Typed, ThreadsInv, NEW t \in Threads, NEW p, Moved(t, p),
         LogMutexFollows(t, p), MutexFollows(t, p),
         UNCHANGED <<sinks, writer, loggers>>
  PROVE  ThreadsInv'
<1> SUFFICES ASSUME NEW u \in Threads PROVE ThreadSound(u)'
  BY DEF ThreadsInv
<1>1. ThreadSound(t) /\ ThreadSound(u)
  BY DEF ThreadsInv
<1>2. NULL \notin Threads /\ Writer # Main
  BY NullFacts, MainAssumption
<1>3. Nested(stack'[u])
  <2>1. CASE u = t
    BY <1>1, <2>1 DEF ThreadSound, Nested, Moved
  <2>2. CASE u # t
    BY <1>1, <2>2 DEF ThreadSound, Moved
  <2> QED
    BY <2>1, <2>2
<1>4. stack'[u] # <<>> => u \in loggers'
  BY <1>1 DEF ThreadSound, Moved
<1>5. log_mutex' = u <=> stack'[u] # <<>> /\ stack'[u][1].pc \in Locked
  <2>1. CASE u = t
    BY <1>1, <1>2, <2>1 DEF ThreadSound, Moved, LogMutexFollows
  <2>2. CASE u # t
    BY <1>1, <1>2, <2>2 DEF ThreadSound, Moved, LogMutexFollows
  <2> QED
    BY <2>1, <2>2
<1>6. mutex_' = u <=> (stack'[u] # <<>> /\ stack'[u][1].pc = "Buffer")
                      \/ (u = Writer /\ writer = "take")
  <2>1. CASE u = t
    BY <1>1, <1>2, <2>1 DEF ThreadSound, Moved, MutexFollows, In
  <2>2. CASE u # t
    BY <1>1, <1>2, <2>2 DEF ThreadSound, Moved, MutexFollows, In
  <2> QED
    BY <2>1, <2>2
<1>7. stack'[u] # <<>> /\ stack'[u][1].pc = "Buffer" => u = Main /\ "waiting" \in sinks
  BY <1>1 DEF ThreadSound, Moved, MutexFollows, In
<1> QED
  BY <1>3, <1>4, <1>5, <1>6, <1>7 DEF ThreadSound, In

(* Coming only depends on the inner statement of Main. *)
LEMMA ComingKept ==
  ASSUME NEW t \in Threads, NEW p, Moved(t, p), UNCHANGED sinks,
         t = Main => (stack[t][1].pc \in {"lock", "send", "Buffer"}
                      <=> p \in {"lock", "send", "Buffer"})
  PROVE  Coming' = Coming
<1>1. Main \in Threads
  BY DEF Threads
<1>2. CASE t = Main
  BY <1>2 DEF Moved, Coming, Msg
<1>3. CASE t # Main
  <2>1. stack'[Main] = stack[Main]
    BY <1>1, <1>3 DEF Moved
  <2> QED
    BY <2>1 DEF Coming, Msg
<1> QED
  BY <1>2, <1>3

(* A statement that moves, and queues nothing, keeps everything but what   *)
(* it does to message_info_.                                               *)
LEMMA MoveSound ==
  ASSUME IInv, NEW t \in Threads, NEW p, Moved(t, p),
         LogMutexFollows(t, p), MutexFollows(t, p), message_info_' \in Infos,
         UNCHANGED <<sinks, count, begun, histories, writerVars>>,
         \/ messages_' = messages_ /\ Coming' = Coming
         \/ t = Main /\ messages_' \in MessageSeqs /\ messages_' # <<>> /\ QueueInv',
         loggers \subseteq {t} => MockSound(t)'
  PROVE  IInv'
<1>1. Typed /\ ThreadsInv /\ WriterInv /\ CountInv /\ QueueInv /\ MockInv
  BY DEF IInv
<1>2. /\ UNCHANGED <<sinks, count, begun, captured, loggers, misdelivered>>
      /\ UNCHANGED <<should_exit_, writer, message, global_messages, main>>
  BY DEF histories, writerVars
<1>3. Typed'
  <2>1. log_mutex' \in Threads \cup {NULL} /\ mutex_' \in Threads \cup {NULL}
    BY <1>1 DEF Typed, LogMutexFollows, MutexFollows
  <2>2. stack' \in Stacks
    BY DEF Moved
  <2>3. messages_' \in MessageSeqs
    BY <1>1 DEF Typed
  <2> QED
    BY <1>1, <1>2, <2>1, <2>2, <2>3 DEF Typed
<1>4. ThreadsInv'
  BY <1>1, <1>2, MoveThreads
<1>5. WriterInv'
  <2>1. t = Main => main = "test"
    BY <1>1 DEF WriterInv, Moved
  <2>2. t # Main => stack'[Main] = stack[Main]
    BY DEF Moved, Threads
  <2>3. messages_' = messages_ \/ (t = Main /\ messages_' # <<>>)
    OBVIOUS
  <2>4. writer = "exited" => messages_' = <<>>
    BY <1>1, <2>1, <2>3 DEF WriterInv
  <2>5. writer = "take" => messages_' # <<>>
    BY <1>1, <2>3 DEF WriterInv
  <2>6. main # "test" => stack'[Main] = <<>>
    BY <1>1, <2>1, <2>2 DEF WriterInv
  <2> QED
    BY <1>1, <1>2, <2>4, <2>5, <2>6 DEF WriterInv
<1>6. CountInv'
  BY <1>1, <1>2 DEF CountInv, WriterLogged
<1>7. QueueInv'
  BY <1>1, <1>2 DEF QueueInv, Hand
<1>8. MockInv'
  <2> SUFFICES ASSUME NEW u \in Threads, loggers' \subseteq {u} PROVE MockSound(u)'
    BY DEF MockInv
  <2>1. t \in loggers
    BY <1>1 DEF ThreadsInv, ThreadSound, Moved
  <2>2. u = t
    BY <1>2, <2>1
  <2> QED
    BY <1>2, <2>2
<1> QED
  BY <1>3, <1>4, <1>5, <1>6, <1>7, <1>8 DEF IInv

(* Calls of Log() that are under way keep their arguments. *)
LEMMA MoveArguments ==
  ASSUME NEW t \in Threads, NEW p, Moved(t, p), MockSound(t), UNCHANGED misdelivered,
         p = "Log" => stack'[t][1].info = Whole(stack'[t][1].msg)
  PROVE  /\ misdelivered' = {}
         /\ \A i \in DOMAIN stack'[t] :
              stack'[t][i].pc = "Log" => stack'[t][i].info = Whole(stack'[t][i].msg)
<1> SUFFICES ASSUME NEW i \in DOMAIN stack'[t], stack'[t][i].pc = "Log"
             PROVE  stack'[t][i].info = Whole(stack'[t][i].msg)
  BY DEF MockSound
<1>1. i \in DOMAIN stack[t]
  BY DEF Moved
<1>2. CASE i = 1
  BY <1>2 DEF Moved
<1>3. CASE i # 1
  <2>1. stack'[t] \in Seq(Frame)
    BY DEF Moved, Stacks
  <2>2. i > 1
    BY <1>3, <2>1
  <2> QED
    BY <1>1, <2>2 DEF Moved, MockSound
<1> QED
  BY <1>2, <1>3

(* A thread takes log_mutex. *)
LEMMA LogLockSound ==
  ASSUME IInv, NEW t \in Threads, LogLock(t)
  PROVE  IInv'
<1>1. stack \in Stacks /\ message_info_ \in Infos
  BY DEF IInv, Typed
<1>2. /\ stack[t] # <<>> /\ stack[t][1].pc = "lock"
      /\ log_mutex = NULL /\ log_mutex' = t /\ Goto(t, "send")
      /\ UNCHANGED <<sinks, count, begun, mutex_, messages_, message_info_, histories,
                     writerVars>>
  BY DEF LogLock, In
<1>3. Moved(t, "send")
  BY <1>1, <1>2, GotoMoves DEF Places
<1>4. LogMutexFollows(t, "send") /\ MutexFollows(t, "send")
  BY <1>2 DEF LogMutexFollows, MutexFollows, Locked
<1>5. Coming' = Coming
  BY <1>2, <1>3, ComingKept
<1>6. loggers \subseteq {t} => MockSound(t)'
  <2> SUFFICES ASSUME loggers \subseteq {t} PROVE MockSound(t)'
    OBVIOUS
  <2>1. MockSound(t)
    BY DEF IInv, MockInv
  <2>2. UNCHANGED misdelivered
    BY <1>2 DEF histories
  <2> QED
    BY <1>3, <2>1, <2>2, MoveArguments DEF MockSound, In, Moved
<1>7. message_info_' \in Infos
  BY <1>1, <1>2
<1> QED
  BY <1>2, <1>3, <1>4, <1>5, <1>6, <1>7, MoveSound

(* send() of the waiting sink takes mutex_, or is not meant for the thread. *)
LEMMA SendWaitingSound ==
  ASSUME IInv, NEW t \in Threads, SendWaiting(t)
  PROVE  IInv'
<1>1. stack \in Stacks /\ message_info_ \in Infos
  BY DEF IInv, Typed
<1>2. /\ stack[t] # <<>> /\ stack[t][1].pc = "send"
      /\ UNCHANGED <<log_mutex, sinks, count, begun, messages_, message_info_, histories,
                     writerVars>>
  BY DEF SendWaiting, In
<1>3. message_info_' \in Infos /\ UNCHANGED <<log_mutex, messages_, sinks, misdelivered>>
  BY <1>1, <1>2 DEF histories
<1>4. PICK p \in {"Buffer", "send_mock"} : Goto(t, p) /\ MutexFollows(t, p)
                                           /\ (t = Main /\ "waiting" \in sinks <=> p = "Buffer")
  <2>1. CASE "waiting" \in sinks /\ t = Main
    <3>1. mutex_ = NULL /\ mutex_' = t /\ Goto(t, "Buffer")
      BY <2>1 DEF SendWaiting
    <3>2. MutexFollows(t, "Buffer")
      BY <2>1, <3>1 DEF MutexFollows
    <3> QED
      BY <2>1, <3>1, <3>2
  <2>2. CASE ~("waiting" \in sinks /\ t = Main)
    <3>1. Goto(t, "send_mock") /\ mutex_' = mutex_
      BY <2>2 DEF SendWaiting
    <3>2. MutexFollows(t, "send_mock")
      BY <1>2, <3>1 DEF MutexFollows
    <3> QED
      BY <2>2, <3>1, <3>2
  <2> QED
    BY <2>1, <2>2
<1>5. p \in Places \ {"Log"}
  BY DEF Places
<1>6. Moved(t, p)
  BY <1>1, <1>2, <1>4, <1>5, GotoMoves
<1>7. LogMutexFollows(t, p)
  BY <1>2, <1>3, <1>4 DEF LogMutexFollows, Locked
<1>8. Coming' = Coming
  <2>1. CASE t = Main /\ "waiting" \notin sinks
    BY <1>3, <2>1 DEF Coming
  <2>2. CASE t = Main /\ "waiting" \in sinks
    BY <1>2, <1>3, <1>4, <1>6, <2>2, ComingKept
  <2>3. CASE t # Main
    BY <1>3, <1>6, <2>3, ComingKept
  <2> QED
    BY <2>1, <2>2, <2>3
<1>9. loggers \subseteq {t} => MockSound(t)'
  <2> SUFFICES ASSUME loggers \subseteq {t} PROVE MockSound(t)'
    OBVIOUS
  <2>1. MockSound(t)
    BY DEF IInv, MockInv
  <2> QED
    BY <1>3, <1>4, <1>6, <2>1, MoveArguments DEF MockSound, In, Moved
<1> QED
  BY <1>2, <1>3, <1>4, <1>6, <1>7, <1>8, <1>9, MoveSound

(* What is appended to the second of two sequences is appended to both. *)
LEMMA AppendAfter ==
  ASSUME NEW S, NEW q \in Seq(S), NEW r \in Seq(S), NEW e \in S
  PROVE  (q \o r) \o <<e>> = q \o Append(r, e)
<1>1. <<e>> \in Seq(S)
  OBVIOUS
<1>2. (q \o r) \o <<e>> = q \o (r \o <<e>>)
  BY <1>1, ConcatAssociative
<1>3. Append(r, e) = r \o <<e>>
  BY AppendIsConcat
<1> QED
  BY <1>2, <1>3

(* The queue grows by the message that was coming. *)
LEMMA BufferSound ==
  ASSUME IInv, NEW t \in Threads, Buffer(t)
  PROVE  IInv'
<1>1. /\ stack \in Stacks /\ message_info_ \in Infos /\ QueueInv
      /\ messages_ \in MessageSeqs /\ global_messages \in MessageSeqs
      /\ message \in Messages \cup {NULL}
  BY DEF IInv, Typed
<1>2. /\ stack[t] # <<>> /\ stack[t][1].pc = "Buffer"
      /\ messages_' = Append(messages_, Msg(t)) /\ mutex_' = NULL
      /\ Goto(t, "send_mock")
      /\ UNCHANGED <<log_mutex, sinks, count, begun, message_info_, histories, writerVars>>
  BY DEF Buffer, In
<1>3. /\ message_info_' \in Infos
      /\ UNCHANGED <<log_mutex, sinks, captured, misdelivered, message, global_messages>>
  BY <1>1, <1>2 DEF histories, writerVars
<1>4. t = Main /\ "waiting" \in sinks
  BY <1>2 DEF IInv, ThreadsInv, ThreadSound, In
<1>5. Moved(t, "send_mock")
  BY <1>1, <1>2, GotoMoves DEF Places
<1>6. LogMutexFollows(t, "send_mock") /\ MutexFollows(t, "send_mock")
  BY <1>2, <1>3 DEF LogMutexFollows, MutexFollows, Locked
<1>7. Msg(t) \in Messages
  <2>1. stack[t] \in Seq(Frame)
    BY <1>1 DEF Stacks
  <2>2. stack[t][1] \in Frame
    BY <1>2, <2>1, FirstPlace
  <2> QED
    BY <2>2 DEF Frame, Msg
<1>8. messages_' \in MessageSeqs /\ messages_' # <<>>
  BY <1>1, <1>2, <1>7, AppendProperties DEF MessageSeqs
<1>9. QueueInv'
  <2>1. Coming = <<Msg(t)>> /\ Coming' = <<>>
    BY <1>2, <1>3, <1>4, <1>5 DEF Coming, Moved
  <2> DEFINE front == global_messages \o Hand
             m == Msg(t)
  <2>2. Hand' = Hand
    BY <1>3 DEF Hand
  <2>3. captured = (front \o messages_) \o <<m>>
    BY <1>1, <2>1 DEF QueueInv
  <2>4. front \in MessageSeqs
    BY <1>1 DEF Hand, MessageSeqs
  <2>5. messages_' = Append(messages_, m)
    BY <1>2
  <2> HIDE DEF front, m
  <2>6. (front \o messages_) \o <<m>> = front \o Append(messages_, m)
    <3>1. m \in Messages /\ front \in Seq(Messages) /\ messages_ \in Seq(Messages)
      BY <1>1, <1>7, <2>4 DEF MessageSeqs, m
    <3> QED
      BY <3>1, AppendAfter
  <2>7. front \o Append(messages_, m) \in MessageSeqs
    BY <1>1, <1>7, <1>8, <2>4, <2>5, ConcatProperties DEF MessageSeqs, m
  <2>8. captured = (front \o messages_') \o <<>>
    BY <2>3, <2>5, <2>6, <2>7, ConcatEmptySeq DEF MessageSeqs
  <2>9. front = global_messages' \o Hand'
    BY <1>3, <2>2 DEF front
  <2> QED
    BY <1>3, <2>1, <2>8, <2>9 DEF QueueInv
<1>10. loggers \subseteq {t} => MockSound(t)'
  <2> SUFFICES ASSUME loggers \subseteq {t} PROVE MockSound(t)'
    OBVIOUS
  <2>1. MockSound(t)
    BY DEF IInv, MockInv
  <2> QED
    BY <1>3, <1>5, <2>1, MoveArguments DEF MockSound, In, Moved
<1> QED
  BY <1>2, <1>3, <1>4, <1>5, <1>6, <1>8, <1>9, <1>10, MoveSound

(* What a message makes of message_info_ stays an Info. *)
LEMMA InfoParts ==
  ASSUME NEW i \in Infos, NEW m \in Messages
  PROVE  /\ [i EXCEPT !.head = m] \in Infos /\ [i EXCEPT !.head = m].head = m
         /\ [i EXCEPT !.text = m] \in Infos
         /\ i.head = m => [i EXCEPT !.text = m] = Whole(m)
BY DEF Infos, Whole

(* send() of the mock writes both parts of message_info_ under log_mutex. *)
LEMMA SendMockSound ==
  ASSUME IInv, NEW t \in Threads, SendMock(t)
  PROVE  IInv'
<1>1. stack \in Stacks /\ message_info_ \in Infos
  BY DEF IInv, Typed
<1>2. UNCHANGED <<sinks, count, begun, mutex_, messages_, histories, writerVars>>
  BY DEF SendMock
<1>3. UNCHANGED <<sinks, mutex_, messages_, misdelivered>>
  BY <1>2 DEF histories
<1>4. stack[t] # <<>> /\ stack[t][1].pc \in {"send_mock", "send_text"}
  BY DEF SendMock, In
<1>5. Msg(t) \in Messages
  <2>1. stack[t] \in Seq(Frame)
    BY <1>1 DEF Stacks
  <2>2. stack[t][1] \in Frame
    BY <1>4, <2>1, FirstPlace
  <2> QED
    BY <2>2 DEF Frame, Msg
<1>6. ASSUME NEW p \in {"send_text", "wait"}, Goto(t, p), LogMutexFollows(t, p),
             message_info_' \in Infos,
             loggers \subseteq {t} /\ MockSound(t) =>
               /\ p = "send_text" => message_info_'.head = Msg(t)
               /\ p = "wait" /\ "mock" \in sinks => message_info_' = Whole(Msg(t))
      PROVE  IInv'
  <2>1. p \in Places \ {"Log"}
    BY <1>6 DEF Places
  <2>2. Moved(t, p)
    BY <1>1, <1>4, <1>6, <2>1, GotoMoves
  <2>3. MutexFollows(t, p)
    BY <1>3, <1>4, <1>6 DEF MutexFollows
  <2>4. Coming' = Coming
    BY <1>3, <1>4, <1>6, <2>2, ComingKept
  <2>5. loggers \subseteq {t} => MockSound(t)'
    <3> SUFFICES ASSUME loggers \subseteq {t} PROVE MockSound(t)'
      OBVIOUS
    <3>1. MockSound(t)
      BY DEF IInv, MockInv
    <3>2. Msg(t)' = Msg(t)
      BY <2>2 DEF Moved, Msg
    <3>3. stack'[t][1].pc = p
      BY <2>2 DEF Moved
    <3>4. In(t, "send_text")' => message_info_'.head = Msg(t)'
      BY <1>6, <3>1, <3>2, <3>3 DEF In
    <3>5. ("mock" \in sinks)' /\ (In(t, "wait")' \/ In(t, "WaitTillSent")') =>
             message_info_' = Whole(Msg(t)')
      BY <1>3, <1>6, <3>1, <3>2, <3>3 DEF In
    <3>6. p # "Log"
      BY <1>6
    <3>7. /\ misdelivered' = {}
          /\ \A i \in DOMAIN stack'[t] :
               stack'[t][i].pc = "Log" => stack'[t][i].info = Whole(stack'[t][i].msg)
      BY <1>3, <2>2, <3>1, <3>6, MoveArguments
    <3> QED
      BY <3>4, <3>5, <3>7 DEF MockSound
  <2> QED
    BY <1>2, <1>3, <1>6, <2>2, <2>3, <2>4, <2>5, MoveSound
<1>7. CASE /\ In(t, "send_mock") /\ "mock" \in sinks
           /\ message_info_' = [message_info_ EXCEPT !.head = Msg(t)]
           /\ Goto(t, "send_text") /\ UNCHANGED log_mutex
  <2>1. message_info_' \in Infos /\ message_info_'.head = Msg(t)
    BY <1>1, <1>5, <1>7, InfoParts
  <2>2. LogMutexFollows(t, "send_text")
    BY <1>4, <1>7 DEF LogMutexFollows, Locked
  <2> QED
    BY <1>6, <1>7, <2>1, <2>2
<1>8. CASE /\ In(t, "send_text")
           /\ message_info_' = [message_info_ EXCEPT !.text = Msg(t)]
           /\ Goto(t, "wait") /\ log_mutex' = NULL
  <2>1. message_info_' \in Infos
    BY <1>1, <1>5, <1>8, InfoParts
  <2>2. MockSound(t) => message_info_' = Whole(Msg(t))
    BY <1>1, <1>5, <1>8, InfoParts DEF MockSound
  <2>3. LogMutexFollows(t, "wait")
    BY <1>4, <1>8 DEF LogMutexFollows, Locked
  <2> QED
    BY <1>6, <1>8, <2>1, <2>2, <2>3
<1>9. CASE /\ In(t, "send_mock") /\ "mock" \notin sinks
           /\ Goto(t, "wait") /\ log_mutex' = NULL
           /\ UNCHANGED message_info_
  <2>1. LogMutexFollows(t, "wait")
    BY <1>4, <1>9 DEF LogMutexFollows, Locked
  <2> QED
    BY <1>1, <1>6, <1>9, <2>1
<1> QED
  BY <1>7, <1>8, <1>9 DEF SendMock

(* The waiting sink waits until the queue is empty. *)
LEMMA WaitWaitingSound ==
  ASSUME IInv, NEW t \in Threads, WaitWaiting(t)
  PROVE  IInv'
<1>1. stack \in Stacks /\ message_info_ \in Infos
  BY DEF IInv, Typed
<1>2. /\ stack[t] # <<>> /\ stack[t][1].pc = "wait" /\ Goto(t, "WaitTillSent")
      /\ UNCHANGED <<log_mutex, sinks, count, begun, mutex_, messages_, message_info_,
                     histories, writerVars>>
  BY DEF WaitWaiting, In
<1>3. /\ message_info_' \in Infos
      /\ UNCHANGED <<log_mutex, sinks, mutex_, messages_, message_info_, misdelivered>>
  BY <1>1, <1>2 DEF histories
<1>4. Moved(t, "WaitTillSent")
  BY <1>1, <1>2, GotoMoves DEF Places
<1>5. LogMutexFollows(t, "WaitTillSent") /\ MutexFollows(t, "WaitTillSent")
  BY <1>2, <1>3 DEF LogMutexFollows, MutexFollows, Locked
<1>6. Coming' = Coming
  BY <1>2, <1>3, <1>4, ComingKept
<1>7. loggers \subseteq {t} => MockSound(t)'
  <2> SUFFICES ASSUME loggers \subseteq {t} PROVE MockSound(t)'
    OBVIOUS
  <2>1. MockSound(t)
    BY DEF IInv, MockInv
  <2>2. "mock" \in sinks => message_info_ = Whole(Msg(t))
    BY <1>2, <2>1 DEF MockSound, In
  <2>3. Msg(t)' = Msg(t) /\ stack'[t][1].pc = "WaitTillSent"
    BY <1>4 DEF Moved, Msg
  <2>4. /\ misdelivered' = {}
        /\ \A i \in DOMAIN stack'[t] :
             stack'[t][i].pc = "Log" => stack'[t][i].info = Whole(stack'[t][i].msg)
    BY <1>3, <1>4, <2>1, MoveArguments
  <2> QED
    BY <1>3, <2>2, <2>3, <2>4 DEF MockSound, In
<1> QED
  BY <1>2, <1>3, <1>4, <1>5, <1>6, <1>7, MoveSound

(* A statement that returns uncovers one that is in Log(), or none. *)
LEMMA PopSound ==
  ASSUME IInv, NEW t \in Threads, Popped(t), stack[t][1].pc \in {"WaitTillSent", "Log"},
         UNCHANGED <<log_mutex, sinks, count, begun, mutex_, messages_, message_info_,
                     loggers, captured, writerVars>>,
         loggers \subseteq {t} => misdelivered' = {}
  PROVE  IInv'
<1>1. Typed /\ ThreadsInv /\ WriterInv /\ CountInv /\ QueueInv /\ MockInv
  BY DEF IInv
<1>2. /\ UNCHANGED <<log_mutex, sinks, count, begun, mutex_, messages_, message_info_>>
      /\ UNCHANGED <<captured, loggers, should_exit_, writer, message, global_messages,
                     main>>
  BY DEF writerVars
<1>3. stack' \in Stacks /\ stack[t] # <<>> /\ \A u \in Threads \ {t} : stack'[u] = stack[u]
  BY DEF Popped
<1>4. Typed'
  BY <1>1, <1>2, <1>3 DEF Typed
<1>5. ASSUME NEW i \in DOMAIN stack'[t]
      PROVE  /\ i + 1 \in DOMAIN stack[t] /\ stack'[t][i] = stack[t][i + 1]
             /\ stack'[t][i].pc = "Log"
  <2>1. stack'[t] \in Seq(Frame)
    BY <1>3 DEF Stacks
  <2>2. i \in Nat /\ i >= 1
    BY <2>1
  <2>3. i + 1 \in DOMAIN stack[t] /\ stack'[t][i] = stack[t][i + 1]
    BY DEF Popped
  <2>4. i + 1 > 1
    BY <2>2
  <2>5. Nested(stack[t])
    BY <1>1 DEF ThreadsInv, ThreadSound
  <2> QED
    BY <2>3, <2>4, <2>5 DEF Nested
<1>6. stack'[t] # <<>> => 1 \in DOMAIN stack'[t] /\ stack'[t][1].pc = "Log"
  <2>1. stack'[t] \in Seq(Frame)
    BY <1>3 DEF Stacks
  <2> QED
    BY <1>5, <2>1, FirstPlace
<1>7. ThreadsInv'
  <2> SUFFICES ASSUME NEW u \in Threads PROVE ThreadSound(u)'
    BY DEF ThreadsInv
  <2>1. ThreadSound(t) /\ ThreadSound(u)
    BY <1>1 DEF ThreadsInv
  <2>2. CASE u # t
    BY <1>2, <1>3, <2>1, <2>2 DEF ThreadSound, In
  <2>3. CASE u = t
    <3>1. Nested(stack'[t])
      BY <1>5 DEF Nested
    <3>2. log_mutex' # t /\ (mutex_' = t <=> t = Writer /\ writer' = "take")
      BY <1>2, <2>1 DEF ThreadSound, In, Locked
    <3>3. t \in loggers'
      BY <1>2, <1>3, <2>1 DEF ThreadSound
    <3> QED
      BY <1>6, <2>3, <3>1, <3>2, <3>3 DEF ThreadSound, In, Locked
  <2> QED
    BY <2>2, <2>3
<1>8. WriterInv'
  <2>1. main # "test" => stack'[Main] = <<>>
    BY <1>1, <1>3 DEF WriterInv, Threads
  <2> QED
    BY <1>1, <1>2, <2>1 DEF WriterInv
<1>9. CountInv'
  BY <1>1, <1>2 DEF CountInv, WriterLogged
<1>10. QueueInv'
  <2>1. Coming' = Coming
    <3>1. CASE t = Main
      BY <1>3, <1>6, <3>1 DEF Coming
    <3>2. CASE t # Main
      <4>1. stack'[Main] = stack[Main]
        BY <1>3, <3>2 DEF Threads
      <4> QED
        BY <1>2, <4>1 DEF Coming, Msg
    <3> QED
      BY <3>1, <3>2
  <2> QED
    BY <1>1, <1>2, <2>1 DEF QueueInv, Hand
<1>11. MockInv'
  <2> SUFFICES ASSUME NEW u \in Threads, loggers' \subseteq {u} PROVE MockSound(u)'
    BY DEF MockInv
  <2>1. t \in loggers
    BY <1>1, <1>3 DEF ThreadsInv, ThreadSound
  <2>2. u = t /\ loggers \subseteq {t}
    BY <1>2, <2>1
  <2>3. MockSound(t)
    BY <1>1, <2>2 DEF MockInv
  <2>4. \A i \in DOMAIN stack'[t] :
          stack'[t][i].pc = "Log" => stack'[t][i].info = Whole(stack'[t][i].msg)
    BY <1>5, <2>3 DEF MockSound
  <2>5. ~In(t, "send_text")' /\ ~In(t, "wait")' /\ ~In(t, "WaitTillSent")'
    BY <1>6 DEF In
  <2>6. misdelivered' = {}
    BY <2>2
  <2> QED
    BY <2>2, <2>4, <2>5, <2>6 DEF MockSound
<1> QED
  BY <1>4, <1>7, <1>8, <1>9, <1>10, <1>11 DEF IInv

(* The mock calls Log() with a copy of message_info_. *)
LEMMA WaitMockSound ==
  ASSUME IInv, NEW t \in Threads, WaitMock(t)
  PROVE  IInv'
<1>1. stack \in Stacks /\ message_info_ \in Infos
  BY DEF IInv, Typed
<1>2. /\ stack[t] # <<>> /\ stack[t][1].pc = "WaitTillSent"
      /\ UNCHANGED <<log_mutex, sinks, count, begun, mutex_, messages_, message_info_,
                     captured, histories, writerVars>>
  BY DEF WaitMock, In
<1>3. /\ message_info_' \in Infos
      /\ UNCHANGED <<log_mutex, sinks, mutex_, messages_, message_info_, misdelivered>>
      /\ UNCHANGED <<captured, loggers>>
  BY <1>1, <1>2 DEF histories
<1>4. CASE "mock" \notin sinks
  <2>1. stack' = [stack EXCEPT ![t] = Tail(@)]
    BY <1>4 DEF WaitMock
  <2>2. Popped(t)
    BY <1>1, <1>2, <2>1, ReturnPops
  <2>3. loggers \subseteq {t} => misdelivered' = {}
    BY <1>3 DEF IInv, MockInv, MockSound
  <2> QED
    BY <1>2, <1>3, <2>2, <2>3, PopSound
<1>5. CASE "mock" \in sinks
  <2> DEFINE f == [stack[t][1] EXCEPT !.pc = "Log", !.info = message_info_]
             q == [stack[t] EXCEPT ![1] = f]
  <2>1. stack[t] \in Seq(Frame)
    BY <1>1 DEF Stacks
  <2>2. 1 \in DOMAIN stack[t] /\ stack[t][1] \in Frame
    BY <1>2, <2>1, FirstPlace
  <2>3. f \in Frame /\ f.pc = "Log" /\ f.msg = stack[t][1].msg /\ f.info = message_info_
    BY <1>1, <2>2 DEF Frame, Places
  <2>4. stack' = [stack EXCEPT ![t] = q]
    BY <1>5 DEF WaitMock
  <2> HIDE DEF f
  <2>5. /\ q \in Seq(Frame) /\ q # <<>> /\ DOMAIN q = DOMAIN stack[t] /\ q[1] = f
        /\ \A i \in DOMAIN stack[t] : i > 1 => q[i] = stack[t][i]
    BY <1>2, <2>1, <2>3, FirstReplaced
  <2> HIDE DEF q
  <2>6. stack' \in Stacks /\ stack'[t] = q /\ \A u \in Threads \ {t} : stack'[u] = stack[u]
    BY <1>1, <2>4, <2>5 DEF Stacks
  <2>7. Moved(t, "Log")
    BY <1>2, <2>2, <2>3, <2>5, <2>6 DEF Moved
  <2>8. LogMutexFollows(t, "Log") /\ MutexFollows(t, "Log")
    BY <1>2, <1>3 DEF LogMutexFollows, MutexFollows, Locked
  <2>9. Coming' = Coming
    BY <1>2, <1>3, <2>7, ComingKept
  <2>10. loggers \subseteq {t} => MockSound(t)'
    <3> SUFFICES ASSUME loggers \subseteq {t} PROVE MockSound(t)'
      OBVIOUS
    <3>1. MockSound(t)
      BY DEF IInv, MockInv
    <3>2. message_info_ = Whole(stack[t][1].msg)
      BY <1>2, <1>5, <3>1 DEF MockSound, In, Msg
    <3>3. stack'[t][1].info = Whole(stack'[t][1].msg)
      BY <2>3, <2>5, <2>6, <3>2
    <3>4. /\ misdelivered' = {}
          /\ \A i \in DOMAIN stack'[t] :
               stack'[t][i].pc = "Log" => stack'[t][i].info = Whole(stack'[t][i].msg)
      BY <1>3, <2>7, <3>1, <3>3, MoveArguments
    <3>5. stack'[t][1].pc = "Log"
      BY <2>7 DEF Moved
    <3> QED
      BY <3>4, <3>5 DEF MockSound, In
  <2> QED
    BY <1>2, <1>3, <2>7, <2>8, <2>9, <2>10, MoveSound
<1> QED
  BY <1>4, <1>5

(* Log() and its statement return. *)
LEMMA LogReturnSound ==
  ASSUME IInv, NEW t \in Threads, LogReturn(t)
  PROVE  IInv'
<1>1. stack \in Stacks
  BY DEF IInv, Typed
<1>2. /\ stack[t] # <<>> /\ stack[t][1].pc = "Log"
      /\ stack' = [stack EXCEPT ![t] = Tail(@)]
      /\ UNCHANGED <<log_mutex, sinks, count, begun, mutex_, messages_, message_info_,
                     loggers, captured, writerVars>>
  BY DEF LogReturn, In
<1>3. Popped(t)
  BY <1>1, <1>2, ReturnPops
<1>4. loggers \subseteq {t} => misdelivered' = {}
  <2> SUFFICES ASSUME loggers \subseteq {t} PROVE misdelivered' = {}
    OBVIOUS
  <2>1. MockSound(t)
    BY DEF IInv, MockInv
  <2>2. 1 \in DOMAIN stack[t]
    BY <1>1, <1>2, FirstPlace DEF Stacks
  <2>3. stack[t][1].info = Whole(stack[t][1].msg)
    BY <1>2, <2>1, <2>2 DEF MockSound
  <2>4. Arguments(t) = [head |-> Msg(t), text |-> Msg(t)]
    BY <2>3 DEF Arguments, Msg, Whole
  <2> QED
    BY <2>1, <2>4 DEF LogReturn, MockSound
<1> QED
  BY <1>2, <1>3, <1>4, PopSound

-----------------------------------------------------------------------------
(* The beginning of a LOG statement *)

(* What is stored or in the hand of the writer has been captured. *)
LEMMA CapturedLength ==
  ASSUME Typed, WriterInv, QueueInv
  PROVE  /\ Len(captured) \in Nat /\ Len(global_messages) \in Nat
         /\ Len(global_messages) <= Len(captured)
         /\ writer \in {"LOG", "LOG2", "store"} => Len(global_messages) + 1 <= Len(captured)
<1>1. /\ global_messages \in Seq(Messages) /\ messages_ \in Seq(Messages)
      /\ message \in Messages \cup {NULL} /\ stack \in Stacks
  BY DEF Typed, MessageSeqs
<1>2. Coming \in Seq(Messages)
  <2>1. CASE Coming = <<>>
    BY <2>1
  <2>2. CASE Coming # <<>>
    <3>1. stack[Main] # <<>> /\ Coming = <<Msg(Main)>>
      BY <2>2 DEF Coming
    <3>2. stack[Main] \in Seq(Frame)
      BY <1>1 DEF Stacks, Threads
    <3>3. stack[Main][1] \in Frame
      BY <3>1, <3>2, FirstPlace
    <3>4. Msg(Main) \in Messages
      BY <3>3 DEF Frame, Msg
    <3> QED
      BY <3>1, <3>4
  <2> QED
    BY <2>1, <2>2
<1>3. Hand \in Seq(Messages) /\ Len(Hand) = IF message = NULL THEN 0 ELSE 1
  BY <1>1 DEF Hand
<1> DEFINE front == global_messages \o Hand
           most == front \o messages_
           all == most \o Coming
<1>4. front \in Seq(Messages) /\ Len(front) = Len(global_messages) + Len(Hand)
  BY <1>1, <1>3, ConcatProperties
<1> HIDE DEF front
<1>5. most \in Seq(Messages) /\ Len(most) = Len(front) + Len(messages_)
  BY <1>1, <1>4, ConcatProperties
<1> HIDE DEF most
<1>6. all \in Seq(Messages) /\ Len(all) = Len(most) + Len(Coming)
  BY <1>2, <1>5, ConcatProperties
<1>7. captured = all
  BY DEF QueueInv, front, most
<1> HIDE DEF all
<1>8. /\ Len(global_messages) \in Nat /\ Len(messages_) \in Nat /\ Len(Coming) \in Nat
      /\ Len(captured) \in Nat
  BY <1>1, <1>2, <1>6, <1>7
<1>9. writer \in {"LOG", "LOG2", "store"} => message # NULL
  BY DEF WriterInv
<1> QED
  BY <1>3, <1>4, <1>5, <1>6, <1>7, <1>8, <1>9

(* The statements counted for the writer, and what their number is at      *)
(* most.                                                                   *)
LEMMA CountFacts ==
  ASSUME IInv
  PROVE  /\ WriterLogged \in Nat /\ count[Writer] \in Nat /\ begun \in Nat
         /\ begun <= MaxLogs /\ MaxLogs \in Nat
         /\ Len(captured) \in Nat /\ Len(captured) <= begun
         /\ count[Writer] <= begun + Len(captured)
         /\ writer \in {"LOG", "LOG2"} => count[Writer] + 1 <= begun + Len(captured)
<1>1. Typed /\ WriterInv /\ QueueInv /\ CountInv
  BY DEF IInv
<1>2. /\ Len(captured) \in Nat /\ Len(global_messages) \in Nat
      /\ Len(global_messages) <= Len(captured)
      /\ writer \in {"LOG", "LOG2", "store"} => Len(global_messages) + 1 <= Len(captured)
  BY <1>1, CapturedLength
<1>3. MaxLogs \in Nat /\ begun \in Nat /\ begun <= MaxLogs /\ count[Writer] \in Nat
  BY <1>1, SinksAssumption DEF Typed, Threads
<1>4. WriterLogged \in Nat
  BY <1>2 DEF WriterLogged
<1>5. WriterLogged <= 2 * Len(captured)
  BY <1>2 DEF WriterLogged
<1>6. writer \in {"LOG", "LOG2"} => WriterLogged + 1 <= 2 * Len(captured)
  BY <1>2 DEF WriterLogged
<1>7. /\ WriterLogged <= count[Writer]
      /\ count[Writer] + Len(captured) <= begun + WriterLogged
  BY <1>1 DEF CountInv
<1> HIDE DEF WriterLogged
<1> QED
  BY <1>2, <1>3, <1>4, <1>5, <1>6, <1>7

(* The number of a new statement is one that Messages knows. *)
LEMMA NewMessage ==
  ASSUME IInv, NEW t \in Threads,
         begun < MaxLogs \/ (t = Writer /\ writer \in {"LOG", "LOG2"})
  PROVE  <<t, count[t] + 1>> \in Messages
<1> DEFINE n == count[t] + 1
<1>1. /\ count[Writer] \in Nat /\ begun \in Nat /\ begun <= MaxLogs /\ MaxLogs \in Nat
      /\ Len(captured) \in Nat /\ Len(captured) <= begun
      /\ count[Writer] <= begun + Len(captured)
      /\ writer \in {"LOG", "LOG2"} => count[Writer] + 1 <= begun + Len(captured)
  BY CountFacts
<1>2. count[t] \in Nat /\ (t # Writer => count[t] <= begun)
  BY DEF IInv, Typed, CountInv
<1>3. n \in 1..(3 * MaxLogs)
  BY <1>1, <1>2
<1> HIDE DEF n
<1>4. <<t, n>> \in Messages
  BY <1>3 DEF Messages
<1> QED
  BY <1>4 DEF n

(* What BeginLog leaves behind, when the statement may begin and its count *)
(* is in order.                                                            *)
LEMMA BeginSound ==
  ASSUME IInv, NEW t \in Threads, BeginLog(t),
         <<t, count[t] + 1>> \in Messages,
         stack[t] = <<>> \/ In(t, "Log"),
         t = Main => main = "test",
         begun' \in 0..MaxLogs, CountInv',
         UNCHANGED <<should_exit_, message, global_messages, main>>,
         writer' = writer \/ {writer, writer'} \subseteq {"LOG", "LOG2", "store"}
  PROVE  IInv'
<1> DEFINE m == <<t, count[t] + 1>>
<1>1. Typed /\ ThreadsInv /\ WriterInv /\ CountInv /\ QueueInv /\ MockInv
  BY DEF IInv
<1>2. /\ stack' = [stack EXCEPT ![t] =
                     <<[pc |-> "lock", msg |-> m, info |-> NoInfo]>> \o @]
      /\ count' = [count EXCEPT ![t] = @ + 1]
      /\ captured' = IF t = Main /\ "waiting" \in sinks THEN Append(captured, m)
                     ELSE captured
      /\ loggers' = loggers \cup {t}
      /\ UNCHANGED <<log_mutex, sinks, mutex_, messages_, message_info_, misdelivered>>
  BY DEF BeginLog
<1>3. m \in Messages
  OBVIOUS
<1> HIDE DEF m
<1>4. stack \in Stacks
  BY <1>1 DEF Typed
<1>5. Pushed(t, m)
  BY <1>2, <1>3, <1>4, BeginPushes
<1>6. /\ stack' \in Stacks /\ \A u \in Threads \ {t} : stack'[u] = stack[u]
      /\ stack'[t] # <<>> /\ stack'[t][1].pc = "lock" /\ stack'[t][1].msg = m
      /\ \A i \in DOMAIN stack'[t] : i > 1 => i - 1 \in DOMAIN stack[t]
                                              /\ stack'[t][i] = stack[t][i - 1]
  BY <1>5 DEF Pushed
<1>7. Typed'
  <2>1. captured \in MessageSeqs /\ Append(captured, m) \in MessageSeqs
    BY <1>1, <1>3, AppendProperties DEF Typed, MessageSeqs
  <2>2. captured' \in MessageSeqs
    BY <1>2, <2>1
  <2>3. count' \in [Threads -> Nat]
    BY <1>1, <1>2 DEF Typed
  <2>4. writer' \in {"poll", "take", "LOG", "LOG2", "store", "exited"}
    BY <1>1 DEF Typed
  <2>5. loggers' \subseteq Threads /\ IsFiniteSet(loggers')
    BY <1>1, <1>2, FS_AddElement DEF Typed
  <2> QED
    BY <1>1, <1>2, <1>6, <2>2, <2>3, <2>4, <2>5 DEF Typed
<1>8. ThreadsInv'
  <2> SUFFICES ASSUME NEW u \in Threads PROVE ThreadSound(u)'
    BY DEF ThreadsInv
  <2>1. ThreadSound(t) /\ ThreadSound(u)
    BY <1>1 DEF ThreadsInv
  <2>2. writer' = "take" <=> writer = "take"
    OBVIOUS
  <2>3. CASE u # t
    BY <1>2, <1>6, <2>1, <2>2, <2>3 DEF ThreadSound, In
  <2>4. CASE u = t
    <3>1. Nested(stack'[t])
      <4> SUFFICES ASSUME NEW i \in DOMAIN stack'[t], i > 1 PROVE stack'[t][i].pc = "Log"
        BY DEF Nested
      <4>1. i - 1 \in DOMAIN stack[t] /\ stack'[t][i] = stack[t][i - 1]
        BY <1>6
      <4>2. stack[t] \in Seq(Frame) /\ stack[t] # <<>>
        BY <1>4, <4>1 DEF Stacks
      <4>3. i - 1 = 1 \/ i - 1 > 1
        <5>1. stack'[t] \in Seq(Frame)
          BY <1>6 DEF Stacks
        <5>2. i \in Nat
          BY <5>1
        <5> QED
          BY <5>2
      <4>4. In(t, "Log")
        BY <4>2
      <4> QED
        BY <2>1, <4>1, <4>3, <4>4 DEF ThreadSound, Nested, In
    <3>2. log_mutex' # t /\ (mutex_' = t <=> t = Writer /\ writer' = "take")
      BY <1>2, <2>1, <2>2 DEF ThreadSound, In, Locked
    <3> QED
      BY <1>2, <1>6, <2>4, <3>1, <3>2 DEF ThreadSound, In, Locked
  <2> QED
    BY <2>3, <2>4
<1>9. WriterInv'
  <2>1. main' # "test" => stack'[Main] = <<>>
    BY <1>1, <1>6 DEF WriterInv, Threads
  <2>2. /\ writer' = "take" <=> writer = "take"
        /\ writer' = "exited" <=> writer = "exited"
        /\ writer' \in {"poll", "take", "exited"} <=> writer \in {"poll", "take", "exited"}
    OBVIOUS
  <2> QED
    BY <1>1, <1>2, <2>1, <2>2 DEF WriterInv
<1>10. QueueInv'
  <2> DEFINE stored == (global_messages \o Hand) \o messages_
  <2>1. captured = stored \o Coming /\ Hand' = Hand
    BY <1>1 DEF QueueInv, Hand
  <2>2. (QueueInv <=> captured = stored \o Coming)' /\ stored' = stored
    BY <1>2, <2>1 DEF QueueInv
  <2>3. stored \in Seq(Messages)
    BY <1>1 DEF Typed, Hand, MessageSeqs
  <2> HIDE DEF stored
  <2>4. CASE t = Main /\ "waiting" \in sinks
    <3>1. Coming = <<>>
      BY <2>4 DEF Coming, In
    <3>2. Coming' = <<m>>
      BY <1>2, <1>6, <2>4 DEF Coming, Msg
    <3>3. captured = stored
      BY <2>1, <2>3, <3>1, ConcatEmptySeq
    <3>4. captured' = stored \o <<m>>
      BY <1>2, <1>3, <2>3, <2>4, <3>3, AppendIsConcat
    <3> QED
      BY <2>2, <3>2, <3>4
  <2>5. CASE ~(t = Main /\ "waiting" \in sinks)
    <3>1. CASE t # Main
      <4>1. stack'[Main] = stack[Main]
        BY <1>6, <3>1 DEF Threads
      <4>2. sinks' = sinks
        BY <1>2
      <4>3. Coming' = Coming
        BY <4>1, <4>2 DEF Coming, Msg
      <4> QED
        BY <1>2, <2>1, <2>2, <2>5, <4>3
    <3>2. CASE "waiting" \notin sinks
      <4>1. Coming' = <<>> /\ Coming = <<>>
        BY <1>2, <3>2 DEF Coming
      <4> QED
        BY <1>2, <2>1, <2>2, <2>5, <4>1
    <3> QED
      BY <2>5, <3>1, <3>2
  <2> QED
    BY <2>4, <2>5
<1>11. MockInv'
  <2> SUFFICES ASSUME NEW u \in Threads, loggers' \subseteq {u} PROVE MockSound(u)'
    BY DEF MockInv
  <2>1. u = t /\ loggers \subseteq {t}
    BY <1>2
  <2>2. MockSound(t)
    BY <1>1, <2>1 DEF MockInv
  <2>3. ASSUME NEW i \in DOMAIN stack'[t], stack'[t][i].pc = "Log"
        PROVE  stack'[t][i].info = Whole(stack'[t][i].msg)
    <3>1. stack'[t] \in Seq(Frame)
      BY <1>6 DEF Stacks
    <3>2. i = 1 \/ i > 1
      BY <3>1
    <3>3. i # 1
      BY <1>6, <2>3
    <3> QED
      BY <1>6, <2>2, <2>3, <3>2, <3>3 DEF MockSound
  <2> QED
    BY <1>2, <1>6, <2>1, <2>2, <2>3 DEF MockSound, In
<1> QED
  BY <1>7, <1>8, <1>9, <1>10, <1>11 DEF IInv

(* A statement of the test, or one inside of Log(). *)
LEMMA LogSound ==
  ASSUME IInv, NEW t \in Threads, Log(t) \/ LogDuringIntercept(t)
  PROVE  IInv'
<1>1. Typed /\ ThreadsInv /\ WriterInv /\ CountInv
  BY DEF IInv
<1>2. begun < MaxLogs /\ begun' = begun + 1 /\ BeginLog(t) /\ UNCHANGED writerVars
  BY DEF Log, LogDuringIntercept
<1>3. UNCHANGED <<should_exit_, writer, message, global_messages, main>>
  BY <1>2 DEF writerVars
<1>4. stack[t] = <<>> \/ In(t, "Log")
  BY DEF Log, LogDuringIntercept
<1>5. t = Main => main = "test"
  BY <1>1 DEF Log, LogDuringIntercept, In, WriterInv
<1>6. <<t, count[t] + 1>> \in Messages
  BY <1>2, NewMessage
<1>7. begun \in Nat /\ begun' \in 0..MaxLogs /\ MaxLogs \in Nat
  BY <1>1, <1>2, SinksAssumption DEF Typed
<1>8. CountInv'
  <2>1. /\ count \in [Threads -> Nat] /\ count' = [count EXCEPT ![t] = @ + 1]
        /\ captured \in Seq(Messages)
        /\ captured' = IF t = Main /\ "waiting" \in sinks
                         THEN Append(captured, <<t, count[t] + 1>>) ELSE captured
    BY <1>1, <1>2 DEF BeginLog, Typed, MessageSeqs
  <2>2. WriterLogged \in Nat /\ WriterLogged' = WriterLogged
    BY <1>3, CountFacts DEF WriterLogged
  <2>3. Len(captured) \in Nat /\ Writer \in Threads /\ Main # Writer
    BY <2>1, MainAssumption DEF Threads
  <2>4. Len(captured') = IF t = Main /\ "waiting" \in sinks THEN Len(captured) + 1
                         ELSE Len(captured)
    BY <1>6, <2>1, AppendProperties
  <2>5. \A u \in Threads : count[u] \in Nat /\ count'[u] = IF u = t THEN count[u] + 1 ELSE count[u]
    BY <2>1
  <2>6. \A u \in Threads \ {Writer} : count'[u] <= begun'
    BY <1>1, <1>2, <1>7, <2>5 DEF CountInv
  <2>7. WriterLogged' <= count'[Writer]
    BY <1>1, <2>2, <2>3, <2>5 DEF CountInv
  <2>8. count'[Writer] + Len(captured') <= begun' + WriterLogged'
    <3>1. count[Writer] + Len(captured) <= begun + WriterLogged
      BY <1>1 DEF CountInv
    <3> QED
      BY <1>2, <1>7, <2>2, <2>3, <2>4, <2>5, <3>1
  <2> QED
    BY <2>6, <2>7, <2>8 DEF CountInv
<1> QED
  BY <1>2, <1>3, <1>4, <1>5, <1>6, <1>7, <1>8, BeginSound

-----------------------------------------------------------------------------
(* The writer and the destructor *)

(* What is coming only depends on the statements and the sinks.            *)
LEMMA StackKept ==
  ASSUME UNCHANGED <<stack, sinks>>
  PROVE  Coming' = Coming
BY DEF Coming, Msg

(* While no statement changes, those of the only thread that logs stay in  *)
(* order.                                                                  *)
LEMMA MockKept ==
  ASSUME MockInv, UNCHANGED <<stack, sinks, loggers, misdelivered, message_info_>>
  PROVE  MockInv'
BY DEF MockInv, MockSound, In, Msg

(* Run of the writer finds work, or the order to exit. *)
LEMMA PollSound ==
  ASSUME IInv, Poll
  PROVE  IInv'
<1>1. Typed /\ ThreadsInv /\ WriterInv /\ CountInv /\ QueueInv /\ MockInv
  BY DEF IInv
<1>2. /\ writer = "poll" /\ mutex_ = NULL
      /\ UNCHANGED <<log_mutex, sinks, stack, count, begun, messages_, should_exit_>>
      /\ UNCHANGED <<message, global_messages, message_info_, main, captured, loggers,
                     misdelivered>>
  BY DEF Poll, histories
<1>3. \/ should_exit_ /\ messages_ = <<>> /\ writer' = "exited" /\ mutex_' = mutex_
      \/ messages_ # <<>> /\ writer' = "take" /\ mutex_' = Writer
  BY DEF Poll, NoWork
<1>4. Writer \in Threads /\ NULL \notin Threads
  BY NullFacts DEF Threads
<1>5. Typed'
  BY <1>1, <1>2, <1>3, <1>4 DEF Typed
<1>6. ThreadsInv'
  <2> SUFFICES ASSUME NEW u \in Threads PROVE ThreadSound(u)'
    BY DEF ThreadsInv
  <2>1. ThreadSound(u)
    BY <1>1 DEF ThreadsInv
  <2>2. ~In(u, "Buffer")
    BY <1>2, <1>4, <2>1 DEF ThreadSound
  <2>3. mutex_' = u <=> u = Writer /\ writer' = "take"
    BY <1>2, <1>3, <1>4
  <2> QED
    BY <1>2, <2>1, <2>2, <2>3 DEF ThreadSound, In
<1>7. WriterInv'
  BY <1>1, <1>2, <1>3 DEF WriterInv
<1>8. CountInv'
  BY <1>1, <1>2, <1>3 DEF CountInv, WriterLogged
<1>9. QueueInv'
  BY <1>1, <1>2, StackKept DEF QueueInv, Hand
<1>10. MockInv'
  BY <1>1, <1>2, MockKept
<1> QED
  BY <1>5, <1>6, <1>7, <1>8, <1>9, <1>10 DEF IInv

(* An element before a sequence. *)
LEMMA PutBefore ==
  ASSUME NEW S, NEW e \in S, NEW q \in Seq(S)
  PROVE  /\ <<e>> \o q \in Seq(S) /\ Len(<<e>> \o q) = Len(q) + 1
         /\ (<<e>> \o q)[1] = e
         /\ \A i \in 2..(Len(q) + 1) : (<<e>> \o q)[i] = q[i - 1]
<1> DEFINE j == <<e>> \o q
<1>1. <<e>> \in Seq(S) /\ Len(<<e>>) = 1 /\ <<e>>[1] = e
  OBVIOUS
<1>2. /\ j \in Seq(S) /\ Len(j) = 1 + Len(q)
      /\ \A i \in 1..(1 + Len(q)) : j[i] = IF i <= 1 THEN <<e>>[i] ELSE q[i - 1]
  BY <1>1, ConcatProperties
<1>3. Len(q) \in Nat
  OBVIOUS
<1> HIDE DEF j
<1>4. j[1] = e
  BY <1>1, <1>2, <1>3
<1>5. \A i \in 2..(Len(q) + 1) : j[i] = q[i - 1]
  BY <1>2, <1>3
<1> QED
  BY <1>2, <1>3, <1>4, <1>5 DEF j

(* A sequence is its first element before the others. *)
LEMMA HeadThenTail ==
  ASSUME NEW S, NEW r \in Seq(S), r # <<>>
  PROVE  Head(r) \in S /\ Tail(r) \in Seq(S) /\ <<Head(r)>> \o Tail(r) = r
<1> DEFINE u == Tail(r)
           h == Head(r)
           j == <<h>> \o u
<1>1. /\ h \in S /\ u \in Seq(S) /\ Len(u) = Len(r) - 1
      /\ \A i \in 1..Len(u) : u[i] = r[i + 1]
  BY HeadTailProperties
<1>2. Len(r) \in Nat /\ h = r[1]
  BY EmptySeq
<1> HIDE DEF h, u
<1>3. /\ j \in Seq(S) /\ Len(j) = Len(u) + 1 /\ j[1] = h
      /\ \A i \in 2..(Len(u) + 1) : j[i] = u[i - 1]
  BY <1>1, PutBefore
<1> HIDE DEF j
<1>4. Len(j) = Len(r)
  BY <1>1, <1>2, <1>3
<1>5. \A i \in 1..Len(j) : j[i] = r[i]
  <2> SUFFICES ASSUME NEW i \in 1..Len(j) PROVE j[i] = r[i]
    OBVIOUS
  <2>1. CASE i = 1
    BY <1>2, <1>3, <2>1
  <2>2. CASE i # 1
    <3>1. i \in 2..(Len(u) + 1) /\ i - 1 \in 1..Len(u) /\ i - 1 + 1 = i
      BY <1>1, <1>2, <1>4, <2>2
    <3> QED
      BY <1>1, <1>3, <3>1
  <2> QED
    BY <2>1, <2>2
<1>6. j = r
  BY <1>3, <1>4, <1>5, SeqEqual
<1> QED
  BY <1>1, <1>6 DEF h, j, u

(* The first message of a queue, taken or not, is before the others. *)
LEMMA HeadAfter ==
  ASSUME NEW S, NEW q \in Seq(S), NEW r \in Seq(S), r # <<>>
  PROVE  /\ Head(r) \in S /\ Tail(r) \in Seq(S)
         /\ (q \o <<>>) \o r = (q \o <<Head(r)>>) \o Tail(r)
<1>1. Head(r) \in S /\ Tail(r) \in Seq(S) /\ r = <<Head(r)>> \o Tail(r)
  BY HeadThenTail
<1>2. <<Head(r)>> \in Seq(S)
  BY <1>1
<1>3. q \o <<>> = q
  BY ConcatEmptySeq
<1>4. (q \o <<Head(r)>>) \o Tail(r) = q \o (<<Head(r)>> \o Tail(r))
  BY <1>1, <1>2, ConcatAssociative
<1> QED
  BY <1>1, <1>3, <1>4

(* Run takes the first message of the queue, under mutex_. *)
LEMMA TakeSound ==
  ASSUME IInv, Take
  PROVE  IInv'
<1>1. Typed /\ ThreadsInv /\ WriterInv /\ CountInv /\ QueueInv /\ MockInv
  BY DEF IInv
<1>2. /\ writer = "take" /\ writer' = "LOG" /\ mutex_' = NULL
      /\ message' = Head(messages_) /\ messages_' = Tail(messages_)
      /\ UNCHANGED <<log_mutex, sinks, stack, count, begun, should_exit_>>
      /\ UNCHANGED <<global_messages, message_info_, main, captured, loggers,
                     misdelivered>>
  BY DEF Take, AfterTake, histories
<1>3. messages_ # <<>> /\ message = NULL
  BY <1>1, <1>2 DEF WriterInv
<1>4. Writer \in Threads /\ NULL \notin Threads /\ NULL \notin Messages
  BY NullFacts DEF Threads
<1>5. messages_ \in Seq(Messages) /\ global_messages \in Seq(Messages)
  BY <1>1 DEF Typed, MessageSeqs
<1>6. /\ message' \in Messages /\ messages_' \in Seq(Messages)
      /\ (global_messages \o <<>>) \o messages_
           = (global_messages \o <<message'>>) \o messages_'
  BY <1>2, <1>3, <1>5, HeadAfter
<1>7. Typed'
  BY <1>1, <1>2, <1>6 DEF Typed, MessageSeqs
<1>8. ThreadsInv'
  <2> SUFFICES ASSUME NEW u \in Threads PROVE ThreadSound(u)'
    BY DEF ThreadsInv
  <2>1. ThreadSound(u) /\ ThreadSound(Writer)
    BY <1>1, <1>4 DEF ThreadsInv
  <2>2. mutex_ = Writer
    BY <1>2, <2>1 DEF ThreadSound
  <2>3. ~In(u, "Buffer")
    BY <2>1, <2>2, MainAssumption DEF ThreadSound
  <2>4. mutex_' # u /\ writer' # "take"
    BY <1>2, <1>4
  <2> QED
    BY <1>2, <2>1, <2>3, <2>4 DEF ThreadSound, In
<1>9. WriterInv'
  <2>1. message' # NULL
    BY <1>4, <1>6
  <2> QED
    BY <1>1, <1>2, <2>1 DEF WriterInv
<1>10. CountInv'
  BY <1>1, <1>2 DEF CountInv, WriterLogged
<1>11. QueueInv'
  <2>1. Hand = <<>> /\ Hand' = <<message'>>
    BY <1>3, <1>4, <1>6 DEF Hand
  <2>2. Coming' = Coming
    BY <1>2, StackKept
  <2>3. captured' = captured /\ global_messages' = global_messages
    BY <1>2
  <2>4. captured = ((global_messages \o <<>>) \o messages_) \o Coming
    BY <1>1, <2>1 DEF QueueInv
  <2>5. captured' = ((global_messages' \o Hand') \o messages_') \o Coming'
    BY <1>6, <2>1, <2>2, <2>3, <2>4
  <2> QED
    BY <2>5 DEF QueueInv
<1>12. MockInv'
  BY <1>1, <1>2, MockKept
<1> QED
  BY <1>7, <1>8, <1>9, <1>10, <1>11, <1>12 DEF IInv

(* The two statements of Run, each when the one before has returned. *)
LEMMA WriterLogsSound ==
  ASSUME IInv, WriterLogs
  PROVE  IInv'
<1>1. Typed /\ ThreadsInv /\ WriterInv /\ CountInv
  BY DEF IInv
<1>2. /\ writer \in {"LOG", "LOG2"} /\ stack[Writer] = <<>>
      /\ writer' = IF writer = "LOG" THEN "LOG2" ELSE "store"
      /\ BeginLog(Writer) /\ begun' = begun
      /\ UNCHANGED <<should_exit_, message, global_messages, main>>
  BY DEF WriterLogs
<1>3. Writer \in Threads /\ Writer # Main
  BY MainAssumption DEF Threads
<1>4. <<Writer, count[Writer] + 1>> \in Messages
  BY <1>2, <1>3, NewMessage
<1>5. {writer, writer'} \subseteq {"LOG", "LOG2", "store"}
  BY <1>2
<1>6. CountInv'
  <2>1. /\ count \in [Threads -> Nat] /\ count' = [count EXCEPT ![Writer] = @ + 1]
        /\ captured' = captured
    BY <1>1, <1>2, <1>3 DEF BeginLog, Typed
  <2>2. /\ WriterLogged \in Nat /\ begun \in Nat /\ count[Writer] \in Nat
        /\ Len(captured) \in Nat
    BY CountFacts
  <2>3. WriterLogged' = WriterLogged + 1
    <3>1. Len(global_messages) \in Nat /\ global_messages' = global_messages
      BY <1>1, <1>2 DEF Typed, MessageSeqs
    <3> QED
      BY <1>2, <3>1 DEF WriterLogged
  <2>4. /\ count'[Writer] = count[Writer] + 1
        /\ \A u \in Threads \ {Writer} : count'[u] = count[u]
    BY <1>3, <2>1
  <2>5. /\ \A u \in Threads \ {Writer} : count[u] <= begun
        /\ WriterLogged <= count[Writer]
        /\ count[Writer] + Len(captured) <= begun + WriterLogged
    BY <1>1 DEF CountInv
  <2>6. \A u \in Threads \ {Writer} : count'[u] <= begun'
    BY <1>2, <2>4, <2>5
  <2>7. /\ WriterLogged' <= count'[Writer]
        /\ count'[Writer] + Len(captured') <= begun' + WriterLogged'
    BY <1>2, <2>1, <2>2, <2>3, <2>4, <2>5
  <2> QED
    BY <2>6, <2>7 DEF CountInv
<1>7. begun' \in 0..MaxLogs
  BY <1>1, <1>2 DEF Typed
<1> QED
  BY <1>2, <1>3, <1>4, <1>5, <1>6, <1>7, BeginSound

(* Run stores the message it has in hand. *)
LEMMA StoreSound ==
  ASSUME IInv, Store
  PROVE  IInv'
<1>1. Typed /\ ThreadsInv /\ WriterInv /\ CountInv /\ QueueInv /\ MockInv
  BY DEF IInv
<1>2. /\ writer = "store" /\ writer' = "poll" /\ message' = NULL
      /\ global_messages' = Append(global_messages, message)
      /\ UNCHANGED <<log_mutex, sinks, stack, count, begun, mutex_, messages_>>
      /\ UNCHANGED <<should_exit_, message_info_, main, captured, loggers, misdelivered>>
  BY DEF Store, histories
<1>3. message # NULL /\ message \in Messages
  BY <1>1, <1>2 DEF WriterInv, Typed
<1>4. global_messages \in Seq(Messages)
  BY <1>1 DEF Typed, MessageSeqs
<1>5. /\ global_messages' \in Seq(Messages)
      /\ Len(global_messages') = Len(global_messages) + 1
  BY <1>2, <1>3, <1>4, AppendProperties
<1>6. Typed'
  BY <1>1, <1>2, <1>5 DEF Typed, MessageSeqs
<1>7. ThreadsInv'
  BY <1>1, <1>2 DEF ThreadsInv, ThreadSound, In
<1>8. WriterInv'
  BY <1>1, <1>2 DEF WriterInv
<1>9. CountInv'
  <2>1. Len(global_messages) \in Nat
    BY <1>4
  <2>2. WriterLogged' = WriterLogged
    BY <1>2, <1>5, <2>1 DEF WriterLogged
  <2> QED
    BY <1>1, <1>2, <2>2 DEF CountInv
<1>10. QueueInv'
  <2>1. Hand = <<message>> /\ Hand' = <<>>
    BY <1>2, <1>3 DEF Hand
  <2>2. Coming' = Coming
    BY <1>2, StackKept
  <2>3. global_messages' = global_messages \o <<message>>
    BY <1>2, <1>3, <1>4, AppendIsConcat
  <2>4. global_messages' \o <<>> = global_messages \o <<message>>
    BY <1>5, <2>3, ConcatEmptySeq
  <2>5. captured = ((global_messages \o <<message>>) \o messages_) \o Coming
    BY <1>1, <2>1 DEF QueueInv
  <2>6. captured' = ((global_messages' \o Hand') \o messages_') \o Coming'
    BY <1>2, <2>1, <2>2, <2>4, <2>5
  <2> QED
    BY <2>6 DEF QueueInv
<1>11. MockInv'
  BY <1>1, <1>2, MockKept
<1> QED
  BY <1>6, <1>7, <1>8, <1>9, <1>10, <1>11 DEF IInv

(* The destructor unregisters the sink when Main is in no statement. *)
LEMMA RemoveLogSinkSound ==
  ASSUME IInv, RemoveLogSink
  PROVE  IInv'
<1>1. Typed /\ ThreadsInv /\ WriterInv /\ CountInv /\ QueueInv /\ MockInv
  BY DEF IInv
<1>2. /\ main = "test" /\ stack[Main] = <<>> /\ sinks' = sinks \ {"waiting"}
      /\ main' = "stop"
      /\ UNCHANGED <<log_mutex, stack, count, begun, mutex_, messages_, should_exit_>>
      /\ UNCHANGED <<writer, message, global_messages, message_info_, captured, loggers,
                     misdelivered>>
  BY DEF RemoveLogSink, histories
<1>3. Typed'
  BY <1>1, <1>2 DEF Typed
<1>4. ThreadsInv'
  <2> SUFFICES ASSUME NEW u \in Threads PROVE ThreadSound(u)'
    BY DEF ThreadsInv
  <2>1. ThreadSound(u)
    BY <1>1 DEF ThreadsInv
  <2>2. ~In(u, "Buffer")
    BY <1>2, <2>1 DEF ThreadSound, In
  <2> QED
    BY <1>2, <2>1, <2>2 DEF ThreadSound, In
<1>5. WriterInv'
  BY <1>1, <1>2 DEF WriterInv
<1>6. CountInv'
  BY <1>1, <1>2 DEF CountInv, WriterLogged
<1>7. QueueInv'
  <2>1. Coming = <<>> /\ Coming' = <<>>
    BY <1>2 DEF Coming
  <2> QED
    BY <1>1, <1>2, <2>1 DEF QueueInv, Hand
<1>8. MockInv'
  <2>1. "mock" \in sinks' <=> "mock" \in sinks
    BY <1>2
  <2> QED
    BY <1>1, <1>2, <2>1 DEF MockInv, MockSound, In, Msg
<1> QED
  BY <1>3, <1>4, <1>5, <1>6, <1>7, <1>8 DEF IInv

(* The destructor orders the writer to exit, and waits for it. *)
LEMMA StopJoinSound ==
  ASSUME IInv, Stop \/ Join
  PROVE  IInv'
<1>1. Typed /\ ThreadsInv /\ WriterInv /\ CountInv /\ QueueInv /\ MockInv
  BY DEF IInv
<1>2. /\ UNCHANGED <<log_mutex, sinks, stack, count, begun, mutex_, messages_>>
      /\ UNCHANGED <<writer, message, global_messages, message_info_, captured, loggers,
                     misdelivered>>
  BY DEF Stop, Join, histories
<1>3. \/ main = "stop" /\ should_exit_' = TRUE /\ main' = "join"
      \/ main = "join" /\ writer = "exited" /\ main' = "done" /\ should_exit_' = should_exit_
  BY DEF Stop, Join, Joined
<1>4. Typed'
  BY <1>1, <1>2, <1>3 DEF Typed
<1>5. ThreadsInv'
  BY <1>1, <1>2 DEF ThreadsInv, ThreadSound, In
<1>6. WriterInv'
  BY <1>1, <1>2, <1>3 DEF WriterInv
<1>7. CountInv'
  BY <1>1, <1>2 DEF CountInv, WriterLogged
<1>8. QueueInv'
  BY <1>1, <1>2, StackKept DEF QueueInv, Hand
<1>9. MockInv'
  BY <1>1, <1>2, MockKept
<1> QED
  BY <1>4, <1>5, <1>6, <1>7, <1>8, <1>9 DEF IInv

-----------------------------------------------------------------------------
(* The theorems *)

(* Before the first statement nothing is logged, queued or locked. *)
LEMMA InitSound == SinksInit => IInv
<1> SUFFICES ASSUME SinksInit PROVE IInv
  OBVIOUS
<1>1. /\ sinks \in Registrations
      /\ log_mutex = NULL /\ mutex_ = NULL
      /\ stack = [t \in Threads |-> <<>>]
      /\ count = [t \in Threads |-> 0] /\ begun = 0
      /\ messages_ = <<>> /\ should_exit_ = FALSE
      /\ writer = "poll" /\ message = NULL
      /\ global_messages = <<>> /\ message_info_ = NoInfo
      /\ main = "test"
      /\ captured = <<>> /\ loggers = {} /\ misdelivered = {}
  BY DEF SinksInit
<1>2. NULL \notin Threads /\ MaxLogs \in Nat /\ Writer \in Threads /\ Main \in Threads
  BY NullFacts, SinksAssumption DEF Threads
<1>3. \A t \in Threads : stack[t] = <<>> /\ count[t] = 0
  BY <1>1
<1>4. Typed
  <2>1. sinks \subseteq {"waiting", "mock"}
    BY <1>1, SinksAssumption
  <2>2. stack \in Stacks
    BY <1>1 DEF Stacks
  <2>3. count \in [Threads -> Nat] /\ begun \in 0..MaxLogs
    BY <1>1, <1>2
  <2>4. /\ messages_ \in MessageSeqs /\ global_messages \in MessageSeqs
        /\ captured \in MessageSeqs
    BY <1>1 DEF MessageSeqs
  <2>5. message_info_ \in Infos
    BY <1>1 DEF Infos, NoInfo
  <2>6. /\ writer \in {"poll", "take", "LOG", "LOG2", "store", "exited"}
        /\ main \in {"test", "stop", "join", "done"}
        /\ IsFiniteSet(loggers)
    BY <1>1, FS_EmptySet
  <2> QED
    BY <1>1, <2>1, <2>2, <2>3, <2>4, <2>5, <2>6 DEF Typed
<1>5. ThreadsInv
  <2> SUFFICES ASSUME NEW u \in Threads PROVE ThreadSound(u)
    BY DEF ThreadsInv
  <2>1. stack[u] = <<>> /\ NULL # u
    BY <1>2, <1>3
  <2>2. Nested(stack[u])
    BY <2>1 DEF Nested
  <2> QED
    BY <1>1, <2>1, <2>2 DEF ThreadSound, In
<1>6. WriterInv
  BY <1>1 DEF WriterInv
<1>7. CountInv
  <2>1. Len(global_messages) = 0 /\ Len(captured) = 0
    BY <1>1
  <2>2. WriterLogged = 0
    BY <1>1, <2>1 DEF WriterLogged
  <2> QED
    BY <1>1, <1>2, <1>3, <2>1, <2>2 DEF CountInv
<1>8. QueueInv
  <2>1. Hand = <<>> /\ Coming = <<>>
    BY <1>1, <1>2, <1>3 DEF Hand, Coming
  <2> QED
    BY <1>1, <2>1 DEF QueueInv
<1>9. MockInv
  <2> SUFFICES ASSUME NEW u \in Threads PROVE MockSound(u)
    BY DEF MockInv
  <2>1. stack[u] = <<>>
    BY <1>3
  <2> QED
    BY <1>1, <2>1 DEF MockSound, In
<1> QED
  BY <1>4, <1>5, <1>6, <1>7, <1>8, <1>9 DEF IInv

(* Every step of the threads, the writer and the destructor keeps the      *)
(* inductive invariant.                                                    *)
LEMMA NextSound == IInv /\ [SinksNext]_sinkVars => IInv'
<1> SUFFICES ASSUME IInv, [SinksNext]_sinkVars PROVE IInv'
  OBVIOUS
<1>1. ASSUME NEW t \in Threads, LogStep(t) PROVE IInv'
  BY <1>1, LogLockSound, SendWaitingSound, BufferSound, SendMockSound, WaitWaitingSound,
     WaitMockSound, LogReturnSound DEF LogStep
<1>2. ASSUME NEW t \in Threads, Log(t) \/ LogDuringIntercept(t) PROVE IInv'
  BY <1>2, LogSound
<1>3. CASE WriterStep
  BY <1>3, PollSound, TakeSound, WriterLogsSound, StoreSound DEF WriterStep
<1>4. CASE MainStep
  BY <1>4, RemoveLogSinkSound, StopJoinSound DEF MainStep
<1>5. CASE UNCHANGED sinkVars
  <2>1. /\ UNCHANGED <<log_mutex, sinks, stack, count, begun, mutex_, messages_, should_exit_>>
        /\ UNCHANGED <<writer, message, global_messages, message_info_, main, captured,
                       loggers, misdelivered>>
    BY <1>5 DEF sinkVars
  <2>2. Typed'
    BY <2>1 DEF IInv, Typed
  <2>3. ThreadsInv'
    BY <2>1 DEF IInv, ThreadsInv, ThreadSound, In
  <2>4. WriterInv' /\ CountInv'
    BY <2>1 DEF IInv, WriterInv, CountInv, WriterLogged
  <2>5. QueueInv'
    BY <2>1, StackKept DEF IInv, QueueInv, Hand
  <2>6. MockInv'
    BY <2>1, MockKept DEF IInv
  <2> QED
    BY <2>2, <2>3, <2>4, <2>5, <2>6 DEF IInv
<1> QED
  BY <1>1, <1>2, <1>3, <1>4, <1>5 DEF SinksNext

(* The inductive invariant holds in every state that the threads reach. *)
THEOREM SinksInductive == SinksSpec => []IInv
BY InitSound, NextSound, PTL DEF SinksSpec

(* The frames of a thread in the place its locks say. *)
LEMMA LocksOfFrames ==
  ASSUME Typed, ThreadsInv, NEW t \in Threads
  PROVE  /\ log_mutex = t <=>
              \E f \in Frames(t) : f.pc \in Locked
         /\ mutex_ = t <=>
              (\E f \in Frames(t) : f.pc = "Buffer") \/ (t = Writer /\ writer = "take")
<1>1. ThreadSound(t) /\ stack[t] \in Seq(Frame)
  BY DEF ThreadsInv, Typed, Stacks
<1>2. ASSUME NEW f \in Frames(t), f.pc # "Log"
      PROVE  stack[t] # <<>> /\ f = stack[t][1]
  <2>1. PICK i \in DOMAIN stack[t] : f = stack[t][i]
    BY DEF Frames
  <2>2. i \in Nat /\ i >= 1 /\ stack[t] # <<>>
    BY <1>1, <2>1
  <2>3. ~(i > 1)
    BY <1>1, <1>2, <2>1 DEF ThreadSound, Nested
  <2> QED
    BY <2>1, <2>2, <2>3
<1>3. stack[t] # <<>> => stack[t][1] \in Frames(t)
  <2>1. stack[t] # <<>> => 1 \in DOMAIN stack[t]
    BY <1>1, FirstPlace
  <2> QED
    BY <2>1 DEF Frames
<1> QED
  BY <1>1, <1>2, <1>3 DEF ThreadSound, Locked, In

(* SinksInv follows. *)
LEMMA InvariantIsSinksInv == IInv => SinksInv
<1> SUFFICES ASSUME IInv PROVE SinksInv
  OBVIOUS
<1>1. Typed /\ ThreadsInv /\ WriterInv /\ QueueInv
  BY DEF IInv
<1>2. SinksTypeOK
  <2>1. \A t \in Threads : stack[t] \in Seq(Frame)
    BY <1>1 DEF Typed, Stacks
  <2> QED
    BY <1>1, <2>1, LocksOfFrames DEF SinksTypeOK, Typed, MessageSeqs, Locked
<1>3. CapturedInOrder
  <2>1. captured = global_messages \o Hand \o messages_ \o Coming
    BY <1>1 DEF QueueInv
  <2>2. \A i \in DOMAIN stack[Main] : i > 1 => stack[Main][i].pc = "Log"
    BY <1>1 DEF ThreadsInv, ThreadSound, Nested, Threads
  <2>3. main = "done" => global_messages = captured
    <3> SUFFICES ASSUME main = "done" PROVE global_messages = captured
      OBVIOUS
    <3>1. writer = "exited" /\ messages_ = <<>> /\ message = NULL /\ stack[Main] = <<>>
      BY <1>1 DEF WriterInv
    <3>2. Hand = <<>> /\ Coming = <<>>
      BY <3>1 DEF Hand, Coming
    <3>3. global_messages \in Seq(Messages)
      BY <1>1 DEF Typed, MessageSeqs
    <3> QED
      BY <2>1, <3>1, <3>2, <3>3, ConcatEmptySeq
  <2> QED
    BY <2>1, <2>2, <2>3 DEF CapturedInOrder, Hand
<1> QED
  BY <1>2, <1>3 DEF SinksInv

(* With any threads, any of the sinks and any number of statements, the    *)
(* locks are held where the code holds them, and nothing that Main logs    *)
(* for the waiting sink is lost, doubled or overtaken, with the writer and *)
(* Log() logging themselves.                                               *)
THEOREM NothingLostOnTheWay == SinksSpec => []SinksInv
BY SinksInductive, InvariantIsSinksInv, PTL

(* As long as one thread logs, every call of ScopedMockLog's Log() is for  *)
(* the message of its own statement, however deep the statements nest.     *)
THEOREM MockHolds == SinksSpec => []MockExactWhenAlone
<1>1. IInv => MockExactWhenAlone
  <2> SUFFICES ASSUME IInv, Cardinality(loggers) = 1 PROVE misdelivered = {}
    BY DEF MockExactWhenAlone
  <2>1. IsFiniteSet(loggers) /\ loggers \subseteq Threads
    BY DEF IInv, Typed
  <2>2. PICK t : loggers = {t}
    BY <2>1, FS_Singleton
  <2> QED
    BY <2>1, <2>2 DEF IInv, MockInv, MockSound
<1> QED
  BY <1>1, SinksInductive, PTL

=============================================================================
