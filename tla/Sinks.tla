------------------------------- MODULE Sinks -------------------------------
(***************************************************************************)
(* Log sinks that themselves log: the TestWaitingLogSink of                *)
(* logging_unittest.cc with its writer thread, and the ScopedMockLog of    *)
(* mock-log.h, whose Log() may call LOG again. Both split the work between *)
(* send(), which runs under the lock of the logging system, and            *)
(* WaitTillSent(), which runs after it. That system is not in the tree:    *)
(* LOG is modelled from the contract of LogSink in logging.h.in.           *)
(***************************************************************************)
EXTENDS Integers, Sequences, FiniteSets

CONSTANTS Main,           \* the thread that made the waiting sink
          Others,         \* other threads that log
          Writer,         \* TestLogSinkWriter
          Registrations,  \* the sinks that may be there at first
          MaxLogs,        \* bound: LOG statements other than the writer's own
          NULL

ASSUME MainAssumption == Main \notin Others /\ Writer \notin Others \cup {Main}

ASSUME SinksAssumption == /\ Registrations \subseteq SUBSET {"waiting", "mock"}
                          /\ MaxLogs \in Nat
                          /\ NULL \notin {Main, Writer} \cup Others
                          /\ NULL \notin ({Main, Writer} \cup Others) \X Nat

VARIABLES log_mutex,        \* who is inside the logging system, or NULL
          sinks,            \* the registered ones
          stack,            \* the LOG statements each thread is in, inner first
          count,            \* LOG statements of each thread; a message is its
                            \* thread and its number
          begun,            \* LOG statements begun, for the bound
          mutex_, messages_, should_exit_,   \* of the writer
          writer,           \* where its Run is
          message,          \* the one it has in hand, or NULL
          global_messages,
          message_info_,    \* of the ScopedMockLog
          main,             \* how far the test is: "test", "stop", "join", "done"
          captured,         \* history: what Main logged for the waiting sink
          loggers,          \* history: the threads that have logged
          misdelivered      \* history: calls of Log() with another message than
                            \* that of their LOG statement

sinkVars == <<log_mutex, sinks, stack, count, begun, mutex_, messages_, should_exit_,
              writer, message, global_messages, message_info_, main, captured,
              loggers, misdelivered>>

Threads == {Main, Writer} \cup Others

NoInfo == [head |-> NULL, text |-> NULL]

SinksInit ==
  /\ sinks \in Registrations
  /\ log_mutex = NULL /\ mutex_ = NULL
  /\ stack = [t \in Threads |-> <<>>]
  /\ count = [t \in Threads |-> 0] /\ begun = 0
  /\ messages_ = <<>> /\ should_exit_ = FALSE
  /\ writer = "poll" /\ message = NULL
  /\ global_messages = <<>>
  /\ message_info_ = NoInfo
  /\ main = "test"
  /\ captured = <<>> /\ loggers = {} /\ misdelivered = {}

histories == <<captured, loggers, misdelivered>>

writerVars == <<should_exit_, writer, message, global_messages, main>>

-----------------------------------------------------------------------------
(* LOG(...): the lock, send() of every sink, WaitTillSent() of every sink *)

In(t, label) == stack[t] # <<>> /\ stack[t][1].pc = label

Goto(t, label) == stack' = [stack EXCEPT ![t][1].pc = label]

Msg(t) == stack[t][1].msg

BeginLog(t) == LET m == <<t, count[t] + 1>> IN
  /\ stack' = [stack EXCEPT ![t] = 
              <<[pc |-> "lock", msg |-> m, info |-> NoInfo]>> \o @]
  /\ count' = [count EXCEPT ![t] = @ + 1]
  /\ captured' = IF t = Main /\ "waiting" \in sinks THEN Append(captured, m)
                 ELSE captured
  /\ loggers' = loggers \cup {t}
  /\ UNCHANGED <<log_mutex, sinks, mutex_, messages_, message_info_, misdelivered>>

\* A statement of the test, or one inside ScopedMockLog's Log().
Log(t) ==
  /\ t # Writer
  /\ stack[t] = <<>> /\ (t = Main => main = "test")
  /\ begun < MaxLogs /\ begun' = begun + 1
  /\ BeginLog(t)
  /\ UNCHANGED writerVars

LogDuringIntercept(t) ==
  /\ In(t, "Log")
  /\ begun < MaxLogs /\ begun' = begun + 1
  /\ BeginLog(t)
  /\ UNCHANGED writerVars

LogLock(t) ==
  /\ In(t, "lock") /\ log_mutex = NULL
  /\ log_mutex' = t
  /\ Goto(t, "send")
  /\ UNCHANGED <<sinks, count, begun, mutex_, messages_, message_info_, histories,
                 writerVars>>

\* TestWaitingLogSink::send: only for the thread that made the sink.
SendWaiting(t) ==
  /\ In(t, "send")
  /\ IF "waiting" \in sinks /\ t = Main
       THEN mutex_ = NULL /\ mutex_' = t /\ Goto(t, "Buffer")
       ELSE Goto(t, "send_mock") /\ UNCHANGED mutex_
  /\ UNCHANGED <<log_mutex, sinks, count, begun, messages_, message_info_, histories,
                 writerVars>>

Buffer(t) ==
  /\ In(t, "Buffer")
  /\ messages_' = Append(messages_, Msg(t))
  /\ mutex_' = NULL
  /\ Goto(t, "send_mock")
  /\ UNCHANGED <<log_mutex, sinks, count, begun, message_info_, histories,
                 writerVars>>

\* ScopedMockLog::send: severity and file, then the message.
SendMock(t) ==
  /\ \/ /\ In(t, "send_mock") /\ "mock" \in sinks
        /\ message_info_' = [message_info_ EXCEPT !.head = Msg(t)]
        /\ Goto(t, "send_text") /\ UNCHANGED log_mutex
     \/ /\ In(t, "send_text")
        /\ message_info_' = [message_info_ EXCEPT !.text = Msg(t)]
        /\ Goto(t, "wait") /\ log_mutex' = NULL
     \/ /\ In(t, "send_mock") /\ "mock" \notin sinks
        /\ Goto(t, "wait") /\ log_mutex' = NULL
        /\ UNCHANGED message_info_
  /\ UNCHANGED <<sinks, count, begun, mutex_, messages_, histories,
                 writerVars>>

NoWork == messages_ = <<>>

\* TestWaitingLogSink::WaitTillSent, which polls under mutex_.
WaitWaiting(t) ==
  /\ In(t, "wait")
  /\ "waiting" \in sinks /\ t = Main => mutex_ = NULL /\ NoWork
  /\ Goto(t, "WaitTillSent")
  /\ UNCHANGED <<log_mutex, sinks, count, begun, mutex_, messages_, message_info_,
                 captured, histories, writerVars>>

\* ScopedMockLog::WaitTillSent: the copy, and the call of Log().
WaitMock(t) ==
  /\ In(t, "WaitTillSent")
  /\ stack' = IF "mock" \in sinks
               THEN [stack EXCEPT ![t][1] = [@ EXCEPT !.pc = "Log",
                                                      !.info = message_info_]]
               ELSE [stack EXCEPT ![t] = Tail(@)]
  /\ UNCHANGED <<log_mutex, sinks, count, begun, mutex_, messages_, message_info_,
                 captured, histories, writerVars>>

\* Log() works with the sink's own message.
MutNoCopy(t) == message_info_

Arguments(t) == stack[t][1].info

\* Log(), which reads its arguments to its end, and the LOG statement return.
LogReturn(t) ==
  /\ In(t, "Log")
  /\ misdelivered' = IF Arguments(t) = [head |-> Msg(t), text |-> Msg(t)]
                      THEN misdelivered ELSE misdelivered \cup {Msg(t)}
  /\ stack' = [stack EXCEPT ![t] = Tail(@)]
  /\ UNCHANGED <<log_mutex, sinks, count, begun, mutex_, messages_, message_info_,
                 loggers, captured, writerVars>>

-----------------------------------------------------------------------------
(* TestLogSinkWriter::Run *)

\* while (!HaveWork()) ...; then the exit, or the lock kept
Poll ==
  /\ writer = "poll" /\ mutex_ = NULL
  /\ ~NoWork \/ should_exit_
  /\ IF should_exit_ /\ NoWork THEN writer' = "exited" /\ UNCHANGED mutex_
                ELSE writer' = "take" /\ mutex_' = Writer
  /\ UNCHANGED <<log_mutex, sinks, stack, count, begun, messages_, should_exit_,
                 message, global_messages, message_info_, main, histories>>

\* The lock is kept while the writer logs.
MutLogUnderMutex == Writer

AfterTake == NULL

Take ==
  /\ writer = "take"
  /\ message' = Head(messages_)
  /\ messages_' = Tail(messages_)
  /\ mutex_' = AfterTake
  /\ writer' = "LOG"
  /\ UNCHANGED <<log_mutex, sinks, stack, count, begun, should_exit_, global_messages,
                 message_info_, main, histories>>

\* LOG(INFO) << "Sink is sending out a message: "; LOG(INFO) << "Have "
WriterLogs ==
  /\ writer \in {"LOG", "LOG2"} /\ stack[Writer] = <<>>
  /\ writer' = IF writer = "LOG" THEN "LOG2" ELSE "store"
  /\ BeginLog(Writer)
  /\ UNCHANGED <<begun, should_exit_, message, global_messages, main>>

\* global_messages.push_back(message)
Store ==
  /\ writer = "store" /\ stack[Writer] = <<>>
  /\ global_messages' = Append(global_messages, message)
  /\ message' = NULL
  /\ writer' = "poll"
  /\ UNCHANGED <<log_mutex, sinks, stack, count, begun, mutex_, messages_,
                 should_exit_, message_info_, main, histories>>

-----------------------------------------------------------------------------
(* ~TestWaitingLogSink: RemoveLogSink, Stop, Join *)

RemoveLogSink ==
  /\ main = "test" /\ stack[Main] = <<>> /\ log_mutex = NULL
  /\ sinks' = sinks \ {"waiting"}
  /\ main' = "stop"
  /\ UNCHANGED <<log_mutex, stack, count, begun, mutex_, messages_, should_exit_,
                 writer, message, global_messages, message_info_, histories>>

Stop ==
  /\ main = "stop" /\ mutex_ = NULL
  /\ should_exit_' = TRUE
  /\ main' = "join"
  /\ UNCHANGED <<log_mutex, sinks, stack, count, begun, mutex_, messages_, writer,
                 message, global_messages, message_info_, histories>>

\* The writer is left to itself.
MutDetach == TRUE

Joined == writer = "exited"

Join ==
  /\ main = "join" /\ Joined
  /\ main' = "done"
  /\ UNCHANGED <<log_mutex, sinks, stack, count, begun, mutex_, messages_,
                 should_exit_, writer, message, global_messages, message_info_,
                 histories>>

-----------------------------------------------------------------------------
LogStep(t) == \/ LogLock(t) \/ SendWaiting(t) \/ Buffer(t) \/ SendMock(t)
              \/ WaitWaiting(t) \/ WaitMock(t) \/ LogReturn(t)

WriterStep == Poll \/ Take \/ WriterLogs \/ Store

MainStep == RemoveLogSink \/ Stop \/ Join

SinksNext == \/ \E t \in Threads : LogStep(t) \/ Log(t) \/ LogDuringIntercept(t)
             \/ WriterStep \/ MainStep

\* Threads run; the test comes to its end.
SinksSpec == /\ SinksInit /\ [][SinksNext]_sinkVars
             /\ \A t \in Threads : WF_sinkVars(LogStep(t))
             /\ WF_sinkVars(WriterStep) /\ WF_sinkVars(MainStep)

-----------------------------------------------------------------------------
(* Properties *)

Frames(t) == {stack[t][i] : i \in DOMAIN stack[t]}

Messages == {<<t, i>> : t \in Threads, i \in 1..(3 * MaxLogs)}

Infos == [head : Messages \cup {NULL}, text : Messages \cup {NULL}]

Places == {"lock", "send", "Buffer", "send_mock", "send_text", "wait",
           "WaitTillSent", "Log"}

\* The places inside of the logging system.
Locked == {"send", "Buffer", "send_mock", "send_text"}

Frame == [pc : Places, msg : Messages, info : Infos]

(* Every variable has its type, and each lock is held by a thread that is  *)
(* where the code holds it, and by no other.                               *)
SinksTypeOK ==
  /\ sinks \subseteq {"waiting", "mock"}
  /\ \A t \in Threads : stack[t] \in Seq(Frame)
  /\ messages_ \in Seq(Messages) /\ global_messages \in Seq(Messages)
  /\ message \in Messages \cup {NULL}
  /\ message_info_ \in Infos
  /\ \A t \in Threads : log_mutex = t <=> \E f \in Frames(t) : f.pc \in Locked
  /\ \A t \in Threads : mutex_ = t <=>
       (\E f \in Frames(t) : f.pc = "Buffer") \/ (t = Writer /\ writer = "take")

\* What Main is logging and has not queued yet: its innermost LOG statement.
Coming ==
  IF /\ "waiting" \in sinks /\ stack[Main] # <<>>
     /\ stack[Main][1].pc \in {"lock", "send", "Buffer"}
    THEN <<Msg(Main)>> ELSE <<>>

(* The waiting sink loses, doubles and reorders nothing, with the creator, *)
(* the writer's own LOG statements and other threads interleaved in any    *)
(* way: what the creator logs while the sink is registered is, in order,   *)
(* stored, in the writer's hand, queued or about to be; when the           *)
(* destructor has joined the writer all is stored. This is the             *)
(* CHECK_EQ(global_messages.size(), 3UL) of TestLogSinkWaitTillSent        *)
(* without its sleeps.                                                     *)
CapturedInOrder ==
  LET hand == IF message = NULL THEN <<>> ELSE <<message>>
  IN /\ captured = global_messages \o hand \o messages_ \o Coming
     /\ \A i \in DOMAIN stack[Main] : i > 1 => stack[Main][i].pc = "Log"
     /\ main = "done" => global_messages = captured

(* The locks are held where the code holds them, and no message is lost,   *)
(* doubled or overtaken on its way to the writer.                          *)
SinksInv == SinksTypeOK /\ CapturedInOrder

(* As long as one thread logs, ScopedMockLog's Log() sees, from its        *)
(* beginning to its end, the message of the LOG statement it was called    *)
(* for, however deep the statements nest through Log() itself.             *)
MockExactWhenAlone == Cardinality(loggers) = 1 => misdelivered = {}

(* No LOG statement hangs, although the sink that a message goes to logs   *)
(* itself from another thread, and the destructor of the waiting sink      *)
(* comes to its end.                                                       *)
LogsReturn == <>[](main = "done" /\ \A t \in Threads : stack[t] = <<>>)

=============================================================================
