------------------------------- MODULE RawLog -------------------------------
(***************************************************************************)
(* RAW_LOG: RawLog__ of src/raw_logging.cc with DoRawLog and VADoRawLog,   *)
(* and SetCrashReason of src/utilities.cc. Threads format a line into a    *)
(* buffer of their own, write it with one system call, and for FATAL       *)
(* record the reason of the crash before they abort.                       *)
(*                                                                         *)
(* A text is a sequence of one character per byte that only tells where    *)
(* the byte comes from: the prefix, the message, the notice that the       *)
(* message was too long, or the newline.                                   *)
(***************************************************************************)
EXTENDS Integers, Sequences

CONSTANTS Threads,
          kLogBufSize,
          PrefixSizes,   \* lengths of the formatted prefix
          MessageSizes,  \* lengths of the formatted message; -1: an error
          NoticeSize,    \* length of "RAW_LOG ERROR: The Message was too long!"
          Severities,    \* severities of the calls made
          MaxCalls,      \* bound: how many calls each thread makes
          NULL

GOOGLELOG_FATAL == 3

ASSUME SizesAssumption ==
         /\ kLogBufSize \in Nat \ {0} /\ NoticeSize \in Nat
         /\ PrefixSizes \subseteq Nat /\ MessageSizes \subseteq Nat \cup {-1}

ASSUME SeveritiesAssumption == Severities \subseteq 0..GOOGLELOG_FATAL

ASSUME RawCallsAssumption == MaxCalls \in Nat /\ NULL \notin Threads \X Nat

VARIABLES flags,         \* the flags and the state that suppress messages
          pc,
          call,          \* the arguments of each thread's call
          count,         \* calls made by each thread
          buffer,        \* the string in each thread's `buffer`
          msg_start,     \* where the message begins in it
          stderr,        \* the lines written
          crashed,
          crash_reason,  \* field -> the call that filled it in
          crash_buf,
          g_reason,      \* whether it points at crash_reason
          aborted

vars == <<flags, pc, call, count, buffer, msg_start, stderr, crashed,
          crash_reason, crash_buf, g_reason, aborted>>

Chars == {"prefix", "message", "notice", "newline"}

Text(c, n) == [i \in 1..n |-> c]

Calls == [id : Threads \X Nat, severity : Severities, prefix : PrefixSizes,
          message : MessageSizes]

Fields == {"filename", "line_number", "message", "stack"}

Flags == [any_stderr : BOOLEAN,     \* logtostdout, logtostderr, alsologtostderr
          stderrthreshold : 0..GOOGLELOG_FATAL,
          initialized : BOOLEAN]    \* IsGoogleLoggingInitialized()

Init ==
  /\ flags \in Flags
  /\ pc = [t \in Threads |-> "idle"]
  /\ call = [t \in Threads |-> NULL]
  /\ count = [t \in Threads |-> 0]
  /\ buffer = [t \in Threads |-> <<>>]
  /\ msg_start = [t \in Threads |-> 0]
  /\ stderr = <<>>
  /\ crashed = FALSE
  /\ crash_reason = [f \in Fields |-> NULL]
  /\ crash_buf = <<>>
  /\ g_reason = NULL
  /\ aborted = FALSE

-----------------------------------------------------------------------------
(* The formatting, which no other thread can see. A cursor is the string   *)
(* in the buffer, where *buf points into it, and *size.                    *)

Shorter(a, b) == IF a < b THEN a ELSE b

\* The size given to vsnprintf: what is left of the buffer.
SizeLeft(c) == c.size

\* vsnprintf: at most size - 1 bytes and the terminating NUL.
vsnprintf(c, char, n) ==
  IF SizeLeft(c) = 0 THEN c.text
  ELSE SubSeq(c.text, 1, Shorter(c.buf, Len(c.text)))
         \o Text(char, Shorter(n, SizeLeft(c) - 1))

Chopped(n, size) == n < 0 \/ n > size

DoRawLog(c, char, n) ==
  IF Chopped(n, c.size)
    THEN [ok |-> FALSE, text |-> vsnprintf(c, char, n),
          buf |-> c.buf, size |-> c.size]
    ELSE [ok |-> TRUE, text |-> vsnprintf(c, char, n),
          buf |-> c.buf + n, size |-> c.size - n]

Fresh == [ok |-> TRUE, text |-> <<>>, buf |-> 0, size |-> kLogBufSize]

AfterPrefix(c) == DoRawLog(Fresh, "prefix", c.prefix)

\* VADoRawLog does what DoRawLog does.
AfterMessage(c) == DoRawLog(AfterPrefix(c), "message", c.message)

\* A line that was chopped ends like any other.
MutNoNotice(m) == DoRawLog(m, "newline", 1)

AfterEnding(m) == IF m.ok THEN DoRawLog(m, "newline", 1)
                  ELSE DoRawLog(m, "notice", NoticeSize)

-----------------------------------------------------------------------------
(* RawLog__ *)

Suppressed(severity) ==
  ~(\/ flags.any_stderr
    \/ severity >= flags.stderrthreshold
    \/ ~flags.initialized)

RawLog(t, severity, prefix, message) ==
  LET c == [id |-> <<t, count[t]>>, severity |-> severity, prefix |-> prefix,
            message |-> message]
  IN /\ ~aborted /\ pc[t] = "idle" /\ count[t] < MaxCalls
     /\ count' = [count EXCEPT ![t] = @ + 1]
     /\ IF Suppressed(severity)
          THEN UNCHANGED <<pc, call, buffer, msg_start>>
          ELSE /\ pc' = [pc EXCEPT ![t] = "write"]
               /\ call' = [call EXCEPT ![t] = c]
               /\ buffer' = [buffer EXCEPT ![t] =
                               AfterEnding(AfterMessage(c)).text]
               /\ msg_start' = [msg_start EXCEPT ![t] = AfterPrefix(c).buf]
     /\ UNCHANGED <<flags, stderr, crashed, crash_reason, crash_buf, g_reason,
                    aborted>>

Done(t) == /\ pc' = [pc EXCEPT ![t] = "idle"]
           /\ call' = [call EXCEPT ![t] = NULL]
           /\ buffer' = [buffer EXCEPT ![t] = <<>>]
           /\ msg_start' = [msg_start EXCEPT ![t] = 0]

Step(t, from, to) == ~aborted /\ pc[t] = from /\ pc' = [pc EXCEPT ![t] = to]

\* safe_write(STDERR_FILENO, buffer, strlen(buffer))
safe_write(t) ==
  /\ ~aborted /\ pc[t] = "write"
  /\ stderr' = Append(stderr, [call |-> call[t], text |-> buffer[t]])
  /\ IF call[t].severity = GOOGLELOG_FATAL
       THEN pc' = [pc EXCEPT ![t] = "swap"] /\ UNCHANGED <<call, buffer, msg_start>>
       ELSE Done(t)
  /\ UNCHANGED <<flags, count, crashed, crash_reason, crash_buf, g_reason, aborted>>

\* Every thread takes itself for the first.
MutAllCrash == TRUE

FirstCrash == ~crashed

\* sync_val_compare_and_swap(&crashed, false, true)
SwapCrashed(t) ==
  /\ Step(t, "swap", IF FirstCrash THEN "filename" ELSE "fail")
  /\ crashed' = TRUE
  /\ UNCHANGED <<flags, call, count, buffer, msg_start, stderr, crash_reason,
                 crash_buf, g_reason, aborted>>

Fill(t, field, to) ==
  /\ Step(t, field, to)
  /\ crash_reason' = [crash_reason EXCEPT ![field] = call[t].id]
  /\ UNCHANGED <<flags, call, count, buffer, msg_start, stderr, crashed,
                 g_reason, aborted>>

FillFile(t) == Fill(t, "filename", "line_number") /\ UNCHANGED crash_buf

FillLine(t) == Fill(t, "line_number", "message") /\ UNCHANGED crash_buf

\* memcpy(crash_buf, msg_start, msg_size): the message without the prefix.
FillMessage(t) ==
  /\ Fill(t, "message", "stack")
  /\ crash_buf' = SubSeq(buffer[t], msg_start[t] + 1, Len(buffer[t]))

FillStack(t) == Fill(t, "stack", "publish") /\ UNCHANGED crash_buf

SetCrashReason(t) ==
  /\ Step(t, "publish", "fail")
  /\ g_reason' = IF g_reason = NULL THEN "crash_reason" ELSE g_reason
  /\ UNCHANGED <<flags, call, count, buffer, msg_start, stderr, crashed,
                 crash_reason, crash_buf, aborted>>

\* LogMessage::Fail(), which does not return.
Fail(t) ==
  /\ Step(t, "fail", "failed")
  /\ aborted' = TRUE
  /\ UNCHANGED <<flags, call, count, buffer, msg_start, stderr, crashed,
                 crash_reason, crash_buf, g_reason>>

CrashStep(t) == \/ SwapCrashed(t) \/ FillFile(t) \/ FillLine(t)
                \/ FillMessage(t) \/ FillStack(t) \/ SetCrashReason(t) \/ Fail(t)

Next == \E t \in Threads :
          \/ \E s \in Severities, p \in PrefixSizes, m \in MessageSizes :
               RawLog(t, s, p, m)
          \/ safe_write(t)
          \/ CrashStep(t)

Spec == Init /\ [][Next]_vars

-----------------------------------------------------------------------------
(* Properties *)

Pcs == {"idle", "write", "swap", "publish", "fail", "failed"} \cup Fields

(* Every variable has its type; and whatever the sizes of the prefix and   *)
(* the message, also when *buf has come to the very end of the buffer, the *)
(* string in it and its NUL fit into it, and the message begins in it.     *)
TypeOK ==
  /\ flags \in Flags
  /\ pc \in [Threads -> Pcs]
  /\ call \in [Threads -> Calls \cup {NULL}]
  /\ count \in [Threads -> 0..MaxCalls]
  /\ \A t \in Threads : /\ buffer[t] \in Seq(Chars)
                        /\ Len(buffer[t]) < kLogBufSize
                        /\ msg_start[t] \in 0..kLogBufSize
  /\ stderr \in Seq([call : Calls, text : Seq(Chars)])
  /\ crashed \in BOOLEAN
  /\ crash_reason \in [Fields -> (Threads \X Nat) \cup {NULL}]
  /\ crash_buf \in Seq(Chars) /\ Len(crash_buf) < kLogBufSize
  /\ g_reason \in {NULL, "crash_reason"}
  /\ aborted \in BOOLEAN

\* The bytes behind the prefix that a message of m bytes leaves in `room`:
\* the whole of it and a newline, or the notice, as far as there is room.
Rest(m, room) ==
  LET whole == IF m \in 0..room THEN Text("message", m) \o Text("newline", 1)
               ELSE Text("notice", NoticeSize)
  IN SubSeq(whole, 1, Shorter(Len(whole), room - 1))

(* Every line on stderr is what it should be, for every size of prefix and *)
(* message around the size of the buffer: the prefix, then the message or  *)
(* the notice that it was too long, and never the remains of one under the *)
(* other.                                                                  *)
LinesWhole ==
  \A n \in DOMAIN stderr :
    LET c == stderr[n].call
        room == kLogBufSize - c.prefix
    IN c.prefix < kLogBufSize =>
         stderr[n].text = Text("prefix", c.prefix) \o Rest(c.message, room)

(* The buffers hold their text and its NUL, and every line is whole. *)
LinesInv == TypeOK /\ LinesWhole

(* "We use an atomic operation to prevent problems with calling            *)
(* CrashReason" (utilities.cc:354): a reason that is published is whole.   *)
(* However many threads crash at once, all its fields are of one call, a   *)
(* FATAL one, and its message is what that call has written to stderr,     *)
(* without the prefix.                                                     *)
CrashReasonWhole ==
  g_reason # NULL =>
    \E n \in DOMAIN stderr :
      /\ stderr[n].call.severity = GOOGLELOG_FATAL
      /\ crash_reason = [f \in Fields |-> stderr[n].call.id]
      /\ stderr[n].call.prefix < kLogBufSize =>
           stderr[n].text = Text("prefix", stderr[n].call.prefix) \o crash_buf

(* raw_logging.cc:88 of DoRawLog: "It returns true iff there was no        *)
(* overflow or error". For the message of every line written: it was not   *)
(* chopped when VADoRawLog said so.                                        *)
NoOverflowWhenTrue ==
  \A n \in DOMAIN stderr :
    LET c == stderr[n].call
    IN AfterMessage(c).ok =>
         AfterMessage(c).text = SubSeq(AfterPrefix(c).text, 1, AfterPrefix(c).buf)
                                  \o Text("message", c.message)

=============================================================================
