---------------------------- MODULE RawLogProofs ----------------------------
(***************************************************************************)
(* Proofs about RawLog, for any threads, any size of the buffer and any    *)
(* sizes of prefixes and messages: no text outgrows its buffer, every line *)
(* written is whole, and a reason of a crash that is published is whole.   *)
(***************************************************************************)
EXTENDS RawLog, SequenceTheorems, TLAPS

\* The string that RawLog__ leaves in its buffer.
FormattedLine(c) == AfterEnding(AfterMessage(c)).text

-----------------------------------------------------------------------------
(* Texts *)

(* A text of n bytes of one kind. *)
LEMMA TextFacts ==
  ASSUME NEW c \in Chars, NEW n \in Nat
  PROVE  /\ Text(c, n) \in Seq(Chars) /\ Len(Text(c, n)) = n
         /\ \A i \in 1..n : Text(c, n)[i] = c
<1>1. Text(c, n) \in [1..n -> Chars]
  BY DEF Text
<1> QED
  BY <1>1 DEF Text

(* A text of no byte, or of a negative count of them. *)
LEMMA TextEmpty ==
  ASSUME NEW c, NEW n \in Int, n <= 0
  PROVE  Text(c, n) = <<>>
BY DEF Text

(* The beginning of a sequence, byte by byte. *)
LEMMA BeginningFacts ==
  ASSUME NEW q \in Seq(Chars), NEW n \in 0..Len(q)
  PROVE  /\ SubSeq(q, 1, n) \in Seq(Chars) /\ Len(SubSeq(q, 1, n)) = n
         /\ \A i \in 1..n : SubSeq(q, 1, n)[i] = q[i]
<1> DEFINE front == SubSeq(q, 1, n)
<1>1. n \in Nat /\ \A i \in 1..n : q[i] \in Chars
  OBVIOUS
<1>2. /\ front \in Seq(Chars)
      /\ Len(front) = IF 1 <= n THEN n - 1 + 1 ELSE 0
      /\ \A i \in 1..(n - 1 + 1) : front[i] = q[1 + i - 1]
  BY <1>1, SubSeqProperties
<1> HIDE DEF front
<1>3. Len(front) = n
  BY <1>1, <1>2
<1>4. \A i \in 1..n : front[i] = q[i]
  BY <1>1, <1>2
<1> QED
  BY <1>2, <1>3, <1>4 DEF front

(* A concatenation, byte by byte. *)
LEMMA JoinFacts ==
  ASSUME NEW q \in Seq(Chars), NEW r \in Seq(Chars)
  PROVE  /\ q \o r \in Seq(Chars) /\ Len(q \o r) = Len(q) + Len(r)
         /\ \A i \in 1..Len(q) : (q \o r)[i] = q[i]
         /\ \A i \in 1..Len(r) : (q \o r)[Len(q) + i] = r[i]
<1> DEFINE j == q \o r
<1>1. /\ j \in Seq(Chars) /\ Len(j) = Len(q) + Len(r)
      /\ \A i \in 1..(Len(q) + Len(r)) : j[i] = IF i <= Len(q) THEN q[i] ELSE r[i - Len(q)]
  BY ConcatProperties
<1>2. Len(q) \in Nat /\ Len(r) \in Nat
  OBVIOUS
<1> HIDE DEF j
<1>3. \A i \in 1..Len(q) : j[i] = q[i]
  BY <1>1, <1>2
<1>4. \A i \in 1..Len(r) : j[Len(q) + i] = r[i]
  BY <1>1, <1>2
<1> QED
  BY <1>1, <1>3, <1>4 DEF j

(* The beginning of a text of one kind is one, of that kind. *)
LEMMA BeginningOfText ==
  ASSUME NEW c \in Chars, NEW n \in Nat, NEW k \in 0..n
  PROVE  SubSeq(Text(c, n), 1, k) = Text(c, k)
<1> DEFINE q == Text(c, n)
<1>1. q \in Seq(Chars) /\ Len(q) = n /\ (\A i \in 1..n : q[i] = c) /\ k \in Nat
  BY TextFacts
<1>2. Text(c, k) \in Seq(Chars) /\ Len(Text(c, k)) = k /\ \A i \in 1..k : Text(c, k)[i] = c
  BY <1>1, TextFacts
<1> HIDE DEF q
<1>3. /\ SubSeq(q, 1, k) \in Seq(Chars) /\ Len(SubSeq(q, 1, k)) = k
      /\ \A i \in 1..k : SubSeq(q, 1, k)[i] = q[i]
  BY <1>1, BeginningFacts
<1>4. \A i \in 1..k : SubSeq(q, 1, k)[i] = Text(c, k)[i]
  BY <1>1, <1>2, <1>3
<1> QED
  BY <1>2, <1>3, <1>4, SeqEqual DEF q

(* What a concatenation begins with, and what it ends with. *)
LEMMA PartsOfJoin ==
  ASSUME NEW q \in Seq(Chars), NEW r \in Seq(Chars)
  PROVE  /\ \A k \in 0..Len(q) : SubSeq(q \o r, 1, k) = SubSeq(q, 1, k)
         /\ SubSeq(q \o r, 1, Len(q)) = q
         /\ SubSeq(q \o r, 1, Len(q) + Len(r)) = q \o r
         /\ SubSeq(q \o r, Len(q) + 1, Len(q) + Len(r)) = r
<1> DEFINE j == q \o r
<1>1. /\ j \in Seq(Chars) /\ Len(j) = Len(q) + Len(r)
      /\ \A i \in 1..Len(q) : j[i] = q[i]
      /\ \A i \in 1..Len(r) : j[Len(q) + i] = r[i]
      /\ Len(q) \in Nat /\ Len(r) \in Nat
  BY JoinFacts
<1> HIDE DEF j
<1>2. ASSUME NEW k \in 0..Len(q) PROVE SubSeq(j, 1, k) = SubSeq(q, 1, k)
  <2>1. k \in 0..Len(j)
    BY <1>1
  <2>2. /\ SubSeq(q, 1, k) \in Seq(Chars) /\ Len(SubSeq(q, 1, k)) = k
        /\ \A i \in 1..k : SubSeq(q, 1, k)[i] = q[i]
    BY BeginningFacts
  <2>3. /\ SubSeq(j, 1, k) \in Seq(Chars) /\ Len(SubSeq(j, 1, k)) = k
        /\ \A i \in 1..k : SubSeq(j, 1, k)[i] = j[i]
    BY <1>1, <2>1, BeginningFacts
  <2>4. \A i \in 1..k : SubSeq(j, 1, k)[i] = SubSeq(q, 1, k)[i]
    BY <1>1, <2>2, <2>3
  <2> QED
    BY <2>2, <2>3, <2>4, SeqEqual
<1>3. \A s \in Seq(Chars) : SubSeq(s, 1, Len(s)) = s
  <2>1. SUFFICES ASSUME NEW s \in Seq(Chars) PROVE SubSeq(s, 1, Len(s)) = s
    OBVIOUS
  <2>2. /\ SubSeq(s, 1, Len(s)) \in Seq(Chars) /\ Len(SubSeq(s, 1, Len(s))) = Len(s)
        /\ \A i \in 1..Len(s) : SubSeq(s, 1, Len(s))[i] = s[i]
    BY BeginningFacts
  <2> QED
    BY <2>2, SeqEqual
<1>4. SubSeq(j, 1, Len(q)) = q
  BY <1>1, <1>2, <1>3
<1>5. SubSeq(j, 1, Len(q) + Len(r)) = j
  BY <1>1, <1>3
<1>6. SubSeq(j, Len(q) + 1, Len(q) + Len(r)) = r
  <2> DEFINE a == Len(q) + 1
             b == Len(q) + Len(r)
             e == SubSeq(j, a, b)
  <2>1. a \in Int /\ b \in Int /\ \A i \in a..b : j[i] \in Chars
    BY <1>1
  <2>2. /\ e \in Seq(Chars) /\ Len(e) = IF a <= b THEN b - a + 1 ELSE 0
        /\ \A i \in 1..(b - a + 1) : e[i] = j[a + i - 1]
    BY <2>1, SubSeqProperties
  <2> HIDE DEF e
  <2>3. Len(e) = Len(r)
    BY <1>1, <2>2
  <2>4. \A i \in 1..Len(r) : i \in 1..(b - a + 1) /\ a + i - 1 = Len(q) + i
    BY <1>1
  <2>5. \A i \in 1..Len(e) : e[i] = r[i]
    BY <1>1, <2>2, <2>3, <2>4
  <2> QED
    BY <2>2, <2>3, <2>5, SeqEqual DEF e
<1> QED
  BY <1>2, <1>4, <1>5, <1>6 DEF j

-----------------------------------------------------------------------------
(* The formatting *)

Size == 0..kLogBufSize

\* A cursor that is inside of the buffer, with a text that fits.
Fits(c) == /\ c.text \in Seq(Chars) /\ Len(c.text) < kLogBufSize
           /\ c.buf \in Size /\ c.size = kLogBufSize - c.buf

(* What vsnprintf and DoRawLog make of a cursor inside of the buffer is    *)
(* inside of it, also when the cursor is at its end.                       *)
LEMMA DoRawLogFits ==
  ASSUME NEW c, Fits(c), NEW char \in Chars, NEW n \in Nat \cup {-1}
  PROVE  Fits(DoRawLog(c, char, n))
<1>1. kLogBufSize \in Nat /\ kLogBufSize > 0
  BY SizesAssumption
<1>2. /\ c.text \in Seq(Chars) /\ Len(c.text) \in Nat /\ Len(c.text) < kLogBufSize
      /\ c.buf \in Nat /\ c.buf <= kLogBufSize /\ c.size = kLogBufSize - c.buf
      /\ c.size \in Nat
  BY <1>1 DEF Fits, Size
<1> DEFINE v == vsnprintf(c, char, n)
<1>3. v \in Seq(Chars) /\ Len(v) < kLogBufSize
  <2>1. CASE c.size = 0
    BY <1>2, <2>1 DEF vsnprintf, SizeLeft
  <2>2. CASE c.size # 0
    <3> DEFINE k == Shorter(c.buf, Len(c.text))
               m == Shorter(n, c.size - 1)
               front == SubSeq(c.text, 1, k)
               back == Text(char, m)
    <3>1. k \in 0..Len(c.text) /\ k <= c.buf
      BY <1>2 DEF Shorter
    <3>2. m \in Int /\ m <= c.size - 1
      BY <1>2, <2>2 DEF Shorter
    <3>3. front \in Seq(Chars) /\ Len(front) = k
      BY <1>2, <3>1, BeginningFacts
    <3> HIDE DEF k, m
    <3>4. back \in Seq(Chars) /\ Len(back) <= c.size - 1 /\ Len(back) \in Nat
      <4>1. CASE m <= 0
        <5>1. back = <<>>
          BY <3>2, <4>1, TextEmpty
        <5> QED
          BY <1>2, <2>2, <5>1
      <4>2. CASE m > 0
        <5>1. m \in Nat
          BY <3>2, <4>2
        <5> QED
          BY <3>2, <5>1, TextFacts
      <4> QED
        BY <3>2, <4>1, <4>2
    <3>5. v = front \o back
      BY <2>2 DEF vsnprintf, SizeLeft, k, m
    <3> HIDE DEF front, back, v
    <3>6. v \in Seq(Chars) /\ Len(v) = k + Len(back)
      BY <3>3, <3>4, <3>5, JoinFacts
    <3>7. k + Len(back) < kLogBufSize
      BY <1>1, <1>2, <3>1, <3>4
    <3> QED
      BY <3>6, <3>7
  <2> QED
    BY <2>1, <2>2
<1> HIDE DEF v
<1>4. CASE Chopped(n, c.size)
  BY <1>2, <1>3, <1>4 DEF DoRawLog, Fits, Size, v
<1>5. CASE ~Chopped(n, c.size)
  <2>1. n \in Nat /\ n <= c.size
    BY <1>2, <1>5 DEF Chopped
  <2>2. /\ c.buf + n \in 0..kLogBufSize
        /\ c.size - n = kLogBufSize - (c.buf + n)
    BY <1>1, <1>2, <2>1
  <2> QED
    BY <1>3, <1>5, <2>2 DEF DoRawLog, Fits, Size, v
<1> QED
  BY <1>4, <1>5

(* The sizes of a call's prefix and message. *)
LEMMA CallSizes ==
  ASSUME NEW c \in Calls
  PROVE  c.prefix \in Nat /\ c.message \in Nat \cup {-1}
BY SizesAssumption DEF Calls

(* The text of every call fits into the buffer with its NUL, and the       *)
(* message begins in the buffer.                                           *)
LEMMA LineFits ==
  ASSUME NEW c \in Calls
  PROVE  /\ FormattedLine(c) \in Seq(Chars) /\ Len(FormattedLine(c)) < kLogBufSize
         /\ AfterPrefix(c).buf \in Size /\ Fits(AfterPrefix(c)) /\ Fits(AfterMessage(c))
<1>1. kLogBufSize \in Nat /\ kLogBufSize > 0 /\ NoticeSize \in Nat
  BY SizesAssumption
<1>2. c.prefix \in Nat /\ c.message \in Nat \cup {-1}
  BY CallSizes
<1>3. {"prefix", "message", "notice", "newline"} \subseteq Chars
  BY DEF Chars
<1>4. Fits(Fresh)
  BY <1>1 DEF Fits, Fresh, Size
<1>5. Fits(AfterPrefix(c))
  BY <1>2, <1>3, <1>4, DoRawLogFits DEF AfterPrefix
<1>6. Fits(AfterMessage(c))
  BY <1>2, <1>3, <1>5, DoRawLogFits DEF AfterMessage
<1>7. Fits(AfterEnding(AfterMessage(c)))
  <2>1. Fits(DoRawLog(AfterMessage(c), "newline", 1))
    BY <1>3, <1>6, DoRawLogFits
  <2>2. Fits(DoRawLog(AfterMessage(c), "notice", NoticeSize))
    BY <1>1, <1>3, <1>6, DoRawLogFits
  <2> QED
    BY <2>1, <2>2 DEF AfterEnding
<1> QED
  BY <1>5, <1>6, <1>7 DEF Fits, FormattedLine

(* The prefix, when there is room for a byte behind it. *)
LEMMA PrefixIs ==
  ASSUME NEW c \in Calls, c.prefix < kLogBufSize
  PROVE  /\ AfterPrefix(c).text = Text("prefix", c.prefix)
         /\ AfterPrefix(c).buf = c.prefix /\ AfterPrefix(c).size = kLogBufSize - c.prefix
<1>1. kLogBufSize \in Nat /\ kLogBufSize > 0 /\ c.prefix \in Nat /\ "prefix" \in Chars
  BY SizesAssumption, CallSizes DEF Chars
<1>2. /\ Fresh.text = <<>> /\ Fresh.buf = 0 /\ Fresh.size = kLogBufSize
  BY DEF Fresh
<1>3. ~Chopped(c.prefix, Fresh.size)
  BY <1>1, <1>2 DEF Chopped
<1>4. vsnprintf(Fresh, "prefix", c.prefix) = Text("prefix", c.prefix)
  <2>1. Shorter(Fresh.buf, Len(Fresh.text)) = 0 /\ Shorter(c.prefix, Fresh.size - 1) = c.prefix
    BY <1>1, <1>2 DEF Shorter
  <2>2. vsnprintf(Fresh, "prefix", c.prefix) = SubSeq(Fresh.text, 1, 0) \o Text("prefix", c.prefix)
    BY <1>1, <1>2, <2>1 DEF vsnprintf, SizeLeft
  <2>3. SubSeq(Fresh.text, 1, 0) = <<>>
    BY SubSeqEmpty
  <2>4. Text("prefix", c.prefix) \in Seq(Chars)
    BY <1>1, TextFacts
  <2> QED
    BY <2>2, <2>3, <2>4, ConcatEmptySeq
<1> QED
  BY <1>1, <1>2, <1>3, <1>4 DEF AfterPrefix, DoRawLog

(* vsnprintf at a cursor behind `done`: as much of the text as there is    *)
(* room for, if there is room for a byte.                                  *)
LEMMA vsnprintfBehind ==
  ASSUME NEW done \in Seq(Chars), NEW more \in Seq(Chars), NEW c, c.text = done \o more,
         c.buf = Len(done), c.size \in Nat \ {0}, NEW char, NEW n \in Int
  PROVE  vsnprintf(c, char, n) = done \o Text(char, Shorter(n, c.size - 1))
<1>1. Len(done) \in Nat /\ Len(more) \in Nat /\ Len(done \o more) = Len(done) + Len(more)
  BY JoinFacts
<1>2. Shorter(c.buf, Len(c.text)) = Len(done)
  BY <1>1 DEF Shorter
<1>3. SubSeq(c.text, 1, Len(done)) = done
  BY PartsOfJoin
<1> QED
  BY <1>2, <1>3 DEF vsnprintf, SizeLeft

(* RawLog__ writes the prefix, then the message and a newline or the       *)
(* notice, as much as there is room for.                                   *)
LEMMA LineIs ==
  ASSUME NEW c \in Calls, c.prefix < kLogBufSize
  PROVE  FormattedLine(c) = Text("prefix", c.prefix) \o Rest(c.message, kLogBufSize - c.prefix)
<1> DEFINE P == Text("prefix", c.prefix)
           room == kLogBufSize - c.prefix
           m == c.message
           a == AfterPrefix(c)
           b == AfterMessage(c)
<1>1. /\ kLogBufSize \in Nat /\ c.prefix \in Nat /\ m \in Nat \cup {-1} /\ NoticeSize \in Nat
      /\ room \in Nat \ {0}
      /\ "prefix" \in Chars /\ "message" \in Chars /\ "newline" \in Chars /\ "notice" \in Chars
  BY SizesAssumption, CallSizes DEF Chars
<1>2. P \in Seq(Chars) /\ Len(P) = c.prefix
  BY <1>1, TextFacts
<1>3. a.text = P /\ a.buf = c.prefix /\ a.size = room
  BY PrefixIs
<1>4. a.text = P \o <<>> /\ <<>> \in Seq(Chars)
  BY <1>2, <1>3, ConcatEmptySeq
<1> HIDE DEF P, room, a
<1> DEFINE M == Text("message", Shorter(m, room - 1))
<1>5. vsnprintf(a, "message", m) = P \o M
  <2>1. a.buf = Len(P) /\ a.size \in Nat \ {0} /\ m \in Int
    BY <1>1, <1>2, <1>3
  <2>2. vsnprintf(a, "message", m) = P \o Text("message", Shorter(m, a.size - 1))
    BY <1>2, <1>4, <2>1, vsnprintfBehind
  <2> QED
    BY <1>3, <2>2
<1>6. b.text = P \o M
  BY <1>5 DEF AfterMessage, DoRawLog, a
<1>7. CASE m \in 0..room
  <2>1. b.ok /\ b.buf = c.prefix + m /\ b.size = room - m /\ m \in Nat
    BY <1>1, <1>3, <1>7 DEF AfterMessage, DoRawLog, Chopped, a
  <2> DEFINE whole == Text("message", m) \o Text("newline", 1)
  <2>2. /\ Text("message", m) \in Seq(Chars) /\ Len(Text("message", m)) = m
        /\ Text("newline", 1) \in Seq(Chars) /\ Len(Text("newline", 1)) = 1
    BY <1>1, <2>1, TextFacts
  <2>3. whole \in Seq(Chars) /\ Len(whole) = m + 1
    BY <2>2, JoinFacts
  <2>4. /\ \A k \in 0..m : SubSeq(whole, 1, k) = SubSeq(Text("message", m), 1, k)
        /\ SubSeq(whole, 1, m + 1) = whole
    <3> DEFINE q == Text("message", m)
               r == Text("newline", 1)
    <3>1. q \in Seq(Chars) /\ Len(q) = m /\ r \in Seq(Chars) /\ Len(r) = 1
      BY <2>2
    <3> HIDE DEF q, r
    <3>2. /\ \A k \in 0..Len(q) : SubSeq(q \o r, 1, k) = SubSeq(q, 1, k)
          /\ SubSeq(q \o r, 1, Len(q) + Len(r)) = q \o r
      BY <3>1, PartsOfJoin
    <3>3. /\ \A k \in 0..m : SubSeq(q \o r, 1, k) = SubSeq(q, 1, k)
          /\ SubSeq(q \o r, 1, m + 1) = q \o r
      BY <3>1, <3>2, Zenon
    <3> QED
      BY <3>3 DEF q, r
  <2>5. FormattedLine(c) = vsnprintf(b, "newline", 1)
    BY <2>1 DEF FormattedLine, AfterEnding, DoRawLog
  <2>6. Rest(m, room) = SubSeq(whole, 1, Shorter(m + 1, room - 1))
    BY <1>7, <2>3 DEF Rest
  <2> HIDE DEF b, whole
  <2>7. CASE m = room
    <3>1. b.size = 0 /\ Shorter(m, room - 1) = room - 1 /\ Shorter(m + 1, room - 1) = room - 1
      BY <1>1, <2>1, <2>7 DEF Shorter
    <3>2. vsnprintf(b, "newline", 1) = P \o M
      BY <1>6, <3>1 DEF vsnprintf, SizeLeft
    <3>3. room - 1 \in 0..m
      BY <1>1, <2>7
    <3>4. SubSeq(whole, 1, room - 1) = Text("message", room - 1)
      BY <1>1, <2>1, <2>4, <3>3, BeginningOfText
    <3> QED
      BY <2>5, <2>6, <3>1, <3>2, <3>4 DEF P, room
  <2>8. CASE m # room
    <3> DEFINE size == room - m
    <3>1. size \in Nat \ {0} /\ b.size = size /\ Shorter(m, room - 1) = m
      BY <1>1, <1>7, <2>1, <2>8 DEF Shorter
    <3>2. M = Text("message", m)
      BY <3>1
    <3> DEFINE done == P \o Text("message", m)
    <3>3. done \in Seq(Chars) /\ Len(done) = c.prefix + m
      <4> DEFINE q == Text("message", m)
      <4>1. q \in Seq(Chars) /\ Len(q) = m
        BY <2>2
      <4> HIDE DEF q
      <4>2. P \o q \in Seq(Chars) /\ Len(P \o q) = c.prefix + m
        BY <1>2, <4>1, JoinFacts
      <4> QED
        BY <4>2 DEF q
    <3> HIDE DEF M, done
    <3>4. b.text = done \o <<>> /\ b.buf = Len(done)
      BY <1>6, <2>1, <3>2, <3>3, ConcatEmptySeq DEF done
    <3> HIDE DEF size
    <3>5. vsnprintf(b, "newline", 1) = done \o Text("newline", Shorter(1, size - 1))
      <4>1. b.size \in Nat \ {0} /\ 1 \in Int
        BY <3>1
      <4>2. vsnprintf(b, "newline", 1) = done \o Text("newline", Shorter(1, b.size - 1))
        BY <1>4, <3>3, <3>4, <4>1, vsnprintfBehind
      <4> QED
        BY <3>1, <4>2
    <3>6. CASE size = 1
      <4>1. Text("newline", Shorter(1, size - 1)) = <<>>
        BY <3>6, TextEmpty DEF Shorter
      <4>2. Shorter(m + 1, room - 1) = m /\ m \in 0..m
        BY <1>1, <2>1, <3>6 DEF Shorter, size
      <4>3. Rest(m, room) = Text("message", m)
        BY <1>1, <2>1, <2>4, <2>6, <4>2, BeginningOfText
      <4>4. vsnprintf(b, "newline", 1) = done
        BY <3>3, <3>5, <4>1, ConcatEmptySeq
      <4> QED
        BY <2>5, <4>3, <4>4 DEF P, room, done
    <3>7. CASE size # 1
      <4>1. Shorter(1, size - 1) = 1
        BY <3>1, <3>7 DEF Shorter
      <4>2. Shorter(m + 1, room - 1) = m + 1
        BY <1>1, <2>1, <3>1, <3>7 DEF Shorter, size
      <4>3. Rest(m, room) = Text("message", m) \o Text("newline", 1)
        BY <2>4, <2>6, <4>2 DEF whole
      <4>4. vsnprintf(b, "newline", 1) = done \o Text("newline", 1)
        BY <3>5, <4>1
      <4>5. done \o Text("newline", 1) = P \o (Text("message", m) \o Text("newline", 1))
        BY <1>2, <2>2, ConcatAssociative DEF done
      <4> QED
        BY <2>5, <4>3, <4>4, <4>5 DEF P, room
    <3> QED
      BY <3>6, <3>7
  <2> QED
    BY <2>7, <2>8
<1>8. CASE m \notin 0..room
  <2>1. ~b.ok /\ b.buf = c.prefix /\ b.size = room
    BY <1>1, <1>3, <1>8 DEF AfterMessage, DoRawLog, Chopped, a
  <2>2. M \in Seq(Chars)
    <3>1. Shorter(m, room - 1) \in Nat \/ Shorter(m, room - 1) = -1
      BY <1>1 DEF Shorter
    <3> QED
      BY <1>1, <3>1, TextFacts, TextEmpty
  <2>3. FormattedLine(c) = vsnprintf(b, "notice", NoticeSize)
    BY <2>1 DEF FormattedLine, AfterEnding, DoRawLog
  <2> HIDE DEF b, M
  <2>4. vsnprintf(b, "notice", NoticeSize) = P \o Text("notice", Shorter(NoticeSize, room - 1))
    <3>1. b.buf = Len(P) /\ b.size \in Nat \ {0} /\ NoticeSize \in Int
      BY <1>1, <1>2, <2>1
    <3>2. vsnprintf(b, "notice", NoticeSize)
            = P \o Text("notice", Shorter(NoticeSize, b.size - 1))
      BY <1>2, <1>6, <2>2, <3>1, vsnprintfBehind
    <3> QED
      BY <2>1, <3>2
  <2>5. Shorter(NoticeSize, room - 1) \in 0..NoticeSize
    BY <1>1 DEF Shorter
  <2>6. Len(Text("notice", NoticeSize)) = NoticeSize
    BY <1>1, TextFacts
  <2>7. Rest(m, room) = Text("notice", Shorter(NoticeSize, room - 1))
    BY <1>1, <1>8, <2>5, <2>6, BeginningOfText DEF Rest
  <2> QED
    BY <2>3, <2>4, <2>7 DEF P, room
<1> QED
  BY <1>7, <1>8

(* What is behind the prefix is a text. *)
LEMMA RestTyped ==
  ASSUME NEW c \in Calls, c.prefix < kLogBufSize
  PROVE  Rest(c.message, kLogBufSize - c.prefix) \in Seq(Chars)
<1> DEFINE room == kLogBufSize - c.prefix
           m == c.message
           whole == IF m \in 0..room THEN Text("message", m) \o Text("newline", 1)
                    ELSE Text("notice", NoticeSize)
           last == Shorter(Len(whole), room - 1)
<1>1. /\ room \in Nat \ {0} /\ m \in Nat \cup {-1} /\ NoticeSize \in Nat
      /\ "message" \in Chars /\ "newline" \in Chars /\ "notice" \in Chars
  BY SizesAssumption, CallSizes DEF Chars
<1> HIDE DEF room
<1>2. whole \in Seq(Chars)
  <2>1. CASE m \in 0..room
    BY <1>1, <2>1, TextFacts, JoinFacts
  <2>2. CASE m \notin 0..room
    BY <1>1, <2>2, TextFacts
  <2> QED
    BY <2>1, <2>2
<1>3. Rest(m, room) = SubSeq(whole, 1, last)
  BY DEF Rest
<1> HIDE DEF whole
<1>4. last \in 0..Len(whole)
  BY <1>1, <1>2 DEF Shorter
<1> QED
  BY <1>2, <1>3, <1>4, BeginningFacts DEF room

(* The text of a call without what is before its message. *)
LEMMA MessageIs ==
  ASSUME NEW c \in Calls
  PROVE  LET text == FormattedLine(c)
             start == AfterPrefix(c).buf
         IN /\ SubSeq(text, start + 1, Len(text)) \in Seq(Chars)
            /\ Len(SubSeq(text, start + 1, Len(text))) < kLogBufSize
            /\ c.prefix < kLogBufSize =>
                 text = Text("prefix", c.prefix) \o SubSeq(text, start + 1, Len(text))
<1> DEFINE text == FormattedLine(c)
           start == AfterPrefix(c).buf
<1>1. /\ text \in Seq(Chars) /\ Len(text) \in Nat /\ Len(text) < kLogBufSize
      /\ start \in Nat /\ kLogBufSize \in Nat
  BY LineFits, SizesAssumption DEF Size
<1> HIDE DEF text, start
<1> DEFINE from == start + 1
           len == Len(text)
           tail == SubSeq(text, from, len)
<1>2. tail \in Seq(Chars) /\ Len(tail) < kLogBufSize
  <2>1. from \in Int /\ len \in Int /\ \A i \in from..len : text[i] \in Chars
    BY <1>1
  <2>2. tail \in Seq(Chars) /\ Len(tail) = IF from <= len THEN len - from + 1 ELSE 0
    BY <2>1, SubSeqProperties
  <2> HIDE DEF tail
  <2> QED
    BY <1>1, <2>2
<1>3. ASSUME c.prefix < kLogBufSize
      PROVE  text = Text("prefix", c.prefix) \o tail
  <2> DEFINE q == Text("prefix", c.prefix)
             r == Rest(c.message, kLogBufSize - c.prefix)
  <2>1. q \in Seq(Chars) /\ Len(q) = c.prefix /\ c.prefix \in Nat
    BY CallSizes, TextFacts DEF Chars
  <2>2. r \in Seq(Chars)
    BY <1>3, RestTyped
  <2>3. text = q \o r /\ start = c.prefix
    BY <1>3, LineIs, PrefixIs DEF text, start
  <2> HIDE DEF q, r
  <2>4. len = Len(q) + Len(r)
    BY <2>1, <2>2, <2>3, JoinFacts
  <2>5. SubSeq(q \o r, Len(q) + 1, Len(q) + Len(r)) = r
    BY <2>1, <2>2, PartsOfJoin
  <2>6. tail = r
    BY <2>1, <2>3, <2>4, <2>5
  <2> QED
    BY <2>3, <2>6 DEF q
<1> QED
  BY <1>2, <1>3 DEF text, start

-----------------------------------------------------------------------------
(* The threads *)

\* Where the first thread to crash fills crash_reason in, and what it has.
Filling == Fields \cup {"publish"}

FilledAt(label) == CASE label = "line_number" -> {"filename"}
                     [] label = "message" -> {"filename", "line_number"}
                     [] label = "stack" -> Fields \ {"stack"}
                     [] label = "publish" -> Fields
                     [] OTHER -> {}

\* A line of stderr is that of a call.
LineSound(line) == line.call \in Calls /\ line.text = FormattedLine(line.call)

VariablesTyped ==
  /\ flags \in Flags
  /\ pc \in [Threads -> Pcs]
  /\ call \in [Threads -> Calls \cup {NULL}]
  /\ count \in [Threads -> 0..MaxCalls]
  /\ buffer \in [Threads -> Seq(Chars)]
  /\ msg_start \in [Threads -> Size]
  /\ stderr \in Seq([call : Calls, text : Seq(Chars)])
  /\ crashed \in BOOLEAN
  /\ crash_reason \in [Fields -> (Threads \X Nat) \cup {NULL}]
  /\ crash_buf \in Seq(Chars) /\ Len(crash_buf) < kLogBufSize
  /\ g_reason \in {NULL, "crash_reason"}
  /\ aborted \in BOOLEAN

\* A thread's buffer holds its call's text, which a crash has written.
ThreadInv(t) ==
  /\ Len(buffer[t]) < kLogBufSize
  /\ pc[t] # "idle" => /\ call[t] \in Calls /\ buffer[t] = FormattedLine(call[t])
                       /\ msg_start[t] = AfterPrefix(call[t]).buf
  /\ pc[t] \notin {"idle", "write"} =>
       /\ call[t].severity = GOOGLELOG_FATAL
       /\ \E n \in DOMAIN stderr : stderr[n].call = call[t]
  /\ pc[t] \in Filling =>
       /\ crashed
       /\ \A f \in FilledAt(pc[t]) : crash_reason[f] = call[t].id
       /\ pc[t] \in {"stack", "publish"} =>
            crash_buf = SubSeq(buffer[t], msg_start[t] + 1, Len(buffer[t]))

OneFills ==
  /\ \A t, u \in Threads : pc[t] \in Filling /\ pc[u] \in Filling => t = u
  /\ g_reason # NULL => crashed /\ \A t \in Threads : pc[t] \notin Filling

IInv == /\ VariablesTyped
        /\ \A n \in DOMAIN stderr : LineSound(stderr[n])
        /\ \A t \in Threads : ThreadInv(t)
        /\ OneFills
        /\ CrashReasonWhole

\* Lines are only added.
StderrGrows == \A n \in DOMAIN stderr : n \in DOMAIN stderr' /\ stderr'[n] = stderr[n]

(* A thread that does not move: what is known of it stays true when lines  *)
(* are added and, while it fills crash_reason in, nobody else does.        *)
LEMMA ThreadKept ==
  ASSUME NEW t \in Threads, ThreadInv(t), StderrGrows, crashed => crashed',
         pc'[t] = pc[t], call'[t] = call[t], buffer'[t] = buffer[t],
         msg_start'[t] = msg_start[t],
         pc[t] \in Filling => UNCHANGED <<crash_reason, crash_buf>>
  PROVE  ThreadInv(t)'
BY DEF ThreadInv, StderrGrows

(* A published reason stays whole when lines are added.                    *)
LEMMA WholeKept ==
  ASSUME CrashReasonWhole, StderrGrows, g_reason' = g_reason,
         g_reason # NULL => UNCHANGED <<crash_reason, crash_buf>>
  PROVE  CrashReasonWhole'
<1> SUFFICES ASSUME g_reason # NULL
             PROVE  \E n \in DOMAIN stderr' :
                      /\ stderr'[n].call.severity = GOOGLELOG_FATAL
                      /\ crash_reason' = [f \in Fields |-> stderr'[n].call.id]
                      /\ stderr'[n].call.prefix < kLogBufSize =>
                           stderr'[n].text = Text("prefix", stderr'[n].call.prefix) \o crash_buf'
  BY DEF CrashReasonWhole
<1>1. PICK n \in DOMAIN stderr :
        /\ stderr[n].call.severity = GOOGLELOG_FATAL
        /\ crash_reason = [f \in Fields |-> stderr[n].call.id]
        /\ stderr[n].call.prefix < kLogBufSize =>
             stderr[n].text = Text("prefix", stderr[n].call.prefix) \o crash_buf
  BY DEF CrashReasonWhole
<1> QED
  BY <1>1 DEF StderrGrows

(* A thread formats a line, or its message is suppressed. *)
LEMMA RawLogSound ==
  ASSUME IInv, NEW t \in Threads, NEW s \in Severities, NEW p \in PrefixSizes,
         NEW m \in MessageSizes, RawLog(t, s, p, m)
  PROVE  IInv'
<1> DEFINE c == [id |-> <<t, count[t]>>, severity |-> s, prefix |-> p, message |-> m]
<1>1. /\ VariablesTyped /\ OneFills /\ CrashReasonWhole
      /\ \A n \in DOMAIN stderr : LineSound(stderr[n])
      /\ \A u \in Threads : ThreadInv(u)
  BY DEF IInv
<1>2. /\ UNCHANGED <<flags, stderr, crashed, crash_reason, crash_buf, g_reason, aborted>>
      /\ count' = [count EXCEPT ![t] = @ + 1] /\ count[t] < MaxCalls /\ pc[t] = "idle"
  BY DEF RawLog
<1>3. count' \in [Threads -> 0..MaxCalls] /\ count[t] \in Nat
  BY <1>1, <1>2, RawCallsAssumption DEF VariablesTyped
<1>4. c \in Calls
  BY <1>3 DEF Calls
<1>5. StderrGrows
  BY <1>2 DEF StderrGrows
<1>6. CrashReasonWhole' /\ \A n \in DOMAIN stderr' : LineSound(stderr'[n])
  BY <1>1, <1>2, <1>5, WholeKept
<1>7. CASE UNCHANGED <<pc, call, buffer, msg_start>>
  <2>1. VariablesTyped'
    BY <1>1, <1>2, <1>3, <1>7 DEF VariablesTyped
  <2>2. \A u \in Threads : ThreadInv(u)'
    BY <1>1, <1>2, <1>5, <1>7, ThreadKept
  <2>3. OneFills'
    BY <1>1, <1>2, <1>7 DEF OneFills
  <2> QED
    BY <1>6, <2>1, <2>2, <2>3 DEF IInv, LineSound
<1>8. CASE ~UNCHANGED <<pc, call, buffer, msg_start>>
  <2>1. /\ pc' = [pc EXCEPT ![t] = "write"] /\ call' = [call EXCEPT ![t] = c]
        /\ buffer' = [buffer EXCEPT ![t] = FormattedLine(c)]
        /\ msg_start' = [msg_start EXCEPT ![t] = AfterPrefix(c).buf]
    BY <1>8 DEF RawLog, FormattedLine
  <2> HIDE DEF c
  <2>2. /\ FormattedLine(c) \in Seq(Chars) /\ Len(FormattedLine(c)) < kLogBufSize
        /\ AfterPrefix(c).buf \in Size
    BY <1>4, LineFits
  <2>3. /\ pc'[t] = "write" /\ call'[t] = c /\ buffer'[t] = FormattedLine(c)
        /\ msg_start'[t] = AfterPrefix(c).buf
        /\ \A u \in Threads : u # t => /\ pc'[u] = pc[u] /\ call'[u] = call[u]
                                       /\ buffer'[u] = buffer[u] /\ msg_start'[u] = msg_start[u]
    BY <1>1, <2>1 DEF VariablesTyped
  <2>4. VariablesTyped'
    <3>1. pc' \in [Threads -> Pcs] /\ call' \in [Threads -> Calls \cup {NULL}]
      BY <1>1, <1>4, <2>1 DEF VariablesTyped, Pcs
    <3>2. buffer' \in [Threads -> Seq(Chars)] /\ msg_start' \in [Threads -> Size]
      BY <1>1, <2>1, <2>2 DEF VariablesTyped
    <3> QED
      BY <1>1, <1>2, <1>3, <3>1, <3>2 DEF VariablesTyped
  <2>5. ASSUME NEW u \in Threads PROVE ThreadInv(u)'
    <3>1. CASE u = t
      BY <1>4, <2>2, <2>3, <3>1 DEF ThreadInv, Filling, Fields
    <3>2. CASE u # t
      BY <1>1, <1>2, <1>5, <2>3, <3>2, ThreadKept
    <3> QED
      BY <3>1, <3>2
  <2>6. OneFills'
    BY <1>1, <1>2, <2>3 DEF OneFills, Filling, Fields
  <2> QED
    BY <1>6, <2>4, <2>5, <2>6 DEF IInv, LineSound
<1> QED
  BY <1>7, <1>8

(* A thread writes its line; only a FATAL one goes on. *)
LEMMA WriteSound ==
  ASSUME IInv, NEW t \in Threads, safe_write(t)
  PROVE  IInv'
<1> DEFINE line == [call |-> call[t], text |-> buffer[t]]
<1>1. /\ VariablesTyped /\ OneFills /\ CrashReasonWhole
      /\ \A n \in DOMAIN stderr : LineSound(stderr[n])
      /\ \A u \in Threads : ThreadInv(u)
  BY DEF IInv
<1>2. /\ UNCHANGED <<flags, count, crashed, crash_reason, crash_buf, g_reason, aborted>>
      /\ stderr' = Append(stderr, line) /\ pc[t] = "write"
  BY DEF safe_write
<1>3. call[t] \in Calls /\ buffer[t] = FormattedLine(call[t]) /\ buffer[t] \in Seq(Chars)
  BY <1>1, <1>2 DEF ThreadInv, VariablesTyped
<1>4. line \in [call : Calls, text : Seq(Chars)] /\ LineSound(line) /\ line.call = call[t]
  BY <1>3 DEF LineSound
<1> HIDE DEF line
<1> DEFINE L == [call : Calls, text : Seq(Chars)]
<1>5. stderr \in Seq(L) /\ line \in L
  BY <1>1, <1>4 DEF VariablesTyped
<1> HIDE DEF L
<1>6. /\ stderr' \in Seq(L) /\ Len(stderr') = Len(stderr) + 1 /\ Len(stderr) \in Nat
      /\ stderr'[Len(stderr) + 1] = line
      /\ \A n \in 1..Len(stderr) : stderr'[n] = stderr[n]
      /\ DOMAIN stderr = 1..Len(stderr) /\ DOMAIN stderr' = 1..(Len(stderr) + 1)
  BY <1>2, <1>5, AppendProperties
<1>7. StderrGrows
  BY <1>6 DEF StderrGrows
<1>8. ASSUME NEW n \in DOMAIN stderr' PROVE LineSound(stderr'[n])
  <2>1. CASE n = Len(stderr) + 1
    BY <1>4, <1>6, <2>1
  <2>2. CASE n \in DOMAIN stderr
    BY <1>1, <1>6, <2>2
  <2> QED
    BY <1>6, <2>1, <2>2
<1>9. CrashReasonWhole'
  BY <1>1, <1>2, <1>7, WholeKept
<1>10. CASE call[t].severity = GOOGLELOG_FATAL
  <2>1. pc' = [pc EXCEPT ![t] = "swap"] /\ UNCHANGED <<call, buffer, msg_start>>
    BY <1>10 DEF safe_write
  <2>2. pc'[t] = "swap" /\ \A u \in Threads : u # t => pc'[u] = pc[u]
    BY <1>1, <2>1 DEF VariablesTyped
  <2>3. VariablesTyped'
    BY <1>1, <1>2, <1>6, <2>1 DEF VariablesTyped, Pcs, L
  <2>4. ASSUME NEW u \in Threads PROVE ThreadInv(u)'
    <3>1. CASE u = t
      <4>1. \E n \in DOMAIN stderr' : stderr'[n].call = call'[t]
        BY <1>4, <1>6, <2>1
      <4> QED
        BY <1>1, <1>2, <1>10, <2>1, <2>2, <3>1, <4>1 DEF ThreadInv, Filling, Fields
    <3>2. CASE u # t
      BY <1>1, <1>2, <1>7, <2>1, <2>2, <3>2, ThreadKept
    <3> QED
      BY <3>1, <3>2
  <2>5. OneFills'
    BY <1>1, <1>2, <2>2 DEF OneFills, Filling, Fields
  <2> QED
    BY <1>8, <1>9, <2>3, <2>4, <2>5 DEF IInv, LineSound
<1>11. CASE call[t].severity # GOOGLELOG_FATAL
  <2>1. /\ pc' = [pc EXCEPT ![t] = "idle"] /\ call' = [call EXCEPT ![t] = NULL]
        /\ buffer' = [buffer EXCEPT ![t] = <<>>] /\ msg_start' = [msg_start EXCEPT ![t] = 0]
    BY <1>11 DEF safe_write, Done
  <2>2. /\ pc'[t] = "idle" /\ buffer'[t] = <<>>
        /\ \A u \in Threads : u # t => /\ pc'[u] = pc[u] /\ call'[u] = call[u]
                                       /\ buffer'[u] = buffer[u] /\ msg_start'[u] = msg_start[u]
    BY <1>1, <2>1 DEF VariablesTyped
  <2>3. VariablesTyped'
    <3>1. pc' \in [Threads -> Pcs] /\ call' \in [Threads -> Calls \cup {NULL}]
      BY <1>1, <2>1 DEF VariablesTyped, Pcs
    <3>2. buffer' \in [Threads -> Seq(Chars)] /\ msg_start' \in [Threads -> Size]
      BY <1>1, <2>1, SizesAssumption DEF VariablesTyped, Size
    <3> QED
      BY <1>1, <1>2, <1>6, <3>1, <3>2 DEF VariablesTyped, L
  <2>4. ASSUME NEW u \in Threads PROVE ThreadInv(u)'
    <3>1. CASE u = t
      BY <2>2, <3>1, SizesAssumption DEF ThreadInv, Filling, Fields
    <3>2. CASE u # t
      BY <1>1, <1>2, <1>7, <2>2, <3>2, ThreadKept
    <3> QED
      BY <3>1, <3>2
  <2>5. OneFills'
    BY <1>1, <1>2, <2>2 DEF OneFills, Filling, Fields
  <2> QED
    BY <1>8, <1>9, <2>3, <2>4, <2>5 DEF IInv, LineSound
<1> QED
  BY <1>10, <1>11

(* A thread that crashes goes from one label to the next.                  *)
LEMMA CrashMoves ==
  ASSUME IInv, NEW t \in Threads, NEW to \in Pcs, pc[t] \notin {"idle", "write"},
         pc' = [pc EXCEPT ![t] = to], to \notin {"idle", "write"},
         UNCHANGED <<flags, call, count, buffer, msg_start, stderr>>,
         crashed' \in BOOLEAN, crashed => crashed', aborted' \in BOOLEAN,
         crash_reason' \in [Fields -> (Threads \X Nat) \cup {NULL}],
         crash_buf' \in Seq(Chars), Len(crash_buf') < kLogBufSize,
         g_reason' \in {NULL, "crash_reason"},
         \A u \in Threads : u # t /\ pc[u] \in Filling => UNCHANGED <<crash_reason, crash_buf>>,
         to \in Filling =>
           /\ crashed'
           /\ \A f \in FilledAt(to) : crash_reason'[f] = call[t].id
           /\ to \in {"stack", "publish"} =>
                crash_buf' = SubSeq(buffer[t], msg_start[t] + 1, Len(buffer[t]))
  PROVE  /\ VariablesTyped' /\ StderrGrows
         /\ \A n \in DOMAIN stderr' : LineSound(stderr'[n])
         /\ \A u \in Threads : ThreadInv(u)'
         /\ pc'[t] = to /\ \A u \in Threads : u # t => pc'[u] = pc[u]
<1>1. /\ VariablesTyped /\ \A n \in DOMAIN stderr : LineSound(stderr[n])
      /\ \A u \in Threads : ThreadInv(u)
  BY DEF IInv
<1>2. pc'[t] = to /\ \A u \in Threads : u # t => pc'[u] = pc[u]
  BY <1>1 DEF VariablesTyped
<1>3. VariablesTyped'
  BY <1>1 DEF VariablesTyped
<1>4. StderrGrows
  BY DEF StderrGrows
<1>5. ASSUME NEW u \in Threads PROVE ThreadInv(u)'
  <2>1. CASE u = t
    <3>1. /\ Len(buffer[t]) < kLogBufSize /\ call[t] \in Calls
          /\ buffer[t] = FormattedLine(call[t])
          /\ msg_start[t] = AfterPrefix(call[t]).buf
          /\ call[t].severity = GOOGLELOG_FATAL
          /\ \E n \in DOMAIN stderr : stderr[n].call = call[t]
      BY <1>1 DEF ThreadInv
    <3> QED
      BY <1>2, <2>1, <3>1 DEF ThreadInv
  <2>2. CASE u # t
    BY <1>1, <1>2, <1>4, <2>2, ThreadKept
  <2> QED
    BY <2>1, <2>2
<1> QED
  BY <1>1, <1>2, <1>3, <1>4, <1>5

(* The compare-and-swap: one thread fills crash_reason in.                 *)
LEMMA SwapSound ==
  ASSUME IInv, NEW t \in Threads, SwapCrashed(t)
  PROVE  IInv'
<1>1. /\ VariablesTyped /\ OneFills /\ CrashReasonWhole /\ \A u \in Threads : ThreadInv(u)
  BY DEF IInv
<1>2. /\ UNCHANGED <<flags, call, count, buffer, msg_start, stderr, crash_reason, crash_buf,
                     g_reason, aborted>>
      /\ crashed' = TRUE /\ pc[t] = "swap"
      /\ pc' = [pc EXCEPT ![t] = IF FirstCrash THEN "filename" ELSE "fail"]
  BY DEF SwapCrashed, Step
<1>3. CASE FirstCrash
  <2>1. \A u \in Threads : pc[u] \notin Filling
    BY <1>1, <1>3 DEF FirstCrash, ThreadInv
  <2>2. FilledAt("filename") = {} /\ "filename" \in Pcs /\ "filename" \in Filling
    BY DEF FilledAt, Pcs, Fields, Filling
  <2>3. /\ VariablesTyped' /\ StderrGrows
        /\ \A n \in DOMAIN stderr' : LineSound(stderr'[n])
        /\ \A u \in Threads : ThreadInv(u)'
        /\ pc'[t] = "filename" /\ \A u \in Threads : u # t => pc'[u] = pc[u]
    BY <1>1, <1>2, <1>3, <2>1, <2>2, CrashMoves DEF VariablesTyped
  <2>4. g_reason = NULL
    BY <1>1, <1>3 DEF OneFills, FirstCrash
  <2>5. OneFills'
    BY <1>2, <2>1, <2>3, <2>4 DEF OneFills
  <2>6. CrashReasonWhole'
    BY <1>1, <1>2, <2>3, WholeKept
  <2> QED
    BY <2>3, <2>5, <2>6 DEF IInv, LineSound
<1>4. CASE ~FirstCrash
  <2>1. "fail" \in Pcs /\ "fail" \notin Filling
    BY DEF Pcs, Fields, Filling
  <2>2. /\ VariablesTyped' /\ StderrGrows
        /\ \A n \in DOMAIN stderr' : LineSound(stderr'[n])
        /\ \A u \in Threads : ThreadInv(u)'
        /\ pc'[t] = "fail" /\ \A u \in Threads : u # t => pc'[u] = pc[u]
    BY <1>1, <1>2, <1>4, <2>1, CrashMoves DEF VariablesTyped
  <2>3. OneFills'
    BY <1>1, <1>2, <2>1, <2>2 DEF OneFills
  <2>4. CrashReasonWhole'
    BY <1>1, <1>2, <2>2, WholeKept
  <2> QED
    BY <2>2, <2>3, <2>4 DEF IInv, LineSound
<1> QED
  BY <1>3, <1>4

(* A field of crash_reason is filled in.                                   *)
LEMMA FillSound ==
  ASSUME IInv, NEW t \in Threads,
         FillFile(t) \/ FillLine(t) \/ FillMessage(t) \/ FillStack(t)
  PROVE  IInv'
<1> DEFINE message == SubSeq(buffer[t], msg_start[t] + 1, Len(buffer[t]))
<1>1. /\ VariablesTyped /\ OneFills /\ CrashReasonWhole /\ \A u \in Threads : ThreadInv(u)
  BY DEF IInv
<1>2. PICK field \in Fields, to \in Filling :
        /\ pc[t] = field /\ pc' = [pc EXCEPT ![t] = to]
        /\ crash_reason' = [crash_reason EXCEPT ![field] = call[t].id]
        /\ UNCHANGED <<flags, call, count, buffer, msg_start, stderr, crashed, g_reason, aborted>>
        /\ FilledAt(to) = FilledAt(field) \cup {field}
        /\ to = "stack" => crash_buf' = message
        /\ to # "stack" => UNCHANGED crash_buf
        /\ to = "publish" => field = "stack"
  <2>1. CASE FillFile(t)
    BY <2>1 DEF FillFile, Fill, Step, Fields, Filling, FilledAt
  <2>2. CASE FillLine(t)
    BY <2>2 DEF FillLine, Fill, Step, Fields, Filling, FilledAt
  <2>3. CASE FillMessage(t)
    BY <2>3 DEF FillMessage, Fill, Step, Fields, Filling, FilledAt
  <2>4. CASE FillStack(t)
    BY <2>4 DEF FillStack, Fill, Step, Fields, Filling, FilledAt
  <2> QED
    BY <2>1, <2>2, <2>3, <2>4
<1>3. /\ pc[t] \in Filling /\ pc[t] \notin {"idle", "write"} /\ to \in Pcs
      /\ to \notin {"idle", "write"} /\ FilledAt(field) \subseteq Fields
  BY <1>2 DEF Filling, Fields, Pcs, FilledAt
<1>4. /\ crashed /\ call[t] \in Calls /\ \A f \in FilledAt(field) : crash_reason[f] = call[t].id
      /\ field = "stack" => crash_buf = message
      /\ buffer[t] = FormattedLine(call[t]) /\ msg_start[t] = AfterPrefix(call[t]).buf
  BY <1>1, <1>2, <1>3 DEF ThreadInv
<1>5. message \in Seq(Chars) /\ Len(message) < kLogBufSize
  BY <1>4, MessageIs
<1> HIDE DEF message
<1>6. call[t].id \in Threads \X Nat
  BY <1>4 DEF Calls
<1>7. /\ crash_reason' \in [Fields -> (Threads \X Nat) \cup {NULL}]
      /\ \A f \in FilledAt(to) : crash_reason'[f] = call[t].id
  BY <1>1, <1>2, <1>3, <1>4, <1>6 DEF VariablesTyped
<1>8. /\ crash_buf' \in Seq(Chars) /\ Len(crash_buf') < kLogBufSize
      /\ to \in {"stack", "publish"} => crash_buf' = message
  <2>1. CASE to = "stack"
    BY <1>2, <1>5, <2>1
  <2>2. CASE to # "stack"
    BY <1>1, <1>2, <1>4, <2>2 DEF VariablesTyped
  <2> QED
    BY <2>1, <2>2
<1>9. \A u \in Threads : pc[u] \in Filling => u = t
  BY <1>1, <1>3 DEF OneFills
<1>10. /\ VariablesTyped' /\ StderrGrows
       /\ \A n \in DOMAIN stderr' : LineSound(stderr'[n])
       /\ \A u \in Threads : ThreadInv(u)'
       /\ pc'[t] = to /\ \A u \in Threads : u # t => pc'[u] = pc[u]
  <2>1. UNCHANGED <<flags, call, count, buffer, msg_start, stderr>>
    BY <1>2
  <2>2. crashed' \in BOOLEAN /\ crashed' /\ aborted' \in BOOLEAN
        /\ g_reason' \in {NULL, "crash_reason"}
    BY <1>1, <1>2, <1>4 DEF VariablesTyped
  <2> QED
    BY <1>2, <1>3, <1>7, <1>8, <1>9, <2>1, <2>2, CrashMoves DEF message
<1>11. g_reason = NULL
  BY <1>1, <1>3 DEF OneFills
<1>12. OneFills'
  BY <1>2, <1>9, <1>10, <1>11 DEF OneFills
<1>13. CrashReasonWhole'
  BY <1>1, <1>2, <1>10, <1>11, WholeKept
<1> QED
  BY <1>10, <1>12, <1>13 DEF IInv, LineSound

(* The reason is published when all of it is of one call.                  *)
LEMMA PublishSound ==
  ASSUME IInv, NEW t \in Threads, SetCrashReason(t)
  PROVE  IInv'
<1>1. /\ VariablesTyped /\ OneFills /\ CrashReasonWhole /\ \A u \in Threads : ThreadInv(u)
      /\ \A n \in DOMAIN stderr : LineSound(stderr[n])
  BY DEF IInv
<1>2. /\ UNCHANGED <<flags, call, count, buffer, msg_start, stderr, crashed, crash_reason,
                     crash_buf, aborted>>
      /\ pc[t] = "publish" /\ pc' = [pc EXCEPT ![t] = "fail"]
      /\ g_reason' \in {NULL, "crash_reason"}
  BY <1>1 DEF SetCrashReason, Step, VariablesTyped
<1>3. /\ "publish" \in Filling /\ "fail" \notin Filling /\ "fail" \in Pcs
      /\ FilledAt("publish") = Fields
  BY DEF Filling, Fields, Pcs, FilledAt
<1>4. /\ VariablesTyped' /\ StderrGrows
      /\ \A n \in DOMAIN stderr' : LineSound(stderr'[n])
      /\ \A u \in Threads : ThreadInv(u)'
      /\ pc'[t] = "fail" /\ \A u \in Threads : u # t => pc'[u] = pc[u]
  BY <1>1, <1>2, <1>3, CrashMoves DEF VariablesTyped
<1>5. /\ crashed /\ \A f \in Fields : crash_reason[f] = call[t].id
      /\ crash_buf = SubSeq(buffer[t], msg_start[t] + 1, Len(buffer[t]))
      /\ call[t] \in Calls /\ buffer[t] = FormattedLine(call[t])
      /\ msg_start[t] = AfterPrefix(call[t]).buf /\ call[t].severity = GOOGLELOG_FATAL
      /\ \E n \in DOMAIN stderr : stderr[n].call = call[t]
  BY <1>1, <1>2, <1>3 DEF ThreadInv
<1>6. OneFills'
  BY <1>1, <1>2, <1>3, <1>4, <1>5 DEF OneFills
<1>7. PICK n \in DOMAIN stderr : stderr[n].call = call[t] /\ stderr[n].text = buffer[t]
  BY <1>1, <1>5 DEF LineSound
<1>8. call[t].prefix < kLogBufSize =>
        buffer[t] = Text("prefix", call[t].prefix) \o crash_buf
  BY <1>5, MessageIs
<1>9. crash_reason = [f \in Fields |-> call[t].id]
  BY <1>1, <1>5 DEF VariablesTyped
<1>10. CrashReasonWhole'
  BY <1>2, <1>5, <1>7, <1>8, <1>9 DEF CrashReasonWhole
<1> QED
  BY <1>4, <1>6, <1>10 DEF IInv, LineSound

(* A thread that has crashed aborts.                                       *)
LEMMA FailSound ==
  ASSUME IInv, NEW t \in Threads, Fail(t)
  PROVE  IInv'
<1>1. VariablesTyped /\ OneFills /\ CrashReasonWhole
  BY DEF IInv
<1>2. /\ UNCHANGED <<flags, call, count, buffer, msg_start, stderr, crashed, crash_reason,
                     crash_buf, g_reason>>
      /\ pc[t] = "fail" /\ pc' = [pc EXCEPT ![t] = "failed"] /\ aborted' = TRUE
  BY DEF Fail, Step
<1>3. "failed" \in Pcs /\ "failed" \notin Filling
  BY DEF Pcs, Filling, Fields
<1>4. /\ VariablesTyped' /\ StderrGrows
      /\ \A n \in DOMAIN stderr' : LineSound(stderr'[n])
      /\ \A u \in Threads : ThreadInv(u)'
      /\ pc'[t] = "failed" /\ \A u \in Threads : u # t => pc'[u] = pc[u]
  BY <1>1, <1>2, <1>3, CrashMoves DEF VariablesTyped
<1>5. OneFills'
  BY <1>1, <1>2, <1>3, <1>4 DEF OneFills
<1>6. CrashReasonWhole'
  BY <1>1, <1>2, <1>4, WholeKept
<1> QED
  BY <1>4, <1>5, <1>6 DEF IInv, LineSound

-----------------------------------------------------------------------------
(* The theorems *)

(* In every reachable state each buffer holds the text of its call, at     *)
(* most one thread fills crash_reason in, and what it has filled in is its *)
(* own.                                                                    *)
THEOREM RawLogInductive == Spec => []IInv
<1>1. Init => IInv
  <2> SUFFICES ASSUME Init PROVE IInv
    OBVIOUS
  <2>1. VariablesTyped
    <3>1. kLogBufSize \in Nat /\ kLogBufSize > 0 /\ MaxCalls \in Nat
      BY SizesAssumption, RawCallsAssumption
    <3>2. /\ count \in [Threads -> 0..MaxCalls] /\ msg_start \in [Threads -> Size]
          /\ crash_buf \in Seq(Chars) /\ Len(crash_buf) < kLogBufSize
      BY <3>1 DEF Init, Size
    <3>3. /\ flags \in Flags /\ pc \in [Threads -> Pcs] /\ call \in [Threads -> Calls \cup {NULL}]
          /\ crashed \in BOOLEAN /\ aborted \in BOOLEAN /\ g_reason \in {NULL, "crash_reason"}
      BY DEF Init, Pcs
    <3>4. /\ buffer \in [Threads -> Seq(Chars)]
          /\ stderr \in Seq([call : Calls, text : Seq(Chars)])
          /\ crash_reason \in [Fields -> (Threads \X Nat) \cup {NULL}]
      BY DEF Init
    <3> QED
      BY <3>2, <3>3, <3>4 DEF VariablesTyped
  <2>2. DOMAIN stderr = {}
    BY DEF Init
  <2>3. ASSUME NEW t \in Threads PROVE ThreadInv(t)
    <3>1. buffer[t] = <<>> /\ pc[t] = "idle"
      BY DEF Init
    <3>2. Len(<<>>) < kLogBufSize /\ "idle" \notin Filling
      BY SizesAssumption DEF Filling, Fields
    <3> QED
      BY <3>1, <3>2 DEF ThreadInv
  <2>4. OneFills
    BY DEF Init, OneFills, Filling, Fields
  <2>5. CrashReasonWhole
    BY DEF Init, CrashReasonWhole
  <2> QED
    BY <2>1, <2>2, <2>3, <2>4, <2>5 DEF IInv
<1>2. IInv /\ [Next]_vars => IInv'
  <2> SUFFICES ASSUME IInv, [Next]_vars PROVE IInv'
    OBVIOUS
  <2>1. CASE UNCHANGED vars
    <3>1. UNCHANGED <<flags, pc, call, count, buffer, msg_start, stderr, crashed, crash_reason,
                      crash_buf, g_reason, aborted>>
      BY <2>1 DEF vars
    <3>2. StderrGrows
      BY <3>1 DEF StderrGrows
    <3>3. VariablesTyped' /\ OneFills'
      BY <3>1 DEF IInv, VariablesTyped, OneFills
    <3>4. CrashReasonWhole' /\ \A t \in Threads : ThreadInv(t)'
      BY <3>1, <3>2, WholeKept, ThreadKept DEF IInv
    <3>5. \A n \in DOMAIN stderr' : LineSound(stderr'[n])
      BY <3>1 DEF IInv
    <3> QED
      BY <3>3, <3>4, <3>5 DEF IInv, LineSound
  <2>2. ASSUME NEW t \in Threads, NEW s \in Severities, NEW p \in PrefixSizes,
               NEW m \in MessageSizes, RawLog(t, s, p, m)
        PROVE  IInv'
    BY <2>2, RawLogSound
  <2>3. ASSUME NEW t \in Threads, safe_write(t) PROVE IInv'
    BY <2>3, WriteSound
  <2>4. ASSUME NEW t \in Threads, CrashStep(t) PROVE IInv'
    BY <2>4, SwapSound, FillSound, PublishSound, FailSound DEF CrashStep
  <2> QED
    BY <2>1, <2>2, <2>3, <2>4 DEF Next
<1> QED
  BY <1>1, <1>2, PTL DEF Spec

(* Every line on stderr is whole, whatever the sizes, and no text outgrows *)
(* the buffer it is formatted or copied into.                              *)
THEOREM LinesHold == Spec => []LinesInv
<1>1. IInv => LinesInv
  <2> SUFFICES ASSUME IInv PROVE LinesInv
    OBVIOUS
  <2>1. /\ VariablesTyped /\ \A t \in Threads : ThreadInv(t)
        /\ \A n \in DOMAIN stderr : LineSound(stderr[n])
    BY DEF IInv
  <2>2. TypeOK
    BY <2>1 DEF TypeOK, VariablesTyped, ThreadInv, Size
  <2>3. LinesWhole
    BY <2>1, LineIs DEF LinesWhole, LineSound
  <2> QED
    BY <2>2, <2>3 DEF LinesInv
<1> QED
  BY <1>1, RawLogInductive, PTL

(* A published reason of a crash is whole, and is that of a FATAL line on  *)
(* stderr.                                                                 *)
THEOREM CrashReasonHolds == Spec => []CrashReasonWhole
<1>1. IInv => CrashReasonWhole
  BY DEF IInv
<1> QED
  BY <1>1, RawLogInductive, PTL

=============================================================================
