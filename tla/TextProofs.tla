----------------------------- MODULE TextProofs -----------------------------
(***************************************************************************)
(* Proofs about the pure functions of MCText, for every size: the six      *)
(* versions of GetStackTrace, a line of the stack dump, and the convention *)
(* between the functions of the demangler; the module pattern and flag     *)
(* texts of VLOG are in VLogProofs. The lemmas that both need come first.  *)
(***************************************************************************)
EXTENDS MCDemangle, MCStackDump, SequenceTheorems,
        FiniteSetTheorems, WellFoundedInduction, TLAPS

(* Induction, for a set of numbers in place of a predicate. *)
LEMMA NatSetInduction ==
  ASSUME NEW S, 0 \in S, \A n \in Nat : n \in S => n + 1 \in S
  PROVE  Nat \subseteq S
<1> SUFFICES ASSUME Nat \ S # {} PROVE FALSE
  OBVIOUS
<1> DEFINE T == Nat \ S
           R == OpToRel(<, Nat)
<1>1. \E x \in T : \A y \in T : ~(<<y, x>> \in R)
  <2>1. T \subseteq Nat /\ T # {}
    OBVIOUS
  <2>2. IsWellFoundedOn(R, Nat)
    BY NatLessThanWellFounded
  <2> HIDE DEF T, R
  <2> QED BY <2>1, <2>2, WFMin
<1>2. \A x, y \in Nat : y < x => <<y, x>> \in R
  BY DEF OpToRel
<1> HIDE DEF R
<1>3. PICK x \in T : \A y \in T : ~(<<y, x>> \in R)
  BY <1>1
<1>4. x - 1 \in Nat /\ x - 1 < x
  BY <1>3
<1>5. x - 1 \in S
  BY <1>2, <1>3, <1>4
<1> QED BY <1>3, <1>4, <1>5

(* Induction downwards from n. *)
LEMMA DownInduction ==
  ASSUME NEW n \in Nat, NEW S, n \in S,
         \A i \in 0..(n - 1) : i + 1 \in S => i \in S
  PROVE  0..n \subseteq S
<1> DEFINE T == {k \in Nat : k <= n => n - k \in S}
<1>1. 0 \in T
  OBVIOUS
<1>2. \A k \in Nat : k \in T => k + 1 \in T
  <2> SUFFICES ASSUME NEW k \in Nat, k \in T, k + 1 <= n PROVE n - (k + 1) \in S
    OBVIOUS
  <2>1. n - k \in S
    OBVIOUS
  <2>2. n - (k + 1) \in 0..(n - 1) /\ (n - (k + 1)) + 1 = n - k
    OBVIOUS
  <2> QED BY <2>1, <2>2
<1>3. Nat \subseteq T
  <2> HIDE DEF T
  <2> QED BY <1>1, <1>2, NatSetInduction
<1>4. ASSUME NEW i \in 0..n PROVE i \in S
  <2>1. n - i \in T /\ n - i <= n /\ n - (n - i) = i
    BY <1>3
  <2> QED BY <2>1
<1> QED BY <1>4

(* A recursive definition over 0..n: step[i][f] is the value at i when f   *)
(* has the others. Looking ahead, it reads later ones only.                *)
StepsInto(n, A, step) == \A i \in 0..n : \A f \in [0..n -> A] : step[i][f] \in A

LooksAhead(n, A, step) ==
  \A i \in 0..n : \A f, g \in [0..n -> A] :
    (\A j \in (i + 1)..n : f[j] = g[j]) => step[i][f] = step[i][g]

Solves(n, step, f) == \A i \in 0..n : f[i] = step[i][f]

(* Such a function exists: it can be built from the end.                   *)
LEMMA RecursionFromEnd ==
  ASSUME NEW n \in Nat, NEW A, A # {}, NEW step, StepsInto(n, A, step), LooksAhead(n, A, step)
  PROVE  \E f \in [0..n -> A] : Solves(n, step, f)
<1> USE DEF StepsInto, LooksAhead, Solves
<1> DEFINE S == {k \in 0..n : \E f \in [0..n -> A] : \A i \in k..n : f[i] = step[i][f]}
<1>1. n \in S
  <2>1. PICK a \in A : TRUE
    OBVIOUS
  <2> DEFINE f == [i \in 0..n |-> a]
             g == [f EXCEPT ![n] = step[n][f]]
  <2>2. f \in [0..n -> A] /\ g \in [0..n -> A]
    OBVIOUS
  <2>3. step[n][g] = step[n][f]
    <3> HIDE DEF f, g
    <3>1. \A j \in (n + 1)..n : g[j] = f[j]
      OBVIOUS
    <3>2. n \in 0..n
      OBVIOUS
    <3> QED BY <2>2, <3>1, <3>2, Zenon
  <2>4. g[n] = step[n][g]
    BY <2>2, <2>3
  <2> HIDE DEF g
  <2>5. \A i \in n..n : g[i] = step[i][g]
    BY <2>4
  <2> QED BY <2>2, <2>5
<1>2. \A i \in 0..(n - 1) : i + 1 \in S => i \in S
  <2> SUFFICES ASSUME NEW k \in 0..(n - 1), k + 1 \in S PROVE k \in S
    OBVIOUS
  <2>1. PICK f \in [0..n -> A] : \A i \in (k + 1)..n : f[i] = step[i][f]
    OBVIOUS
  <2> DEFINE g == [f EXCEPT ![k] = step[k][f]]
  <2>2. g \in [0..n -> A] /\ k \in 0..n
    OBVIOUS
  <2>3. \A j \in (k + 1)..n : g[j] = f[j]
    OBVIOUS
  <2>4. ASSUME NEW i \in k..n PROVE g[i] = step[i][g]
    <3>1. step[i][g] = step[i][f]
      <4> HIDE DEF g
      <4>1. \A j \in (i + 1)..n : g[j] = f[j]
        BY <2>3
      <4>2. i \in 0..n
        OBVIOUS
      <4> QED BY <4>1, <4>2, <2>2, Zenon
    <3> QED BY <2>1, <3>1
  <2> HIDE DEF g
  <2> QED BY <2>2, <2>4
<1> HIDE DEF S
<1>3. 0..n \subseteq S
  BY <1>1, <1>2, DownInduction
<1>4. 0 \in S
  BY <1>3
<1> QED BY <1>4 DEF S

(* The value of a numeral of n digits in some base, as the table that its  *)
(* recursion fills; d[k] is the digit with k digits behind it.             *)
ValueTable(n, base, d, v) ==
  v = [k \in 0..n |-> IF k = n THEN 0 ELSE base * v[k + 1] + d[k]]

LEMMA ValueTableFacts ==
  ASSUME NEW n \in Nat, NEW base \in Int, NEW d \in [0..(n - 1) -> Int]
  PROVE  /\ \E v : ValueTable(n, base, d, v)
         /\ \A v : ValueTable(n, base, d, v) =>
              /\ v \in [0..n -> Int] /\ v[n] = 0
              /\ \A k \in 0..(n - 1) : v[k] = base * v[k + 1] + d[k]
<1> DEFINE step == [k \in 0..n |-> [v \in [0..n -> Int] |->
                      IF k = n THEN 0 ELSE base * v[k + 1] + d[k]]]
<1>1. StepsInto(n, Int, step)
  <2>1. ASSUME NEW k \in 0..n, NEW v \in [0..n -> Int] PROVE step[k][v] \in Int
    <3>1. CASE k = n
      BY <3>1
    <3>2. CASE k # n
      <4>1. k \in 0..(n - 1) /\ k + 1 \in 0..n
        BY <3>2
      <4>2. d[k] \in Int /\ v[k + 1] \in Int
        BY <4>1
      <4>3. base * v[k + 1] + d[k] \in Int
        BY <4>2
      <4> QED BY <3>2, <4>3
    <3> QED BY <3>1, <3>2
  <2> QED BY <2>1 DEF StepsInto
<1>2. LooksAhead(n, Int, step)
  <2> SUFFICES ASSUME NEW k \in 0..n, NEW v \in [0..n -> Int], NEW w \in [0..n -> Int],
                      \A j \in (k + 1)..n : v[j] = w[j]
               PROVE  step[k][v] = step[k][w]
    BY DEF LooksAhead
  <2>1. k = n \/ v[k + 1] = w[k + 1]
    OBVIOUS
  <2> QED BY <2>1
<1>3. PICK v \in [0..n -> Int] : Solves(n, step, v)
  <2> HIDE DEF step
  <2> QED BY <1>1, <1>2, RecursionFromEnd
<1>4. ValueTable(n, base, d, v)
  BY <1>3 DEF Solves, ValueTable
<1>5. ASSUME NEW w, ValueTable(n, base, d, w)
      PROVE  /\ w \in [0..n -> Int] /\ w[n] = 0
             /\ \A k \in 0..(n - 1) : w[k] = base * w[k + 1] + d[k]
  <2>1. w = [k \in 0..n |-> IF k = n THEN 0 ELSE base * w[k + 1] + d[k]]
    BY <1>5, Zenon DEF ValueTable
  <2>2. w[n] = 0
    BY <2>1
  <2>3. ASSUME NEW k \in 0..(n - 1) PROVE w[k] = base * w[k + 1] + d[k]
    <3>1. k \in 0..n /\ k # n
      OBVIOUS
    <3> QED BY <2>1, <3>1
  <2> DEFINE T == {k \in 0..n : w[k] \in Int}
  <2>4. n \in T
    BY <2>2
  <2>5. ASSUME NEW k \in 0..(n - 1), k + 1 \in T PROVE k \in T
    <3>1. k \in 0..n /\ w[k + 1] \in Int /\ d[k] \in Int
      BY <2>5
    <3>2. base * w[k + 1] + d[k] \in Int
      BY <3>1
    <3> QED BY <2>3, <3>1, <3>2
  <2> HIDE DEF T
  <2>6. 0..n \subseteq T
    BY <2>4, <2>5, DownInduction
  <2>7. \A k \in 0..n : w[k] \in Int
    BY <2>6 DEF T
  <2>8. w = [k \in 0..n |-> w[k]]
    BY <2>1, Zenon
  <2> QED BY <2>2, <2>3, <2>7, <2>8
<1> QED BY <1>4, <1>5

(* A set of numbers has a least element, a finite one a greatest. *)
LEMMA MinFacts ==
  ASSUME NEW S, S \subseteq Nat, S # {}
  PROVE  Min(S) \in S /\ \A y \in S : Min(S) <= y
<1>1. \E x \in S : \A y \in S : x <= y
  <2> SUFFICES ASSUME \A x \in S : \E y \in S : ~(x <= y) PROVE FALSE
    OBVIOUS
  <2> DEFINE T == {n \in Nat : \A y \in S : n <= y}
  <2>1. 0 \in T
    OBVIOUS
  <2>2. ASSUME NEW n \in Nat, n \in T PROVE n + 1 \in T
    <3>1. n \notin S
      BY <2>2
    <3>2. \A y \in S : n <= y /\ n # y /\ y \in Nat
      BY <2>2, <3>1
    <3> QED BY <3>2
  <2>3. Nat \subseteq T
    <3> HIDE DEF T
    <3> QED BY <2>1, <2>2, NatSetInduction
  <2>4. PICK y \in S : TRUE
    OBVIOUS
  <2>5. y + 1 \in T /\ y \in Nat
    BY <2>3, <2>4
  <2> QED BY <2>4, <2>5
<1> QED BY <1>1 DEF Min

(* Length and elements of a concatenation.                                 *)
LEMMA ConcatFacts ==
  ASSUME NEW C, NEW a \in Seq(C), NEW b \in Seq(C)
  PROVE  /\ a \o b \in Seq(C) /\ Len(a \o b) = Len(a) + Len(b)
         /\ Len(a) \in Nat /\ Len(b) \in Nat
         /\ \A i \in 1..Len(a) : (a \o b)[i] = a[i]
         /\ \A i \in 1..Len(b) : (a \o b)[Len(a) + i] = b[i]
OBVIOUS

(* Length and elements of a reversed sequence.                             *)
LEMMA ReverseFacts ==
  ASSUME NEW C, NEW s \in Seq(C)
  PROVE  /\ Reverse(s) \in Seq(C) /\ Len(Reverse(s)) = Len(s) /\ Len(s) \in Nat
         /\ \A i \in 1..Len(s) : Reverse(s)[i] = s[Len(s) - i + 1]
BY DEF Reverse

(* The rest of a sequence behind its first part.                           *)
LEMMA BehindFirst ==
  ASSUME NEW C, NEW a \in Seq(C), NEW b \in Seq(C)
  PROVE  /\ SubSeq(a \o b, Len(a) + 1, Len(a \o b)) = b
         /\ SubSeq(a \o b, 1, Len(a)) = a
<1>1. /\ a \o b \in Seq(C) /\ Len(a \o b) = Len(a) + Len(b)
      /\ Len(a) \in Nat /\ Len(b) \in Nat
      /\ \A i \in 1..Len(a) : (a \o b)[i] = a[i]
      /\ \A i \in 1..Len(b) : (a \o b)[Len(a) + i] = b[i]
  BY ConcatFacts
<1> DEFINE t == a \o b
           r == SubSeq(t, Len(a) + 1, Len(t))
           q == SubSeq(t, 1, Len(a))
<1> HIDE DEF t
<1>2. /\ Len(t) = Len(a) + Len(b) /\ t \in Seq(C)
      /\ \A i \in 1..Len(a) : t[i] = a[i]
      /\ \A i \in 1..Len(b) : t[Len(a) + i] = b[i]
  BY <1>1 DEF t
<1>3. r \in Seq(C) /\ Len(r) = Len(b) /\ \A i \in 1..Len(b) : r[i] = b[i]
  BY <1>1, <1>2
<1>4. q \in Seq(C) /\ Len(q) = Len(a) /\ \A i \in 1..Len(a) : q[i] = a[i]
  BY <1>1, <1>2
<1> HIDE DEF r, q
<1>5. r = b /\ q = a
  BY <1>3, <1>4, SeqEqual
<1> QED BY <1>5 DEF r, q, t

(* DecimalValue as the table its recursion fills: each digit adds to ten times  *)
(* the value of those before it.                                           *)
LEMMA DecimalTable ==
  ASSUME NEW C, NEW digits \in Seq(C), \A i \in 1..Len(digits) : IsDigit(digits[i])
  PROVE  \E v \in [0..Len(digits) -> Int] :
           /\ DecimalValue(digits) = v[0] /\ v[Len(digits)] = 0
           /\ \A k \in 0..(Len(digits) - 1) :
                v[k] = 10 * v[k + 1] + DigitValue(digits[Len(digits) - k])
<1> DEFINE n == Len(digits)
           d == [k \in 0..(n - 1) |-> DigitValue(digits[n - k])]
           base == 10
           Eq(v) == v = [k \in 0..n |-> IF k = n THEN 0
                                        ELSE 10 * v[k + 1] + DigitValue(digits[n - k])]
           vv == CHOOSE v : Eq(v)
<1>1. n \in Nat /\ base \in Int /\ base = 10
  OBVIOUS
<1>2. ASSUME NEW k \in 0..(n - 1) PROVE DigitValue(digits[n - k]) \in Int
  <2>1. n - k \in 1..n
    BY <1>1
  <2>2. IsDigit(digits[n - k])
    BY <2>1
  <2>3. DOMAIN Digits \subseteq Int
    BY DEF Digits
  <2> DEFINE j == CHOOSE i \in DOMAIN Digits : Digits[i] = digits[n - k]
  <2>4. j \in DOMAIN Digits
    BY <2>2, Zenon DEF IsDigit
  <2>5. DigitValue(digits[n - k]) = j - 1
    BY Zenon DEF DigitValue
  <2> HIDE DEF j
  <2> QED BY <2>3, <2>4, <2>5
<1>3. DecimalValue(digits) = vv[0]
  BY Zenon DEF DecimalValue
<1> HIDE DEF n
<1>4. d \in [0..(n - 1) -> Int]
  BY <1>2
<1>5. ASSUME NEW v PROVE Eq(v) <=> ValueTable(n, base, d, v)
  <2> DEFINE F1 == [k \in 0..n |-> IF k = n THEN 0
                                   ELSE 10 * v[k + 1] + DigitValue(digits[n - k])]
             F2 == [k \in 0..n |-> IF k = n THEN 0 ELSE base * v[k + 1] + d[k]]
  <2>1. ASSUME NEW k \in 0..n, k # n PROVE d[k] = DigitValue(digits[n - k])
    <3>1. k \in 0..(n - 1)
      BY <1>1, <2>1
    <3> QED BY <3>1
  <2>2. Eq(v) <=> v = F1
    OBVIOUS
  <2>3. ValueTable(n, base, d, v) <=> v = F2
    BY Zenon DEF ValueTable
  <2>4. ASSUME NEW k \in 0..n
        PROVE  (IF k = n THEN 0 ELSE 10 * v[k + 1] + DigitValue(digits[n - k]))
                 = (IF k = n THEN 0 ELSE 10 * v[k + 1] + d[k])
    <3>1. k = n \/ d[k] = DigitValue(digits[n - k])
      BY <2>1
    <3> HIDE DEF d
    <3> QED BY <3>1, Zenon
  <2>5. F1 = F2
    <3> HIDE DEF d
    <3> QED BY <2>4, Zenon
  <2> HIDE DEF F1, F2, Eq
  <2> QED BY <2>2, <2>3, <2>5
<1> HIDE DEF d, base
<1>6. ValueTable(n, base, d, vv)
  <2>1. \E v : ValueTable(n, base, d, v)
    <3> HIDE DEF Eq, vv
    <3> QED BY <1>1, <1>4, ValueTableFacts
  <2>2. \E v : Eq(v)
    BY <1>5, <2>1
  <2>3. Eq(vv)
    <3> HIDE DEF Eq
    <3> QED BY <2>2
  <2> HIDE DEF Eq, vv
  <2> QED BY <1>5, <2>3
<1> HIDE DEF vv, Eq
<1>7. /\ vv \in [0..n -> Int] /\ vv[n] = 0
      /\ \A k \in 0..(n - 1) : vv[k] = base * vv[k + 1] + d[k]
  <2>1. \A v : ValueTable(n, base, d, v) =>
          /\ v \in [0..n -> Int] /\ v[n] = 0
          /\ \A k \in 0..(n - 1) : v[k] = base * v[k + 1] + d[k]
    BY <1>1, <1>4, ValueTableFacts, Zenon
  <2> QED BY <1>6, <2>1, Zenon
<1>8. \A k \in 0..(n - 1) : d[k] = DigitValue(digits[n - k])
  BY DEF d
<1> QED BY <1>1, <1>3, <1>7, <1>8 DEF n

-----------------------------------------------------------------------------
(* What is left of a sequence's first j elements when s are skipped. *)
Taken(r, s, j) == SubSeq(r, s + 1, j)

(* Length and elements of what the first j rounds take behind s skipped    *)
(* ones.                                                                   *)
LEMMA TakenFacts ==
  ASSUME NEW A, NEW r \in Seq(A), NEW s \in Nat, NEW j \in 0..Len(r)
  PROVE  /\ Taken(r, s, j) \in Seq(A) /\ Len(Taken(r, s, j)) = OrNone(j - s)
         /\ \A i \in 1..OrNone(j - s) : Taken(r, s, j)[i] = r[s + i]
<1>0. Len(r) \in Nat
  OBVIOUS
<1>1. CASE s + 1 <= j
  <2>1. s + 1 \in 1..Len(r) /\ j \in (s + 1)..Len(r)
    BY <1>0, <1>1
  <2>2. /\ SubSeq(r, s + 1, j) \in Seq(A) /\ Len(SubSeq(r, s + 1, j)) = j - (s + 1) + 1
        /\ \A i \in 1..(j - (s + 1) + 1) : SubSeq(r, s + 1, j)[i] = r[(s + 1) + i - 1]
    BY <1>0, <1>1
  <2>3. OrNone(j - s) = j - (s + 1) + 1 /\ \A i \in 1..(j - (s + 1) + 1) : (s + 1) + i - 1 = s + i
    BY <1>1 DEF OrNone
  <2> QED BY <2>2, <2>3 DEF Taken
<1>2. CASE ~(s + 1 <= j)
  <2>1. OrNone(j - s) = 0
    BY <1>2 DEF OrNone
  <2>2. SubSeq(r, s + 1, j) = <<>>
    BY <1>0, <1>2
  <2> QED BY <2>1, <2>2 DEF Taken
<1> QED BY <1>1, <1>2

(* What one more round adds to it.                                         *)
LEMMA TakenNext ==
  ASSUME NEW A, NEW r \in Seq(A), NEW s \in Nat, NEW j \in 0..(Len(r) - 1)
  PROVE  Taken(r, s, j + 1) = IF s > j THEN Taken(r, s, j) ELSE Append(Taken(r, s, j), r[j + 1])
<1> DEFINE x == Taken(r, s, j)
           y == Taken(r, s, j + 1)
<1>0. Len(r) \in Nat /\ j \in 0..Len(r) /\ j + 1 \in 0..Len(r)
  OBVIOUS
<1>1. x \in Seq(A) /\ Len(x) = OrNone(j - s) /\ \A i \in 1..OrNone(j - s) : x[i] = r[s + i]
  BY <1>0, TakenFacts
<1>2. /\ y \in Seq(A) /\ Len(y) = OrNone(j + 1 - s)
      /\ \A i \in 1..OrNone(j + 1 - s) : y[i] = r[s + i]
  <2> DEFINE k == j + 1
  <2>1. k \in 0..Len(r)
    BY <1>0
  <2> HIDE DEF k
  <2>2. /\ Taken(r, s, k) \in Seq(A) /\ Len(Taken(r, s, k)) = OrNone(k - s)
        /\ \A i \in 1..OrNone(k - s) : Taken(r, s, k)[i] = r[s + i]
    BY <2>1, TakenFacts
  <2> QED BY <2>2 DEF k
<1> HIDE DEF x, y
<1>3. CASE s > j
  <2>1. OrNone(j - s) = 0 /\ OrNone(j + 1 - s) = 0
    BY <1>3 DEF OrNone
  <2>2. x = y
    BY <1>1, <1>2, <2>1, EmptySeq
  <2> QED BY <1>3, <2>2 DEF x, y
<1>4. CASE ~(s > j)
  <2>1. OrNone(j - s) = j - s /\ OrNone(j + 1 - s) = j + 1 - s
    BY <1>4 DEF OrNone
  <2> DEFINE z == Append(x, r[j + 1])
  <2>2. r[j + 1] \in A
    BY <1>0
  <2>3. z \in Seq(A) /\ Len(z) = j + 1 - s /\ z[j + 1 - s] = r[j + 1]
        /\ \A i \in 1..(j - s) : z[i] = x[i]
    <3>1. Len(x) = j - s /\ Len(x) + 1 = j + 1 - s
      BY <1>1, <2>1
    <3>2. z \in Seq(A) /\ Len(z) = Len(x) + 1 /\ z[Len(x) + 1] = r[j + 1]
          /\ \A i \in 1..Len(x) : z[i] = x[i]
      BY <1>1, <2>2, AppendProperties
    <3> HIDE DEF z
    <3> QED BY <3>1, <3>2
  <2> HIDE DEF z
  <2>4. ASSUME NEW i \in 1..(j + 1 - s) PROVE y[i] = z[i]
    <3>1. CASE i = j + 1 - s
      <4>1. y[i] = r[s + i] /\ s + i = j + 1
        BY <1>2, <2>1, <3>1
      <4> QED BY <2>3, <3>1, <4>1
    <3>2. CASE i # j + 1 - s
      <4>1. i \in 1..(j - s)
        BY <3>2
      <4> QED BY <1>1, <1>2, <2>1, <2>3, <4>1
    <3> QED BY <3>1, <3>2
  <2>5. y = z
    BY <1>2, <2>1, <2>3, <2>4, SeqEqual
  <2> QED BY <1>4, <2>5 DEF x, y, z
<1> QED BY <1>3, <1>4

\* Where a loop with room for max elements stops, of m.
StopAt(m, s, max) == IF max = 0 THEN 0 ELSE Least(m, s + max)

(* The loop stops at the round that finds the result full, and at none     *)
(* before.                                                                 *)
LEMMA StopFacts ==
  ASSUME NEW m \in Nat, NEW s \in Nat, NEW max \in Nat
  PROVE  /\ StopAt(m, s, max) \in 0..m
         /\ \A j \in 0..m : j < StopAt(m, s, max) => OrNone(j - s) # max
         /\ StopAt(m, s, max) < m => OrNone(StopAt(m, s, max) - s) = max
BY DEF StopAt, OrNone, Least

\* What is taken up to there is what is wanted.
LEMMA TakenAtStop ==
  ASSUME NEW A, NEW r \in Seq(A), NEW s \in Nat, NEW max \in Nat
  PROVE  Taken(r, s, StopAt(Len(r), s, max)) = SubSeq(r, s + 1, Least(s + max, Len(r)))
<1> DEFINE x == Taken(r, s, StopAt(Len(r), s, max))
           y == Taken(r, s, Least(s + max, Len(r)))
<1>0. Len(r) \in Nat
  OBVIOUS
<1>1. StopAt(Len(r), s, max) \in 0..Len(r) /\ Least(s + max, Len(r)) \in 0..Len(r)
  BY <1>0 DEF StopAt, Least
<1>2. OrNone(StopAt(Len(r), s, max) - s) = OrNone(Least(s + max, Len(r)) - s)
  BY <1>0 DEF StopAt, Least, OrNone
<1>3. /\ x \in Seq(A) /\ Len(x) = OrNone(StopAt(Len(r), s, max) - s)
      /\ \A i \in 1..OrNone(StopAt(Len(r), s, max) - s) : x[i] = r[s + i]
  BY <1>1, TakenFacts
<1>4. /\ y \in Seq(A) /\ Len(y) = OrNone(Least(s + max, Len(r)) - s)
      /\ \A i \in 1..OrNone(Least(s + max, Len(r)) - s) : y[i] = r[s + i]
  BY <1>1, TakenFacts
<1> HIDE DEF x, y
<1>5. x = y
  BY <1>2, <1>3, <1>4, SeqEqual
<1> QED BY <1>5 DEF x, y, Taken

(* The frames a walk passes: from a[0] on each is the next of the one      *)
(* before, none of the first m ends the walk, a[m] does.                   *)
WalkPath(mem, a, m, arch) ==
  /\ m \in Nat /\ arch \in Archs
  /\ \A j \in 0..(m - 1) : /\ a[j] # 0 /\ mem[a[j]].ret \in Int
                           /\ ~(ZeroEnds(arch) /\ mem[a[j]].ret = 0)
                           /\ NextStackFrame(arch, mem, a[j]) = a[j + 1]
  /\ a[m] = 0 \/ (ZeroEnds(arch) /\ mem[a[m]].ret = 0)

\* The return addresses in them.
ReturnsOn(mem, a, m) == [i \in 1..m |-> mem[a[i - 1]].ret]

(* They are numbers, one for each frame. *)
LEMMA ReturnsOnFacts ==
  ASSUME NEW mem, NEW a, NEW m, NEW arch, WalkPath(mem, a, m, arch)
  PROVE  /\ m \in Nat
         /\ ReturnsOn(mem, a, m) \in Seq(Int) /\ Len(ReturnsOn(mem, a, m)) = m
         /\ \A i \in 1..m : ReturnsOn(mem, a, m)[i] = mem[a[i - 1]].ret
<1>1. m \in Nat
  BY DEF WalkPath
<1>2. \A i \in 1..m : mem[a[i - 1]].ret \in Int
  <2> SUFFICES ASSUME NEW i \in 1..m PROVE mem[a[i - 1]].ret \in Int
    OBVIOUS
  <2>1. i - 1 \in 0..(m - 1)
    BY <1>1
  <2> QED BY <2>1 DEF WalkPath
<1> DEFINE r == ReturnsOn(mem, a, m)
<1>3. r = [i \in 1..m |-> mem[a[i - 1]].ret]
  BY Zenon DEF ReturnsOn
<1> HIDE DEF r
<1>4. r \in Seq(Int) /\ Len(r) = m /\ \A i \in 1..m : r[i] = mem[a[i - 1]].ret
  BY <1>1, <1>2, <1>3
<1> QED BY <1>1, <1>4 DEF r

Walker(sp, skip_count, result, ended) ==
  [sp |-> sp, skip_count |-> skip_count, result |-> result, ended |-> ended]

(* Setting one field of a walker.                                          *)
LEMMA WalkerEnds ==
  ASSUME NEW a, NEW b, NEW c, NEW e, NEW w, w = Walker(a, b, c, e), NEW f
  PROVE  [w EXCEPT !.ended = f] = Walker(a, b, c, f)
<1>1. [[sp |-> a, skip_count |-> b, result |-> c, ended |-> e] EXCEPT !.ended = f]
        = [sp |-> a, skip_count |-> b, result |-> c, ended |-> f]
  OBVIOUS
<1> QED BY <1>1 DEF Walker

\* The state of the walk after j rounds.
WalkState(mem, a, m, max, skip, j) ==
  LET k == StopAt(m, skip, max)
  IN Walker(a[Least(j, k)], OrNone(skip - Least(j, k)),
            Taken(ReturnsOn(mem, a, m), skip, Least(j, k)), j > k)

(* The closed form of the walk is right for one more round.                *)
LEMMA WalkRound ==
  ASSUME NEW mem, NEW a, NEW m, NEW arch, WalkPath(mem, a, m, arch),
         NEW max \in Nat, NEW skip \in Nat, NEW j \in Nat
  PROVE  LET w == WalkState(mem, a, m, max, skip, j)
         IN WalkState(mem, a, m, max, skip, j + 1)
              = IF w.ended THEN w ELSE Round(w, mem, max, arch)
<1> DEFINE k == StopAt(m, skip, max)
           r == ReturnsOn(mem, a, m)
           w == WalkState(mem, a, m, max, skip, j)
           v == WalkState(mem, a, m, max, skip, j + 1)
<1>1. m \in Nat /\ r \in Seq(Int) /\ Len(r) = m /\ \A i \in 1..m : r[i] = mem[a[i - 1]].ret
  BY ReturnsOnFacts
<1>2. /\ k \in 0..m
      /\ \A i \in 0..m : i < k => OrNone(i - skip) # max
      /\ k < m => OrNone(k - skip) = max
  BY <1>1, StopFacts
<1>3. w = Walker(a[Least(j, k)], OrNone(skip - Least(j, k)), Taken(r, skip, Least(j, k)), j > k)
  BY Zenon DEF WalkState
<1>4. v = Walker(a[Least(j + 1, k)], OrNone(skip - Least(j + 1, k)),
                 Taken(r, skip, Least(j + 1, k)), j + 1 > k)
  BY Zenon DEF WalkState
<1>5. \A i \in 0..m : Len(Taken(r, skip, i)) = OrNone(i - skip)
  BY <1>1, TakenFacts
<1> HIDE DEF k, r, w, v
<1>6. CASE j > k
  <2>1. Least(j, k) = k /\ Least(j + 1, k) = k
    BY <1>1, <1>2, <1>6 DEF Least
  <2>2. j + 1 > k
    BY <1>1, <1>2, <1>6
  <2>3. (j > k) = TRUE /\ (j + 1 > k) = TRUE
    BY <1>6, <2>2, Zenon
  <2>4. v = w
    BY <1>3, <1>4, <2>1, <2>3, Zenon
  <2>5. w = Walker(a[k], OrNone(skip - k), Taken(r, skip, k), TRUE)
    BY <1>3, <2>1, <2>3, Zenon
  <2>6. w.ended
    BY <2>5 DEF Walker
  <2> QED BY <2>4, <2>6, Zenon DEF w, v
<1>7. CASE j = k
  <2>1. Least(j, k) = k /\ Least(j + 1, k) = k
    BY <1>1, <1>2, <1>7 DEF Least
  <2>a. ~(j > k) /\ j + 1 > k
    BY <1>1, <1>2, <1>7
  <2>b. (j > k) = FALSE /\ (j + 1 > k) = TRUE
    BY <2>a
  <2>2. w = Walker(a[k], OrNone(skip - k), Taken(r, skip, k), FALSE)
    BY <1>3, <2>1, <2>b, Zenon
  <2>3. v = Walker(a[k], OrNone(skip - k), Taken(r, skip, k), TRUE)
    BY <1>4, <2>1, <2>b, Zenon
  <2>4. w.sp = a[k] /\ w.result = Taken(r, skip, k) /\ w.ended = FALSE
    BY <2>2 DEF Walker
  <2>5. \/ w.sp = 0 \/ Len(w.result) = max
        \/ ZeroEnds(arch) /\ mem[w.sp].ret = 0
    <3>1. CASE k = m
      BY <2>4, <3>1, Zenon DEF WalkPath
    <3>2. CASE k # m
      <4>1. k < m
        BY <1>1, <1>2, <3>2
      <4>2. Len(Taken(r, skip, k)) = max
        BY <1>2, <1>5, <4>1
      <4> QED BY <2>4, <4>2, Zenon
    <3> QED BY <3>1, <3>2
  <2>6. Round(w, mem, max, arch) = [w EXCEPT !.ended = TRUE]
    BY <2>5, Zenon DEF Round
  <2>7. [w EXCEPT !.ended = TRUE] = v
    <3> DEFINE yes == TRUE
               no == FALSE
               x1 == a[k]
               x2 == OrNone(skip - k)
               x3 == Taken(r, skip, k)
    <3>1. w = Walker(x1, x2, x3, no)
      BY <2>2
    <3> HIDE DEF yes, no, x1, x2, x3
    <3>2. [w EXCEPT !.ended = yes] = Walker(x1, x2, x3, yes)
      BY ONLY <3>1, WalkerEnds
    <3> QED BY <2>3, <3>2, Zenon DEF yes, x1, x2, x3
  <2> QED BY <2>4, <2>6, <2>7, Zenon DEF w, v
<1>8. CASE j < k
  <2>1. Least(j, k) = j /\ Least(j + 1, k) = j + 1 /\ j \in 0..(m - 1) /\ j \in 0..m
    BY <1>1, <1>2, <1>8 DEF Least
  <2>a. ~(j > k) /\ ~(j + 1 > k)
    BY <1>1, <1>2, <1>8
  <2>b. (j > k) = FALSE /\ (j + 1 > k) = FALSE
    BY <2>a
  <2>2. w = Walker(a[j], OrNone(skip - j), Taken(r, skip, j), FALSE)
    BY <1>3, <2>1, <2>b, Zenon
  <2>3. v = Walker(a[j + 1], OrNone(skip - (j + 1)), Taken(r, skip, j + 1), FALSE)
    BY <1>4, <2>1, <2>b, Zenon
  <2>4. /\ a[j] # 0 /\ ~(ZeroEnds(arch) /\ mem[a[j]].ret = 0) /\ NextStackFrame(arch, mem, a[j]) = a[j + 1]
    BY <2>1, Zenon DEF WalkPath
  <2>5. Len(Taken(r, skip, j)) # max
    BY <1>2, <1>5, <1>8, <2>1
  <2>6. /\ w.sp = a[j] /\ w.skip_count = OrNone(skip - j) /\ w.result = Taken(r, skip, j)
        /\ w.ended = FALSE
    BY <2>2 DEF Walker
  <2>7. Round(w, mem, max, arch) =
           Walker(NextStackFrame(arch, mem, w.sp), OrNone(w.skip_count - 1),
                  IF w.skip_count > 0 THEN w.result ELSE Append(w.result, mem[w.sp].ret), FALSE)
    <3>1. ~(\/ w.sp = 0 \/ Len(w.result) = max
            \/ ZeroEnds(arch) /\ mem[w.sp].ret = 0)
      BY <2>4, <2>5, <2>6, Zenon
    <3> QED BY <3>1, Zenon DEF Round, Walker
  <2>8. OrNone(w.skip_count - 1) = OrNone(skip - (j + 1))
    BY <2>1, <2>6 DEF OrNone
  <2>9. (IF w.skip_count > 0 THEN w.result ELSE Append(w.result, mem[w.sp].ret))
          = Taken(r, skip, j + 1)
    <3>1. Taken(r, skip, j + 1) = IF skip > j THEN Taken(r, skip, j)
                                  ELSE Append(Taken(r, skip, j), r[j + 1])
      BY <1>1, <2>1, TakenNext
    <3>2. w.skip_count > 0 <=> skip > j
      BY <2>1, <2>6 DEF OrNone
    <3>3. r[j + 1] = mem[a[j]].ret
      <4>1. j + 1 \in 1..m /\ (j + 1) - 1 = j
        BY <1>1, <2>1
      <4> QED BY <1>1, <4>1
    <3> QED BY <2>6, <3>1, <3>2, <3>3, Zenon
  <2>10. Round(w, mem, max, arch) = v
    BY <2>3, <2>4, <2>6, <2>7, <2>8, <2>9, Zenon
  <2> QED BY <2>6, <2>10, Zenon DEF w, v
<1>9. j > k \/ j = k \/ j < k
  BY <1>1, <1>2
<1> QED BY <1>6, <1>7, <1>8, <1>9

(* It is right before the first round.                                     *)
LEMMA WalkStart ==
  ASSUME NEW mem, NEW a, NEW m, NEW arch, WalkPath(mem, a, m, arch),
         NEW max \in Nat, NEW skip \in Nat
  PROVE  WalkState(mem, a, m, max, skip, 0) = Walker(a[0], skip, <<>>, FALSE)
<1> DEFINE k == StopAt(m, skip, max)
           r == ReturnsOn(mem, a, m)
<1>1. m \in Nat /\ r \in Seq(Int) /\ Len(r) = m
  BY ReturnsOnFacts
<1>2. k \in 0..m
  BY <1>1, StopFacts
<1>3. WalkState(mem, a, m, max, skip, 0)
        = Walker(a[Least(0, k)], OrNone(skip - Least(0, k)), Taken(r, skip, Least(0, k)), 0 > k)
  BY Zenon DEF WalkState
<1>4. Taken(r, skip, 0) \in Seq(Int) /\ Len(Taken(r, skip, 0)) = OrNone(0 - skip)
  <2>1. 0 \in 0..Len(r)
    BY <1>1
  <2> HIDE DEF r
  <2> QED BY <1>1, <2>1, TakenFacts
<1> HIDE DEF k, r
<1>5. Least(0, k) = 0 /\ OrNone(skip - 0) = skip /\ OrNone(0 - skip) = 0
  BY <1>2 DEF Least, OrNone
<1>6. (0 > k) = FALSE
  BY <1>2
<1>7. Taken(r, skip, 0) = <<>>
  BY <1>4, <1>5, EmptySeq
<1> QED BY <1>3, <1>5, <1>6, <1>7, Zenon

(* A walk along a path returns what is wanted of the return addresses on it. *)
LEMMA WalkAlong ==
  ASSUME NEW mem, NEW a, NEW m, NEW arch, WalkPath(mem, a, m, arch),
         Cardinality(DOMAIN mem) \in Nat, m <= Cardinality(DOMAIN mem),
         NEW max \in Nat, NEW skip \in Nat
  PROVE  /\ Walk(mem, a[0], max, skip, arch).ended
         /\ Walk(mem, a[0], max, skip, arch).result
              = Taken(ReturnsOn(mem, a, m), skip, StopAt(m, skip, max))
<1> DEFINE n == Cardinality(DOMAIN mem) + 1
           start == Walker(a[0], skip, <<>>, FALSE)
           Next1(w) == IF w.ended THEN w ELSE Round(w, mem, max, arch)
           F(s) == [left \in 0..n |-> IF left = n THEN start ELSE Next1(s[left + 1])]
           Eq(s) == s = F(s)
           st == CHOOSE s : Eq(s)
           W(j) == WalkState(mem, a, m, max, skip, j)
           g == [left \in 0..n |-> W(n - left)]
<1>1. Walk(mem, a[0], max, skip, arch) = st[0]
  BY Zenon DEF Walk, Rounds, Walker
<1>2. n \in Nat /\ n > m /\ m \in Nat
  BY DEF WalkPath
<1> HIDE DEF n
<1>3. W(0) = start
  BY WalkStart
<1>4. ASSUME NEW j \in Nat PROVE W(j + 1) = Next1(W(j))
  BY WalkRound
<1> HIDE DEF W, Next1, start
<1>5. Eq(g)
  <2>1. ASSUME NEW left \in 0..n
        PROVE  W(n - left) = IF left = n THEN start ELSE Next1(g[left + 1])
    <3>1. CASE left = n
      BY <1>2, <1>3, <3>1
    <3>2. CASE left # n
      <4>1. n - (left + 1) \in Nat /\ (n - (left + 1)) + 1 = n - left /\ left + 1 \in 0..n
        BY <1>2, <3>2
      <4>2. W((n - (left + 1)) + 1) = Next1(W(n - (left + 1)))
        BY <1>4, <4>1
      <4>3. g[left + 1] = W(n - (left + 1))
        BY <4>1
      <4> HIDE DEF g
      <4> QED BY <3>2, <4>1, <4>2, <4>3
    <3> QED BY <3>1, <3>2
  <2>2. g = [left \in 0..n |-> IF left = n THEN start ELSE Next1(g[left + 1])]
    <3>1. g = [left \in 0..n |-> W(n - left)]
      OBVIOUS
    <3> HIDE DEF g
    <3> QED BY <2>1, <3>1
  <2> HIDE DEF g
  <2> QED BY <2>2
<1>6. Eq(st)
  <2> HIDE DEF Eq
  <2> QED BY <1>5
<1>7. \A left \in 0..n : st[left] = IF left = n THEN start ELSE Next1(st[left + 1])
  <2>1. st = [left \in 0..n |-> IF left = n THEN start ELSE Next1(st[left + 1])]
    BY <1>6, Zenon
  <2> HIDE DEF st
  <2> QED BY <2>1
<1> HIDE DEF st, Eq
<1> DEFINE S == {left \in 0..n : st[left] = W(n - left)}
<1>8. n \in S
  <2>1. st[n] = start /\ n - n = 0 /\ n \in 0..n
    BY <1>2, <1>7
  <2> QED BY <1>3, <2>1
<1>9. ASSUME NEW i \in 0..(n - 1), i + 1 \in S PROVE i \in S
  <2>1. i \in 0..n /\ i # n /\ n - (i + 1) \in Nat /\ (n - (i + 1)) + 1 = n - i
    BY <1>2
  <2>2. st[i] = Next1(st[i + 1])
    BY <1>7, <2>1
  <2>3. st[i + 1] = W(n - (i + 1))
    BY <1>9
  <2>4. W((n - (i + 1)) + 1) = Next1(W(n - (i + 1)))
    BY <1>4, <2>1
  <2> QED BY <2>1, <2>2, <2>3, <2>4
<1>10. st[0] = W(n)
  <2>1. 0..n \subseteq S
    <3> HIDE DEF S
    <3> QED BY <1>2, <1>8, <1>9, DownInduction
  <2>2. 0 \in 0..n /\ n - 0 = n
    BY <1>2
  <2> QED BY <2>1, <2>2
<1> DEFINE k == StopAt(m, skip, max)
           r == ReturnsOn(mem, a, m)
<1>11. k \in 0..m
  BY <1>2, StopFacts
<1>12. W(n) = Walker(a[Least(n, k)], OrNone(skip - Least(n, k)), Taken(r, skip, Least(n, k)), n > k)
  BY Zenon DEF W, WalkState
<1> HIDE DEF k, r
<1>13. Least(n, k) = k /\ n > k
  BY <1>2, <1>11 DEF Least
<1>14. W(n).ended /\ W(n).result = Taken(r, skip, k)
  <2>1. (n > k) = TRUE
    BY <1>13, Zenon
  <2>2. W(n) = Walker(a[k], OrNone(skip - k), Taken(r, skip, k), TRUE)
    BY <1>12, <1>13, <2>1, Zenon
  <2> QED BY <2>2 DEF Walker
<1> QED BY <1>1, <1>10, <1>14, Zenon DEF k, r

Taker(skip_count, result) == [skip_count |-> skip_count, result |-> result]

(* Reading and setting the fields of libunwind's loop.                     *)
LEMMA TakerFacts ==
  ASSUME NEW b, NEW c, NEW w, w = Taker(b, c), NEW d
  PROVE  /\ w.skip_count = b /\ w.result = c
         /\ [w EXCEPT !.skip_count = d] = Taker(d, c) /\ [w EXCEPT !.result = d] = Taker(b, d)
<1>1. [[skip_count |-> b, result |-> c] EXCEPT !.skip_count = d] = [skip_count |-> d, result |-> c]
  OBVIOUS
<1>2. [[skip_count |-> b, result |-> c] EXCEPT !.result = d] = [skip_count |-> b, result |-> d]
  OBVIOUS
<1>3. w = [skip_count |-> b, result |-> c]
  BY Zenon DEF Taker
<1> QED BY <1>1, <1>2, <1>3 DEF Taker

\* The state of the loop of the version on libunwind after j calls.
TakerState(calls, s, max, j) ==
  LET k == Least(j, StopAt(Len(calls), s, max))
  IN Taker(OrNone(s - k), Taken(calls, s, k))

\* A round of that loop.
TakerNext(w, ip, max) ==
  IF Len(w.result) = max THEN w
  ELSE IF w.skip_count > 0 THEN [w EXCEPT !.skip_count = @ - 1]
  ELSE [w EXCEPT !.result = Append(@, ip)]

(* The closed form of libunwind's loop is right for one more round.        *)
LEMMA TakerRound ==
  ASSUME NEW calls \in Seq(Int), NEW s \in Nat, NEW max \in Nat, NEW j \in 0..(Len(calls) - 1)
  PROVE  TakerState(calls, s, max, j + 1) = TakerNext(TakerState(calls, s, max, j), calls[j + 1], max)
<1> DEFINE n == Len(calls)
           k == StopAt(n, s, max)
           w == TakerState(calls, s, max, j)
           v == TakerState(calls, s, max, j + 1)
<1>1. n \in Nat /\ j \in 0..n /\ j + 1 \in 0..n /\ j < n
  OBVIOUS
<1>2. /\ k \in 0..n
      /\ \A i \in 0..n : i < k => OrNone(i - s) # max
      /\ k < n => OrNone(k - s) = max
  BY <1>1, StopFacts
<1>3. /\ w = Taker(OrNone(s - Least(j, k)), Taken(calls, s, Least(j, k)))
      /\ v = Taker(OrNone(s - Least(j + 1, k)), Taken(calls, s, Least(j + 1, k)))
  BY Zenon DEF TakerState
<1>4. \A i \in 0..n : Len(Taken(calls, s, i)) = OrNone(i - s)
  BY TakenFacts
<1>5. Taken(calls, s, j + 1) = IF s > j THEN Taken(calls, s, j)
                               ELSE Append(Taken(calls, s, j), calls[j + 1])
  BY TakenNext
<1> HIDE DEF n, k, w, v
<1>6. CASE j >= k
  <2>1. Least(j, k) = k /\ Least(j + 1, k) = k /\ k < n
    BY <1>1, <1>2, <1>6 DEF Least
  <2>2. w = Taker(OrNone(s - k), Taken(calls, s, k)) /\ v = w
    BY <1>3, <2>1
  <2>3. w.result = Taken(calls, s, k)
    BY <2>2, TakerFacts
  <2>4. Len(w.result) = max
    BY <1>2, <1>4, <2>1, <2>3
  <2> QED BY <2>2, <2>4, Zenon DEF w, v, TakerNext
<1>7. CASE j < k
  <2>1. Least(j, k) = j /\ Least(j + 1, k) = j + 1
    BY <1>1, <1>2, <1>7 DEF Least
  <2>2. /\ w = Taker(OrNone(s - j), Taken(calls, s, j))
        /\ v = Taker(OrNone(s - (j + 1)), Taken(calls, s, j + 1))
    BY <1>3, <2>1
  <2>3. w.skip_count = OrNone(s - j) /\ w.result = Taken(calls, s, j)
    BY <2>2, TakerFacts
  <2>4. Len(w.result) # max
    BY <1>1, <1>2, <1>4, <1>7, <2>3
  <2>5. CASE s > j
    <3>1. w.skip_count > 0 /\ w.skip_count - 1 = OrNone(s - (j + 1))
      BY <1>1, <2>3, <2>5 DEF OrNone
    <3>2. [w EXCEPT !.skip_count = w.skip_count - 1] = Taker(w.skip_count - 1, Taken(calls, s, j))
      BY <2>2, TakerFacts
    <3>3. v = [w EXCEPT !.skip_count = w.skip_count - 1]
      BY <1>5, <2>2, <2>5, <3>1, <3>2, Zenon
    <3> QED BY <2>4, <3>1, <3>3, Zenon DEF w, v, TakerNext
  <2>6. CASE ~(s > j)
    <3>1. ~(w.skip_count > 0) /\ OrNone(s - j) = OrNone(s - (j + 1))
      BY <1>1, <2>3, <2>6 DEF OrNone
    <3>2. [w EXCEPT !.result = Append(w.result, calls[j + 1])]
            = Taker(OrNone(s - j), Append(w.result, calls[j + 1]))
      <4> DEFINE d == Append(w.result, calls[j + 1])
      <4> HIDE DEF d
      <4>1. [w EXCEPT !.result = d] = Taker(OrNone(s - j), d)
        BY <2>2, TakerFacts
      <4> QED BY <4>1 DEF d
    <3>3. v = [w EXCEPT !.result = Append(w.result, calls[j + 1])]
      BY <1>5, <2>2, <2>3, <2>6, <3>1, <3>2, Zenon
    <3> QED BY <2>4, <3>1, <3>3, Zenon DEF w, v, TakerNext
  <2> QED BY <2>5, <2>6
<1> QED BY <1>1, <1>2, <1>6, <1>7

(* No round takes nothing.                                                 *)
LEMMA TakenNone ==
  ASSUME NEW calls \in Seq(Int), NEW s \in Nat
  PROVE  Taken(calls, s, 0) = <<>>
<1>1. 0 \in 0..Len(calls) /\ OrNone(0 - s) = 0
  BY DEF OrNone
<1>2. Taken(calls, s, 0) \in Seq(Int) /\ Len(Taken(calls, s, 0)) = 0
  BY <1>1, TakenFacts
<1> QED BY <1>2, EmptySeq

(* The version on libunwind. *)
LEMMA LibunwindTakes ==
  ASSUME NEW calls \in Seq(Int), NEW max \in Nat, NEW skip \in Nat
  PROVE  GetStackTrace_libunwind(calls, max, skip, FALSE)
           = SubSeq(calls, skip + 2, Least(skip + 1 + max, Len(calls)))
<1> DEFINE n == Len(calls)
           s == skip + 1
           start == Taker(s, <<>>)
           Next1(w, i) == TakerNext(w, calls[i], max)
           F(t) == [left \in 0..n |-> IF left = n THEN start ELSE Next1(t[left + 1], n - left)]
           Eq(t) == t = F(t)
           st == CHOOSE t : Eq(t)
           W(j) == TakerState(calls, s, max, j)
           g == [left \in 0..n |-> W(n - left)]
<1>1. GetStackTrace_libunwind(calls, max, skip, FALSE) = st[0].result
  BY Zenon DEF GetStackTrace_libunwind, Rounds, Taker, TakerNext
<1>2. n \in Nat /\ s \in Nat
  OBVIOUS
<1>3. W(0) = start
  <2> DEFINE k == StopAt(n, s, max)
  <2>1. W(0) = Taker(OrNone(s - Least(0, k)), Taken(calls, s, Least(0, k)))
    BY Zenon DEF TakerState
  <2>2. k \in 0..n
    BY <1>2, StopFacts
  <2> HIDE DEF k, s, W
  <2>3. Least(0, k) = 0 /\ OrNone(s - 0) = s
    BY <1>2, <2>2 DEF Least, OrNone
  <2>4. Taken(calls, s, 0) = <<>>
    BY <1>2, TakenNone
  <2> QED BY <2>1, <2>3, <2>4
<1>4. ASSUME NEW j \in 0..(n - 1) PROVE W(j + 1) = Next1(W(j), j + 1)
  <2> HIDE DEF s
  <2>1. s \in Nat /\ j \in 0..(Len(calls) - 1)
    BY <1>2
  <2>2. TakerState(calls, s, max, j + 1) = TakerNext(TakerState(calls, s, max, j), calls[j + 1], max)
    BY <2>1, TakerRound
  <2> QED BY <2>2, Zenon
<1>5. W(n).result = SubSeq(calls, skip + 2, Least(skip + 1 + max, Len(calls)))
  <2> DEFINE k == StopAt(n, s, max)
             x == Taken(calls, s, k)
  <2>1. W(n) = Taker(OrNone(s - Least(n, k)), Taken(calls, s, Least(n, k)))
    BY Zenon DEF TakerState
  <2>2. k \in 0..n
    BY <1>2, StopFacts
  <2>3. x = SubSeq(calls, s + 1, Least(s + max, Len(calls)))
    <3> HIDE DEF s
    <3> QED BY <1>2, TakenAtStop
  <2>4. x = SubSeq(calls, skip + 2, Least(skip + 1 + max, Len(calls)))
    <3>1. s + 1 = skip + 2 /\ s + max = skip + 1 + max
      OBVIOUS
    <3> HIDE DEF s, x
    <3> QED BY <2>3, <3>1
  <2>5. Least(n, k) = k
    <3> HIDE DEF k, n
    <3> QED BY <1>2, <2>2 DEF Least
  <2> HIDE DEF k, W, s
  <2>6. W(n) = Taker(OrNone(s - k), x)
    BY <2>1, <2>5
  <2> HIDE DEF x
  <2>7. W(n).result = x
    BY <2>6, TakerFacts
  <2> QED BY <2>4, <2>7
<1> HIDE DEF W, Next1, start, n, s
<1>6. Eq(g)
  <2>1. ASSUME NEW left \in 0..n
        PROVE  W(n - left) = IF left = n THEN start ELSE Next1(g[left + 1], n - left)
    <3>1. CASE left = n
      BY <1>2, <1>3, <3>1
    <3>2. CASE left # n
      <4>1. n - (left + 1) \in 0..(n - 1) /\ (n - (left + 1)) + 1 = n - left /\ left + 1 \in 0..n
        BY <1>2, <3>2
      <4>2. W((n - (left + 1)) + 1) = Next1(W(n - (left + 1)), (n - (left + 1)) + 1)
        BY <1>4, <4>1
      <4>3. g[left + 1] = W(n - (left + 1))
        BY <4>1
      <4> HIDE DEF g
      <4> QED BY <3>2, <4>1, <4>2, <4>3
    <3> QED BY <3>1, <3>2
  <2>2. g = [left \in 0..n |-> IF left = n THEN start ELSE Next1(g[left + 1], n - left)]
    <3>1. g = [left \in 0..n |-> W(n - left)]
      OBVIOUS
    <3> HIDE DEF g
    <3> QED BY <2>1, <3>1
  <2> HIDE DEF g
  <2> QED BY <2>2
<1>7. Eq(st)
  <2> HIDE DEF Eq
  <2> QED BY <1>6
<1>8. \A left \in 0..n : st[left] = IF left = n THEN start ELSE Next1(st[left + 1], n - left)
  <2>1. st = [left \in 0..n |-> IF left = n THEN start ELSE Next1(st[left + 1], n - left)]
    BY <1>7, Zenon
  <2> HIDE DEF st
  <2> QED BY <2>1
<1> HIDE DEF st, Eq
<1> DEFINE S == {left \in 0..n : st[left] = W(n - left)}
<1>9. n \in S
  <2>1. st[n] = start /\ n - n = 0 /\ n \in 0..n
    BY <1>2, <1>8
  <2> QED BY <1>3, <2>1
<1>10. ASSUME NEW i \in 0..(n - 1), i + 1 \in S PROVE i \in S
  <2>1. i \in 0..n /\ i # n /\ n - (i + 1) \in 0..(n - 1) /\ (n - (i + 1)) + 1 = n - i
    BY <1>2
  <2>2. st[i] = Next1(st[i + 1], n - i)
    BY <1>8, <2>1
  <2>3. st[i + 1] = W(n - (i + 1))
    BY <1>10
  <2>4. W((n - (i + 1)) + 1) = Next1(W(n - (i + 1)), (n - (i + 1)) + 1)
    BY <1>4, <2>1
  <2> QED BY <2>1, <2>2, <2>3, <2>4
<1>11. st[0] = W(n)
  <2>1. 0..n \subseteq S
    <3> HIDE DEF S
    <3> QED BY <1>2, <1>9, <1>10, DownInduction
  <2>2. 0 \in 0..n /\ n - 0 = n
    BY <1>2
  <2> QED BY <2>1, <2>2
<1> QED BY <1>1, <1>5, <1>11

Trace(skip_count, result, ended) ==
  [skip_count |-> skip_count, result |-> result, ended |-> ended]

(* Setting the fields of _Unwind_Backtrace's argument, one by one.         *)
LEMMA TraceSkips ==
  ASSUME NEW b, NEW c, NEW e, NEW w, w = Trace(b, c, e), NEW d
  PROVE  [w EXCEPT !.skip_count = d] = Trace(d, c, e)
<1>1. [[skip_count |-> b, result |-> c, ended |-> e] EXCEPT !.skip_count = d]
        = [skip_count |-> d, result |-> c, ended |-> e]
  OBVIOUS
<1> QED BY <1>1 DEF Trace

(* The same for its result.                                                *)
LEMMA TraceTakes ==
  ASSUME NEW b, NEW c, NEW e, NEW w, w = Trace(b, c, e), NEW d
  PROVE  [w EXCEPT !.result = d] = Trace(b, d, e)
<1>1. [[skip_count |-> b, result |-> c, ended |-> e] EXCEPT !.result = d]
        = [skip_count |-> b, result |-> d, ended |-> e]
  OBVIOUS
<1> QED BY <1>1 DEF Trace

(* The same for its end.                                                   *)
LEMMA TraceEnds ==
  ASSUME NEW b, NEW c, NEW e, NEW w, w = Trace(b, c, e), NEW d
  PROVE  [w EXCEPT !.ended = d] = Trace(b, c, d)
<1>1. [[skip_count |-> b, result |-> c, ended |-> e] EXCEPT !.ended = d]
        = [skip_count |-> b, result |-> c, ended |-> d]
  OBVIOUS
<1> QED BY <1>1 DEF Trace

\* Where _Unwind_Backtrace stops: never before the first call.
BackAt(n, s, max) == IF max = 0 THEN Least(1, n) ELSE Least(n, s + max)

TraceState(calls, s, max, j) ==
  LET k == Least(j, BackAt(Len(calls), s, max))
  IN Trace(OrNone(s - k), Taken(calls, s, k), 0 < k /\ OrNone(k - s) = max)

TraceNext(targ, ip, max) == IF targ.ended THEN targ ELSE GetOneFrame(targ, ip, max)

(* The closed form of GetOneFrame's calls is right for one more call.      *)
LEMMA TraceRound ==
  ASSUME NEW calls \in Seq(Int), NEW s \in Nat \ {0}, NEW max \in Nat, NEW j \in 0..(Len(calls) - 1)
  PROVE  TraceState(calls, s, max, j + 1) = TraceNext(TraceState(calls, s, max, j), calls[j + 1], max)
<1> DEFINE n == Len(calls)
           k == BackAt(n, s, max)
           w == TraceState(calls, s, max, j)
           v == TraceState(calls, s, max, j + 1)
           full(i) == 0 < i /\ OrNone(i - s) = max
<1>1. n \in Nat /\ j \in 0..n /\ j + 1 \in 0..n /\ j < n
  OBVIOUS
<1>2. /\ k \in 0..n
      /\ \A i \in 0..n : i < k => ~full(i)
      /\ k < n => full(k)
  BY <1>1 DEF BackAt, OrNone, Least
<1>3. /\ w = Trace(OrNone(s - Least(j, k)), Taken(calls, s, Least(j, k)), full(Least(j, k)))
      /\ v = Trace(OrNone(s - Least(j + 1, k)), Taken(calls, s, Least(j + 1, k)), full(Least(j + 1, k)))
  BY Zenon DEF TraceState
<1>4. \A i \in 0..n : Len(Taken(calls, s, i)) = OrNone(i - s)
  BY TakenFacts
<1>5. Taken(calls, s, j + 1) = IF s > j THEN Taken(calls, s, j)
                               ELSE Append(Taken(calls, s, j), calls[j + 1])
  BY TakenNext
<1> HIDE DEF n, k, w, v
<1>6. CASE j >= k
  <2>1. Least(j, k) = k /\ Least(j + 1, k) = k /\ k < n
    BY <1>1, <1>2, <1>6 DEF Least
  <2>2. full(k) = TRUE
    <3> HIDE DEF full
    <3>1. full(k)
      BY <1>2, <2>1
    <3>2. full(k) \in BOOLEAN
      BY DEF full
    <3> QED BY <3>1, <3>2
  <2> HIDE DEF full
  <2>3. w = Trace(OrNone(s - k), Taken(calls, s, k), TRUE) /\ v = w
    BY <1>3, <2>1, <2>2, Zenon
  <2>4. w.ended
    BY <2>3 DEF Trace
  <2> QED BY <2>3, <2>4, Zenon DEF w, v, TraceNext
<1>7. CASE j < k
  <2>1. Least(j, k) = j /\ Least(j + 1, k) = j + 1
    BY <1>1, <1>2, <1>7 DEF Least
  <2>2. full(j) = FALSE
    <3>1. ~full(j)
      BY <1>1, <1>2, <1>7
    <3> QED BY <3>1
  <2>3. full(j + 1) = (OrNone(j + 1 - s) = max)
    BY <1>1
  <2> HIDE DEF full
  <2>4. w = Trace(OrNone(s - j), Taken(calls, s, j), FALSE)
    BY <1>3, <2>1, <2>2, Zenon
  <2>5. v = Trace(OrNone(s - (j + 1)), Taken(calls, s, j + 1), OrNone(j + 1 - s) = max)
    BY <1>3, <2>1, <2>3, Zenon
  <2>6. w.skip_count = OrNone(s - j) /\ w.result = Taken(calls, s, j) /\ w.ended = FALSE
    BY <2>4 DEF Trace
  <2> DEFINE x == IF w.skip_count > 0 THEN [w EXCEPT !.skip_count = w.skip_count - 1]
                  ELSE [w EXCEPT !.result = Append(w.result, calls[j + 1])]
             c == OrNone(s - (j + 1))
             t == Taken(calls, s, j + 1)
             no == FALSE
  <2>7. x = Trace(c, t, FALSE)
    <3>1. w = Trace(OrNone(s - j), Taken(calls, s, j), no)
      BY <2>4
    <3>2. CASE s > j
      <4> DEFINE d == w.skip_count - 1
      <4>1. w.skip_count > 0 /\ d = c
        BY <1>1, <2>6, <3>2 DEF OrNone
      <4>2. t = Taken(calls, s, j)
        BY <1>5, <3>2
      <4> HIDE DEF d, no, c, t
      <4>3. [w EXCEPT !.skip_count = d] = Trace(d, Taken(calls, s, j), no)
        BY ONLY <3>1, TraceSkips
      <4>4. x = [w EXCEPT !.skip_count = d]
        BY <4>1 DEF d
      <4> HIDE DEF x
      <4> QED BY <4>1, <4>2, <4>3, <4>4, Zenon DEF no
    <3>3. CASE ~(s > j)
      <4> DEFINE d == Append(w.result, calls[j + 1])
      <4>1. ~(w.skip_count > 0) /\ OrNone(s - j) = c
        BY <1>1, <2>6, <3>3 DEF OrNone
      <4>2. t = d
        BY <1>5, <2>6, <3>3
      <4> HIDE DEF d, no, c, t
      <4>3. [w EXCEPT !.result = d] = Trace(OrNone(s - j), d, no)
        BY ONLY <3>1, TraceTakes
      <4>4. x = [w EXCEPT !.result = d]
        BY <4>1 DEF d
      <4> HIDE DEF x
      <4> QED BY <4>1, <4>2, <4>3, <4>4, Zenon DEF no
    <3> QED BY <3>2, <3>3
  <2>8. GetOneFrame(w, calls[j + 1], max) = [x EXCEPT !.ended = Len(x.result) = max]
    BY Zenon DEF GetOneFrame
  <2>9. x.result = t
    <3> HIDE DEF x, t, c
    <3> QED BY <2>7 DEF Trace
  <2>10. (Len(x.result) = max) = (OrNone(j + 1 - s) = max)
    <3>1. Len(t) = OrNone(j + 1 - s)
      BY <1>1, <1>4
    <3> HIDE DEF x, t
    <3> QED BY <2>9, <3>1
  <2>11. [x EXCEPT !.ended = Len(x.result) = max] = Trace(c, t, OrNone(j + 1 - s) = max)
    <3> DEFINE d == Len(x.result) = max
    <3>1. x = Trace(c, t, no)
      BY <2>7
    <3>2. d = (OrNone(j + 1 - s) = max)
      BY <2>10
    <3> HIDE DEF x, c, t, d, no
    <3>3. [x EXCEPT !.ended = d] = Trace(c, t, d)
      BY ONLY <3>1, TraceEnds
    <3> QED BY <3>2, <3>3, Zenon DEF d
  <2>12. v = GetOneFrame(w, calls[j + 1], max)
    <3>1. v = Trace(c, t, OrNone(j + 1 - s) = max)
      BY <2>5
    <3> HIDE DEF x, c, t
    <3> QED BY <2>8, <2>11, <3>1, Zenon
  <2> HIDE DEF x, c, t
  <2> QED BY <2>6, <2>12, Zenon DEF w, v, TraceNext
<1> QED BY <1>1, <1>2, <1>6, <1>7

(* The version on _Unwind_Backtrace. *)
LEMMA UnwindTakes ==
  ASSUME NEW calls \in Seq(Int), NEW max \in Nat, NEW skip \in Nat
  PROVE  GetStackTrace_unwind(calls, max, skip, TRUE)
           = SubSeq(calls, skip + 2, Least(skip + 1 + max, Len(calls)))
<1> DEFINE n == Len(calls)
           s == skip + 1
           start == Trace(s, <<>>, FALSE)
           Next1(w, i) == TraceNext(w, calls[i], max)
           F(t) == [left \in 0..n |-> IF left = n THEN start ELSE Next1(t[left + 1], n - left)]
           Eq(t) == t = F(t)
           st == CHOOSE t : Eq(t)
           W(j) == TraceState(calls, s, max, j)
           g == [left \in 0..n |-> W(n - left)]
<1>1. GetStackTrace_unwind(calls, max, skip, TRUE) = st[0].result
  BY Zenon DEF GetStackTrace_unwind, Rounds, Trace, TraceNext
<1>2. n \in Nat /\ s \in Nat /\ s \in Nat \ {0}
  OBVIOUS
<1>3. W(0) = start
  <2> DEFINE k == BackAt(n, s, max)
  <2>1. W(0) = Trace(OrNone(s - Least(0, k)), Taken(calls, s, Least(0, k)),
                     0 < Least(0, k) /\ OrNone(Least(0, k) - s) = max)
    BY Zenon DEF TraceState
  <2>2. k \in 0..n
    BY <1>2 DEF BackAt, Least
  <2> HIDE DEF k, s, W
  <2>3. Least(0, k) = 0 /\ OrNone(s - 0) = s
    BY <1>2, <2>2 DEF Least, OrNone
  <2>4. Taken(calls, s, 0) = <<>>
    BY <1>2, TakenNone
  <2>5. (0 < 0 /\ OrNone(0 - s) = max) = FALSE
    OBVIOUS
  <2> QED BY <2>1, <2>3, <2>4, <2>5, Zenon
<1>4. ASSUME NEW j \in 0..(n - 1) PROVE W(j + 1) = Next1(W(j), j + 1)
  <2> HIDE DEF s
  <2>1. s \in Nat \ {0} /\ j \in 0..(Len(calls) - 1)
    BY <1>2
  <2>2. TraceState(calls, s, max, j + 1) = TraceNext(TraceState(calls, s, max, j), calls[j + 1], max)
    BY <2>1, TraceRound
  <2> QED BY <2>2, Zenon
<1>5. W(n).result = SubSeq(calls, skip + 2, Least(skip + 1 + max, Len(calls)))
  <2> DEFINE k == BackAt(n, s, max)
             x == Taken(calls, s, k)
             y == Taken(calls, s, StopAt(n, s, max))
  <2>1. W(n) = Trace(OrNone(s - Least(n, k)), Taken(calls, s, Least(n, k)),
                     0 < Least(n, k) /\ OrNone(Least(n, k) - s) = max)
    BY Zenon DEF TraceState
  <2>2. k \in 0..n /\ StopAt(n, s, max) \in 0..n
    BY <1>2 DEF BackAt, StopAt, Least
  <2>3. y = SubSeq(calls, s + 1, Least(s + max, Len(calls)))
    <3> HIDE DEF s
    <3> QED BY <1>2, TakenAtStop
  <2>4. y = SubSeq(calls, skip + 2, Least(skip + 1 + max, Len(calls)))
    <3>1. s + 1 = skip + 2 /\ s + max = skip + 1 + max
      OBVIOUS
    <3> HIDE DEF s, y
    <3> QED BY <2>3, <3>1
  <2>5. x = y
    <3>1. CASE max = 0
      <4>1. OrNone(k - s) = 0 /\ OrNone(StopAt(n, s, max) - s) = 0
        BY <1>2, <3>1 DEF BackAt, StopAt, Least, OrNone
      <4> HIDE DEF k, s
      <4>2. x \in Seq(Int) /\ Len(x) = OrNone(k - s)
        BY <1>2, <2>2, TakenFacts
      <4>3. y \in Seq(Int) /\ Len(y) = OrNone(StopAt(n, s, max) - s)
        BY <1>2, <2>2, TakenFacts
      <4> HIDE DEF x, y
      <4> QED BY <4>1, <4>2, <4>3, EmptySeq
    <3>2. CASE max # 0
      <4>1. k = StopAt(n, s, max)
        BY <3>2 DEF BackAt, StopAt
      <4> QED BY <4>1
    <3> QED BY <3>1, <3>2
  <2>6. Least(n, k) = k
    <3> HIDE DEF k, n
    <3> QED BY <1>2, <2>2 DEF Least
  <2> DEFINE e == 0 < k /\ OrNone(k - s) = max
  <2>7. W(n) = Trace(OrNone(s - k), x, e)
    BY <2>1, <2>6, Zenon
  <2> HIDE DEF k, W, s, x, e
  <2>8. W(n).result = x
    BY <2>7 DEF Trace
  <2> QED BY <2>4, <2>5, <2>8
<1> HIDE DEF W, Next1, start, n, s
<1>6. Eq(g)
  <2>1. ASSUME NEW left \in 0..n
        PROVE  W(n - left) = IF left = n THEN start ELSE Next1(g[left + 1], n - left)
    <3>1. CASE left = n
      BY <1>2, <1>3, <3>1
    <3>2. CASE left # n
      <4>1. n - (left + 1) \in 0..(n - 1) /\ (n - (left + 1)) + 1 = n - left /\ left + 1 \in 0..n
        BY <1>2, <3>2
      <4>2. W((n - (left + 1)) + 1) = Next1(W(n - (left + 1)), (n - (left + 1)) + 1)
        BY <1>4, <4>1
      <4>3. g[left + 1] = W(n - (left + 1))
        BY <4>1
      <4> HIDE DEF g
      <4> QED BY <3>2, <4>1, <4>2, <4>3
    <3> QED BY <3>1, <3>2
  <2>2. g = [left \in 0..n |-> IF left = n THEN start ELSE Next1(g[left + 1], n - left)]
    <3>1. g = [left \in 0..n |-> W(n - left)]
      OBVIOUS
    <3> HIDE DEF g
    <3> QED BY <2>1, <3>1
  <2> HIDE DEF g
  <2> QED BY <2>2
<1>7. Eq(st)
  <2> HIDE DEF Eq
  <2> QED BY <1>6
<1>8. \A left \in 0..n : st[left] = IF left = n THEN start ELSE Next1(st[left + 1], n - left)
  <2>1. st = [left \in 0..n |-> IF left = n THEN start ELSE Next1(st[left + 1], n - left)]
    BY <1>7, Zenon
  <2> HIDE DEF st
  <2> QED BY <2>1
<1> HIDE DEF st, Eq
<1> DEFINE S == {left \in 0..n : st[left] = W(n - left)}
<1>9. n \in S
  <2>1. st[n] = start /\ n - n = 0 /\ n \in 0..n
    BY <1>2, <1>8
  <2> QED BY <1>3, <2>1
<1>10. ASSUME NEW i \in 0..(n - 1), i + 1 \in S PROVE i \in S
  <2>1. i \in 0..n /\ i # n /\ n - (i + 1) \in 0..(n - 1) /\ (n - (i + 1)) + 1 = n - i
    BY <1>2
  <2>2. st[i] = Next1(st[i + 1], n - i)
    BY <1>8, <2>1
  <2>3. st[i + 1] = W(n - (i + 1))
    BY <1>10
  <2>4. W((n - (i + 1)) + 1) = Next1(W(n - (i + 1)), (n - (i + 1)) + 1)
    BY <1>4, <2>1
  <2> QED BY <2>1, <2>2, <2>3, <2>4
<1>11. st[0] = W(n)
  <2>1. 0..n \subseteq S
    <3> HIDE DEF S
    <3> QED BY <1>2, <1>9, <1>10, DownInduction
  <2>2. 0 \in 0..n /\ n - 0 = n
    BY <1>2
  <2> QED BY <2>1, <2>2
<1> QED BY <1>1, <1>5, <1>11

(* A sequence that agrees with a longer one on its length is a prefix of   *)
(* it.                                                                     *)
LEMMA PrefixByParts ==
  ASSUME NEW x \in Seq(Int), NEW y \in Seq(Int), Len(x) <= Len(y),
         \A i \in 1..Len(x) : x[i] = y[i]
  PROVE  IsPrefix(x, y)
<1> DEFINE n == Len(x)
           u == SubSeq(x, 1, n)
           v == SubSeq(y, 1, n)
<1>1. n \in Nat /\ Len(y) \in Nat
  OBVIOUS
<1>2. CASE n = 0
  <2>1. u = <<>> /\ v = <<>>
    BY <1>2
  <2> QED BY <2>1 DEF IsPrefix
<1>3. CASE n # 0
  <2>1. 1 \in 1..Len(x) /\ n \in 1..Len(x) /\ 1 \in 1..Len(y) /\ n \in 1..Len(y)
    BY <1>1, <1>3
  <2>2. u \in Seq(Int) /\ Len(u) = n /\ \A i \in 1..n : u[i] = x[i]
    BY <1>1, <2>1
  <2>3. v \in Seq(Int) /\ Len(v) = n /\ \A i \in 1..n : v[i] = y[i]
    BY <1>1, <2>1
  <2> HIDE DEF u, v
  <2>4. u = v
    BY <2>2, <2>3, SeqEqual
  <2> QED BY <2>4 DEF u, v, IsPrefix
<1> QED BY <1>2, <1>3

(* What every version should give, by its elements. *)
LEMMA CallersFacts ==
  ASSUME NEW calls \in Seq(Int), NEW max \in Nat, NEW s \in Nat
  PROVE  LET c == SubSeq(calls, s + 1, Least(s + max, Len(calls)))
         IN /\ c \in Seq(Int) /\ Len(c) = Least(max, OrNone(Len(calls) - s))
            /\ \A i \in 1..Least(max, OrNone(Len(calls) - s)) : c[i] = calls[s + i]
<1> DEFINE j == Least(s + max, Len(calls))
           n == Len(calls)
<1>1. n \in Nat /\ j \in 0..n /\ OrNone(j - s) = Least(max, OrNone(n - s))
  BY DEF Least, OrNone
<1> HIDE DEF j
<1>2. /\ Taken(calls, s, j) \in Seq(Int) /\ Len(Taken(calls, s, j)) = OrNone(j - s)
      /\ \A i \in 1..OrNone(j - s) : Taken(calls, s, j)[i] = calls[s + i]
  BY <1>1, TakenFacts
<1> QED BY <1>1, <1>2 DEF Taken, j

(* The generic version returns the first of the callers, and all of them   *)
(* where backtrace's array holds the whole stack.                          *)
LEMMA GenericTakes ==
  ASSUME NEW calls \in Seq(Int), NEW max \in Nat, NEW skip \in Nat
  PROVE  LET c == SubSeq(calls, skip + 2, Least(skip + 1 + max, Len(calls)))
             g == GetStackTrace_generic(calls, max, skip)
         IN IsPrefix(g, c) /\ (Len(calls) <= kStackLength => g = c)
<1> DEFINE s == skip + 1
           n == Len(calls)
           c == SubSeq(calls, s + 1, Least(s + max, n))
           k == Least(OrNone(Least(n, kStackLength) - s), max)
           h == Least(max, OrNone(n - s))
           g == [i \in 1..k |-> calls[i + s]]
<1>1. GetStackTrace_generic(calls, max, skip) = g
  BY Zenon DEF GetStackTrace_generic, Skipped
<1>2. SubSeq(calls, skip + 2, Least(skip + 1 + max, Len(calls))) = c
  <2>1. s + 1 = skip + 2
    OBVIOUS
  <2> HIDE DEF s
  <2> QED BY <2>1 DEF s
<1>3. s \in Nat /\ n \in Nat
  OBVIOUS
<1> HIDE DEF s
<1>4. c \in Seq(Int) /\ Len(c) = h /\ \A i \in 1..h : c[i] = calls[s + i]
  BY <1>3, CallersFacts
<1>5. k \in 0..h /\ (n <= kStackLength => k = h) /\ h \in Nat /\ h <= OrNone(n - s)
  BY <1>3, UnwindAssumption DEF Least, OrNone
<1>6. g \in Seq(Int) /\ Len(g) = k /\ \A i \in 1..k : g[i] = c[i]
  <2> HIDE DEF c, k, h
  <2>1. ASSUME NEW i \in 1..k PROVE i + s \in 1..n /\ calls[i + s] = c[i] /\ calls[i + s] \in Int
    <3>1. i \in 1..h /\ i + s = s + i
      BY <1>3, <1>5
    <3>2. i <= n - s
      BY <1>3, <1>5, <3>1 DEF OrNone
    <3>3. i + s \in 1..n
      BY <1>3, <3>1, <3>2
    <3> QED BY <1>4, <3>1, <3>3
  <2> QED BY <1>5, <2>1
<1> HIDE DEF c, g, k, h, n
<1>7. IsPrefix(g, c)
  <2>1. c \in Seq(Int) /\ g \in Seq(Int) /\ Len(g) <= Len(c)
    BY <1>4, <1>5, <1>6
  <2>2. \A i \in 1..Len(g) : g[i] = c[i]
    BY <1>6
  <2> QED BY ONLY <2>1, <2>2, PrefixByParts
<1>8. ASSUME n <= kStackLength PROVE g = c
  BY <1>4, <1>5, <1>6, <1>8, SeqEqual
<1> QED BY <1>1, <1>2, <1>7, <1>8, Zenon DEF n

(* The same for the Windows version.                                       *)
LEMMA WindowsTakes ==
  ASSUME NEW calls \in Seq(Int), NEW max \in Nat, NEW skip \in Nat
  PROVE  LET c == SubSeq(calls, skip + 2, Least(skip + 1 + max, Len(calls)))
             g == GetStackTrace_windows(calls, max, skip)
         IN IsPrefix(g, c) /\ (Len(calls) <= kStackLength => g = c)
<1> DEFINE s == skip + 1
           n == Len(calls)
           c == SubSeq(calls, s + 1, Least(s + max, n))
           k == Least(Least(max, kStackLength), OrNone(n - s))
           h == Least(max, OrNone(n - s))
           g == SubSeq(calls, s + 1, s + k)
<1>1. GetStackTrace_windows(calls, max, skip) = g
  BY Zenon DEF GetStackTrace_windows, Segment
<1>2. SubSeq(calls, skip + 2, Least(skip + 1 + max, Len(calls))) = c
  <2>1. s + 1 = skip + 2
    OBVIOUS
  <2> HIDE DEF s
  <2> QED BY <2>1 DEF s
<1>3. s \in Nat /\ n \in Nat /\ s > 0
  OBVIOUS
<1> HIDE DEF s
<1>4. c \in Seq(Int) /\ Len(c) = h /\ \A i \in 1..h : c[i] = calls[s + i]
  BY <1>3, CallersFacts
<1>5. k \in 0..h /\ (n <= kStackLength => k = h) /\ h \in Nat /\ h <= OrNone(n - s)
  BY <1>3, UnwindAssumption DEF Least, OrNone
<1>6. g \in Seq(Int) /\ Len(g) = k /\ \A i \in 1..k : g[i] = c[i]
  <2>1. CASE k = 0
    <3>1. g = <<>>
      BY <1>3, <2>1
    <3> HIDE DEF g, k
    <3> QED BY <2>1, <3>1
  <2>2. CASE k # 0
    <3> DEFINE j == s + k
    <3>1. j \in 0..n /\ OrNone(j - s) = k
      <4> HIDE DEF k, h
      <4> QED BY <1>3, <1>5, <2>2 DEF OrNone
    <3> HIDE DEF j
    <3>2. /\ Taken(calls, s, j) \in Seq(Int) /\ Len(Taken(calls, s, j)) = OrNone(j - s)
          /\ \A i \in 1..OrNone(j - s) : Taken(calls, s, j)[i] = calls[s + i]
      BY <1>3, <3>1, TakenFacts
    <3>3. g = Taken(calls, s, j)
      BY DEF Taken, j
    <3> HIDE DEF k, h, g, c
    <3>4. \A i \in 1..k : i \in 1..h
      BY <1>5
    <3> QED BY <1>4, <3>1, <3>2, <3>3, <3>4
  <2> QED BY <2>1, <2>2
<1> HIDE DEF c, g, k, h, n
<1>7. IsPrefix(g, c)
  <2>1. c \in Seq(Int) /\ g \in Seq(Int) /\ Len(g) <= Len(c)
    BY <1>4, <1>5, <1>6
  <2>2. \A i \in 1..Len(g) : g[i] = c[i]
    BY <1>6
  <2> QED BY ONLY <2>1, <2>2, PrefixByParts
<1>8. ASSUME n <= kStackLength PROVE g = c
  BY <1>4, <1>5, <1>6, <1>8, SeqEqual
<1> QED BY <1>1, <1>2, <1>7, <1>8, Zenon DEF n

(* Arithmetic of the addresses of a sound stack.                           *)
LEMMA Multiples ==
  ASSUME NEW w \in Nat \ {0}, NEW i \in Nat
  PROVE  (w * i) \div w = i /\ (w * i) % w = 0 /\ w * (i + 1) = w * i + w /\ w * i \in Nat
OBVIOUS

LEMMA MultiplesRise ==
  ASSUME NEW w \in Nat \ {0}, NEW i \in Nat, NEW n \in Nat, i <= n
  PROVE  w * i <= w * n
<1> DEFINE d == n - i
<1>1. d \in Nat /\ n = i + d
  OBVIOUS
<1> HIDE DEF d
<1>2. w * (i + d) = w * i + w * d /\ w * d >= 0 /\ w * i \in Nat
  BY <1>1
<1> QED BY <1>1, <1>2

(* A sound stack has as many frames as it has addresses.                   *)
LEMMA CountFrames ==
  ASSUME NEW w \in Nat \ {0}, NEW n \in Nat
  PROVE  Cardinality({w * i : i \in 1..n}) = n
<1> DEFINE T == {w * i : i \in 1..n}
           f == [i \in 1..n |-> w * i]
<1>1. f \in [1..n -> T] /\ \A i \in 1..n : f[i] = w * i
  OBVIOUS
<1>2. ASSUME NEW i \in 1..n, NEW j \in 1..n, f[i] = f[j] PROVE i = j
  <2>1. (w * i) \div w = i /\ (w * j) \div w = j
    BY Multiples
  <2>2. w * i = w * j
    BY <1>1, <1>2
  <2> QED BY <2>1, <2>2
<1>3. \A t \in T : \E i \in 1..n : f[i] = t
  BY <1>1
<1> HIDE DEF T, f
<1>4. f \in Bijection(1..n, T)
  BY <1>1, <1>2, <1>3 DEF Bijection, Injection, Surjection, IsInjective
<1>5. ExistsBijection(1..n, T)
  BY <1>4 DEF ExistsBijection
<1>6. IsFiniteSet(1..n) /\ Cardinality(1..n) = n
  BY FS_Interval
<1>7. Cardinality(T) = n
  BY <1>5, <1>6, FS_Bijection
<1> QED BY <1>7 DEF T

\* The frames of a sound stack of n, and its end.
SoundPath(n) == [i \in Nat |-> IF i < n THEN WordSize * (i + 1) ELSE 0]

(* The frames of a sound stack are a path of the walk, its return          *)
(* addresses those of the calls.                                           *)
LEMMA SoundWalk ==
  ASSUME NEW n \in Nat \ {0}, NEW offset \in Nat, depth \in Nat, n + offset <= depth,
         NEW arch \in Archs, ~TooHigh(arch, WordSize * n)
  PROVE  LET mem == Sound(n, offset)
         IN /\ WalkPath(mem, SoundPath(n), n, arch)
            /\ Cardinality(DOMAIN mem) = n /\ SoundPath(n)[0] = WordSize
            /\ ReturnsOn(mem, SoundPath(n), n) = [i \in 1..n |-> stack[i + offset]]
<1> DEFINE mem == Sound(n, offset)
           a == SoundPath(n)
           w == WordSize
<1>0. w \in Nat \ {0} /\ w <= LargestFrame
  BY UnwindAssumption, StackAssumption
<1>1. DOMAIN mem = {w * i : i \in 1..n}
  BY DEF Sound
<1>2. ASSUME NEW j \in 0..(n - 1)
      PROVE  /\ a[j] = w * (j + 1) /\ a[j] # 0 /\ a[j] \in Nat
             /\ mem[a[j]].ret = stack[j + 1 + offset] /\ mem[a[j]].ret \in Nat /\ mem[a[j]].ret # 0
             /\ mem[a[j]].link = IF j + 1 = n THEN 0 ELSE w * (j + 1) + w
  <2> DEFINE i == j + 1
  <2>1. i \in 1..n /\ j < n /\ j \in Nat
    OBVIOUS
  <2>2. a[j] = w * i
    BY <2>1 DEF SoundPath
  <2> HIDE DEF i, w, a
  <2>3. (w * i) \div w = i /\ w * i \in Nat /\ (w * n) \div w = n
    BY <1>0, <2>1, Multiples
  <2>4. w * i # 0
    BY <1>0, <2>1, <2>3
  <2>5. w * i = w * n <=> i = n
    BY <2>3
  <2>6. mem[w * i] = [link |-> IF w * i = w * n THEN 0 ELSE w * i + w,
                      ret |-> stack[((w * i) \div w) + offset]]
    BY <2>1 DEF Sound, w
  <2> HIDE DEF mem
  <2>7. mem[w * i].link = (IF i = n THEN 0 ELSE w * i + w) /\ mem[w * i].ret = stack[i + offset]
    BY <2>3, <2>5, <2>6
  <2>8. stack[i + offset] \in Nat /\ stack[i + offset] # 0
    <3>1. i + offset \in 1..depth
      BY <2>1
    <3> QED BY <3>1 DEF stack
  <2> QED BY <2>2, <2>3, <2>4, <2>7, <2>8 DEF i
<1>3. ASSUME NEW j \in 0..(n - 1) PROVE NextStackFrame(arch, mem, a[j]) = a[j + 1]
  <2> DEFINE x == w * (j + 1)
  <2>1. /\ a[j] = x /\ x \in Nat /\ x # 0
        /\ mem[a[j]].link = IF j + 1 = n THEN 0 ELSE x + w
    BY <1>2
  <2>2. CASE j + 1 = n
    <3>1. a[j + 1] = 0
      BY <2>2 DEF SoundPath
    <3> HIDE DEF x, mem, a, w
    <3>2. mem[a[j]].link = 0 /\ NotAbove(a[j], 0)
      BY <2>1, <2>2 DEF NotAbove
    <3> QED BY <3>1, <3>2 DEF NextStackFrame
  <2>3. CASE j + 1 # n
    <3>1. j + 1 \in 0..(n - 1)
      BY <2>3
    <3>2. a[j + 1] = w * (j + 1 + 1)
      <4> DEFINE i == j + 1
      <4>1. i \in 0..(n - 1)
        BY <3>1
      <4> HIDE DEF i, a, w, mem
      <4>2. a[i] = w * (i + 1)
        BY <1>2, <4>1
      <4> QED BY <4>2 DEF i
    <3>3. w * (j + 1 + 1) = x + w /\ (w * (j + 1 + 1)) % w = 0
      <4> DEFINE i == j + 1
                 k == i + 1
      <4>1. i \in Nat /\ k \in Nat
        OBVIOUS
      <4> HIDE DEF i, w, k
      <4>2. w * (i + 1) = w * i + w /\ (w * k) % w = 0
        BY <1>0, <4>1, Multiples
      <4> QED BY <4>2 DEF i, k
    <3> HIDE DEF x, mem, a
    <3>4. mem[a[j]].link = x + w /\ a[j + 1] = x + w /\ (x + w) % w = 0
      BY <2>1, <2>3, <3>2, <3>3
    <3>5. ~NotAbove(x, x + w) /\ ~((x + w) - x > LargestFrame)
      BY <1>0, <2>1, UnwindAssumption DEF NotAbove
    <3>6. ~TooHigh(arch, x + w)
      <4> DEFINE i == j + 1 + 1
      <4>1. i \in Nat /\ i <= n
        BY <2>3
      <4> HIDE DEF i, w
      <4>2. w * i <= w * n /\ w * i \in Nat /\ w * n \in Nat
        BY <1>0, <4>1, MultiplesRise, Multiples
      <4>3. w * i = x + w
        BY <3>3 DEF i
      <4>4. ~TooHigh(arch, w * n)
        BY DEF w
      <4> QED BY <4>2, <4>3, <4>4, UnwindAssumption DEF TooHigh
    <3> QED BY <2>1, <3>4, <3>5, <3>6 DEF NextStackFrame
  <2> QED BY <2>2, <2>3
<1>4. a[n] = 0
  BY DEF SoundPath
<1>5. WalkPath(mem, a, n, arch)
  <2> HIDE DEF mem, a
  <2>1. ASSUME NEW j \in 0..(n - 1)
        PROVE /\ a[j] # 0 /\ mem[a[j]].ret \in Int
              /\ ~(ZeroEnds(arch) /\ mem[a[j]].ret = 0)
              /\ NextStackFrame(arch, mem, a[j]) = a[j + 1]
    BY <1>2, <1>3
  <2> QED BY <1>4, <2>1 DEF WalkPath
<1>6. Cardinality(DOMAIN mem) = n
  <2> HIDE DEF mem, w
  <2> QED BY <1>0, <1>1, CountFrames
<1>7. a[0] = WordSize
  BY <1>0 DEF SoundPath
<1>8. ReturnsOn(mem, a, n) = [i \in 1..n |-> stack[i + offset]]
  <2> HIDE DEF mem, a
  <2>1. ASSUME NEW i \in 1..n PROVE mem[a[i - 1]].ret = stack[i + offset]
    <3> DEFINE j == i - 1
    <3>1. j \in 0..(n - 1) /\ j + 1 = i
      OBVIOUS
    <3> HIDE DEF j
    <3>2. mem[a[j]].ret = stack[j + 1 + offset]
      BY <1>2, <3>1
    <3> QED BY <3>1, <3>2 DEF j
  <2> QED BY <2>1 DEF ReturnsOn
<1> QED BY <1>5, <1>6, <1>7, <1>8

\* The stack as n frames see it that begin behind the first offset calls.
Behind(n, offset) == n \in Nat \ {0} /\ offset \in Nat /\ depth \in Nat /\ n + offset = depth

(* Whichever version walks a sound stack of n frames. *)
LEMMA SoundTakes ==
  ASSUME NEW n, NEW offset, Behind(n, offset),
         NEW arch \in Archs, ~TooHigh(arch, WordSize * n), NEW max \in Nat, NEW s \in Nat
  PROVE  Walk(Sound(n, offset), WordSize, max, s, arch).result
           = SubSeq(stack, s + offset + 1, Least(s + offset + max, depth))
<1> DEFINE mem == Sound(n, offset)
           a == SoundPath(n)
           r == ReturnsOn(mem, a, n)
           t == s + offset
           x == SubSeq(r, s + 1, Least(s + max, Len(r)))
           y == SubSeq(stack, t + 1, Least(t + max, Len(stack)))
<1>0. n \in Nat \ {0} /\ offset \in Nat /\ depth \in Nat /\ n + offset = depth
  BY DEF Behind
<1>1. /\ WalkPath(mem, a, n, arch) /\ Cardinality(DOMAIN mem) = n /\ a[0] = WordSize
      /\ r = [i \in 1..n |-> stack[i + offset]]
  BY <1>0, SoundWalk
<1>2. stack \in Seq(Int) /\ Len(stack) = depth
  BY <1>0 DEF stack
<1>3. r \in Seq(Int) /\ Len(r) = n /\ \A i \in 1..n : r[i] = stack[i + offset]
  <2>1. \A i \in 1..n : i + offset \in 1..depth
    BY <1>0
  <2>2. \A i \in 1..n : stack[i + offset] \in Int
    BY <1>2, <2>1
  <2> HIDE DEF r
  <2> QED BY <1>0, <1>1, <2>2
<1> HIDE DEF mem, a
<1>4. Walk(mem, a[0], max, s, arch).result = Taken(r, s, StopAt(n, s, max))
  <2>1. n <= Cardinality(DOMAIN mem) /\ Cardinality(DOMAIN mem) \in Nat
    BY <1>0, <1>1
  <2> HIDE DEF r
  <2>2. WalkPath(mem, a, n, arch)
    BY <1>0, <1>1
  <2>3. Walk(mem, a[0], max, s, arch).result = Taken(ReturnsOn(mem, a, n), s, StopAt(n, s, max))
    BY <2>1, <2>2, WalkAlong
  <2> QED BY <2>3, Zenon DEF r
<1> HIDE DEF r
<1>5. Taken(r, s, StopAt(n, s, max)) = x
  BY <1>3, TakenAtStop
<1>6. /\ x \in Seq(Int) /\ Len(x) = Least(max, OrNone(n - s))
      /\ \A i \in 1..Least(max, OrNone(n - s)) : x[i] = r[s + i]
  <2>1. /\ x \in Seq(Int) /\ Len(x) = Least(max, OrNone(Len(r) - s))
        /\ \A i \in 1..Least(max, OrNone(Len(r) - s)) : x[i] = r[s + i]
    BY <1>3, CallersFacts
  <2> HIDE DEF x
  <2> QED BY <1>3, <2>1
<1>7. /\ y \in Seq(Int) /\ Len(y) = Least(max, OrNone(depth - t))
      /\ \A i \in 1..Least(max, OrNone(depth - t)) : y[i] = stack[t + i]
  <2>0. t \in Nat
    BY <1>0
  <2> HIDE DEF t
  <2>1. /\ y \in Seq(Int) /\ Len(y) = Least(max, OrNone(Len(stack) - t))
        /\ \A i \in 1..Least(max, OrNone(Len(stack) - t)) : y[i] = stack[t + i]
    BY <1>2, <2>0, CallersFacts
  <2> HIDE DEF y
  <2> QED BY <1>2, <2>1
<1>8. x = y
  <2> HIDE DEF x, y
  <2>1. depth - t = n - s
    BY <1>0
  <2>2. ASSUME NEW i \in 1..Least(max, OrNone(n - s)) PROVE x[i] = y[i]
    <3>1. s + i \in 1..n /\ t + i = s + i + offset
      BY <1>0 DEF Least, OrNone
    <3>2. r[s + i] = stack[s + i + offset]
      <4> DEFINE k == s + i
      <4>1. k \in 1..n
        BY <3>1
      <4> HIDE DEF k
      <4>2. r[k] = stack[k + offset]
        BY <1>3, <4>1
      <4> QED BY <4>2 DEF k
    <3> HIDE DEF t
    <3> QED BY <1>0, <1>6, <1>7, <2>1, <3>1, <3>2
  <2> HIDE DEF t
  <2> QED BY <1>0, <1>6, <1>7, <2>1, <2>2, SeqEqual
<1>9. y = SubSeq(stack, s + offset + 1, Least(s + offset + max, depth))
  BY <1>0, <1>2
<1> QED BY <1>1, <1>4, <1>5, <1>8, <1>9, Zenon DEF mem

StackType == depth \in Nat

(* BuildsAgree for a stack of any depth: each of the six versions returns  *)
(* the same piece of it, the last two a prefix.                            *)
LEMMA BuildsAgreeAlways == StackType => BuildsAgree
<1> SUFFICES ASSUME depth \in Nat, depth > 1,
                    NEW skip_count \in 0..MaxSkip, NEW max_depth \in 0..MaxDepth
             PROVE  LET callers == SubSeq(stack, skip_count + 2, Least(skip_count + 1 + max_depth, depth))
                        generic == GetStackTrace_generic(stack, max_depth, skip_count)
                        windows == GetStackTrace_windows(stack, max_depth, skip_count)
                    IN /\ \A arch \in X86Builds :
                            ~TooHigh(arch, WordSize * (depth - 1)) =>
                              GetStackTrace_x86(arch, Sound(depth - 1, 1), WordSize, max_depth,
                                                skip_count).result = callers
                       /\ GetStackTrace_powerpc(Sound(depth, 0), WordSize, max_depth, skip_count).result = callers
                       /\ GetStackTrace_libunwind(stack, max_depth, skip_count, FALSE) = callers
                       /\ GetStackTrace_unwind(stack, max_depth, skip_count, TRUE) = callers
                       /\ IsPrefix(generic, callers) /\ IsPrefix(windows, callers)
                       /\ depth <= kStackLength => generic = callers /\ windows = callers
  BY DEF StackType, BuildsAgree
<1> DEFINE callers == SubSeq(stack, skip_count + 2, Least(skip_count + 1 + max_depth, depth))
<1>1. skip_count \in Nat /\ max_depth \in Nat
  BY StackAssumption
<1>2. stack \in Seq(Int) /\ Len(stack) = depth
  BY DEF stack
<1>3. ASSUME NEW arch \in X86Builds, ~TooHigh(arch, WordSize * (depth - 1))
      PROVE  GetStackTrace_x86(arch, Sound(depth - 1, 1), WordSize, max_depth, skip_count).result
               = callers
  <2> DEFINE n == depth - 1
             s == skip_count
             one == 1
  <2>1. s \in Nat /\ Behind(n, one)
    BY <1>1 DEF Behind
  <2>0. arch \in Archs /\ ~TooHigh(arch, WordSize * n)
    BY <1>3 DEF X86Builds
  <2>2. s + one + 1 = skip_count + 2 /\ s + one + max_depth = skip_count + 1 + max_depth
    BY <1>1
  <2> HIDE DEF n, s, one
  <2>3. Walk(Sound(n, one), WordSize, max_depth, s, arch).result
          = SubSeq(stack, s + one + 1, Least(s + one + max_depth, depth))
    BY <1>1, <2>0, <2>1, SoundTakes
  <2>4. one = 1
    BY DEF one
  <2> QED BY <2>2, <2>3, <2>4, Zenon DEF GetStackTrace_x86, n, s
<1>4. GetStackTrace_powerpc(Sound(depth, 0), WordSize, max_depth, skip_count).result = callers
  <2> DEFINE s == skip_count + 1
             none == 0
             ppc == "powerpc"
  <2>0. ppc \in Archs /\ ~TooHigh(ppc, WordSize * depth)
    BY DEF Archs, TooHigh
  <2>1. s \in Nat /\ Behind(depth, none)
    BY <1>1 DEF Behind
  <2>2. s + none + 1 = skip_count + 2 /\ s + none + max_depth = skip_count + 1 + max_depth
    BY <1>1
  <2> HIDE DEF s, none, ppc
  <2>3. Walk(Sound(depth, none), WordSize, max_depth, s, ppc).result
          = SubSeq(stack, s + none + 1, Least(s + none + max_depth, depth))
    BY <1>1, <2>0, <2>1, SoundTakes
  <2> QED BY <2>2, <2>3, Zenon DEF GetStackTrace_powerpc, s, none, ppc
<1>5. GetStackTrace_libunwind(stack, max_depth, skip_count, FALSE) = callers
  BY <1>1, <1>2, LibunwindTakes
<1>6. GetStackTrace_unwind(stack, max_depth, skip_count, TRUE) = callers
  BY <1>1, <1>2, UnwindTakes
<1>7. /\ IsPrefix(GetStackTrace_generic(stack, max_depth, skip_count), callers)
      /\ depth <= kStackLength => GetStackTrace_generic(stack, max_depth, skip_count) = callers
  BY <1>1, <1>2, GenericTakes
<1>8. /\ IsPrefix(GetStackTrace_windows(stack, max_depth, skip_count), callers)
      /\ depth <= kStackLength => GetStackTrace_windows(stack, max_depth, skip_count) = callers
  BY <1>1, <1>2, WindowsTakes
<1> HIDE DEF callers
<1> QED BY <1>3, <1>4, <1>5, <1>6, <1>7, <1>8 DEF callers

(* BuildsAgree for every depth and all bounds on skip_count and max_depth. *)
THEOREM TracesAgree == DumpInit /\ [][DumpNext]_dumpVars => []BuildsAgree
<1>1. DumpInit => StackType
  <2>1. DumpInit => depth = 0
    BY Zenon DEF DumpInit
  <2> QED BY <2>1 DEF StackType
<1>2. StackType /\ [DumpNext]_dumpVars => StackType'
  <2>1. [DumpNext]_dumpVars => depth' = depth \/ depth' = depth + 1
    BY Zenon DEF DumpNext, GrowMemory, GrowStack, GrowSymbol, dumpVars
  <2> QED BY <2>1 DEF StackType
<1>3. StackType => BuildsAgree
  BY BuildsAgreeAlways
<1> QED BY <1>1, <1>2, <1>3, PTL

FrameCount == Len(FrameAddresses)

(* The frames are at finitely many addresses, in rising order.             *)
LEMMA AddressFacts ==
  /\ FrameCount \in Nat \ {0} /\ DOMAIN FrameAddresses = 1..FrameCount
  /\ \A i \in 1..FrameCount : FrameAddresses[i] \in Nat \ {0} /\ FrameAddresses[i] \in Addresses
  /\ \A i, j \in 1..FrameCount : i < j => FrameAddresses[i] < FrameAddresses[j]
  /\ \A a \in Addresses : \E i \in 1..FrameCount : FrameAddresses[i] = a
  /\ Addresses \subseteq Nat \ {0} /\ IsFiniteSet(Addresses) /\ Cardinality(Addresses) \in Nat
<1>1. FrameAddresses \in Seq(Nat \ {0}) /\ FrameAddresses # <<>>
  BY FramesAssumption
<1>2. FrameCount \in Nat \ {0} /\ DOMAIN FrameAddresses = 1..FrameCount
  BY <1>1, EmptySeq DEF FrameCount
<1>3. \A i, j \in 1..FrameCount : i < j => FrameAddresses[i] < FrameAddresses[j]
  BY <1>2, FramesAssumption
<1>4. Addresses = {FrameAddresses[i] : i \in 1..FrameCount}
  BY <1>2 DEF Addresses, Range
<1>5. \A i \in 1..FrameCount : FrameAddresses[i] \in Nat \ {0}
  BY <1>1 DEF FrameCount
<1>6. IsFiniteSet(Addresses)
  <2>1. FrameAddresses \in Surjection(1..FrameCount, Addresses)
    BY <1>1, <1>2, <1>4 DEF Surjection
  <2>2. IsFiniteSet(1..FrameCount)
    BY <1>2, FS_Interval
  <2> QED BY <2>1, <2>2, FS_Surjection
<1>7. Cardinality(Addresses) \in Nat
  BY <1>6, FS_CardinalityType
<1> QED BY <1>2, <1>3, <1>4, <1>5, <1>6, <1>7

FramesType == frames \in Seq([link : Links, ret : Nat])

FullMemory == FramesType /\ Len(frames) = FrameCount

(* With a word for each address, all of memory holds links and return      *)
(* addresses.                                                              *)
LEMMA MemoryFacts ==
  ASSUME FullMemory
  PROVE  /\ DOMAIN memory = Addresses
         /\ \A a \in Addresses : memory[a].link \in Links /\ memory[a].link \in Nat /\ memory[a].ret \in Nat
<1>1. DOMAIN memory = Addresses
  BY DEF memory
<1>2. ASSUME NEW a \in Addresses
      PROVE  memory[a].link \in Links /\ memory[a].link \in Nat /\ memory[a].ret \in Nat
  <2> DEFINE i == CHOOSE i \in DOMAIN frames : FrameAddresses[i] = a
  <2>1. DOMAIN frames = 1..FrameCount
    BY DEF FullMemory, FramesType
  <2>2. i \in DOMAIN frames
    <3>1. \E k \in DOMAIN frames : FrameAddresses[k] = a
      BY <2>1, AddressFacts
    <3> QED BY <3>1
  <2>3. memory[a] = frames[i]
    BY DEF memory
  <2> HIDE DEF i
  <2>4. frames[i] \in [link : Links, ret : Nat]
    <3> DEFINE R == [link : Links, ret : Nat]
    <3>1. frames \in Seq(R) /\ i \in 1..Len(frames)
      BY <2>1, <2>2 DEF FullMemory, FramesType
    <3> HIDE DEF R
    <3>2. frames[i] \in R
      BY <3>1, ElementOfSeq
    <3> QED BY <3>2 DEF R
  <2>5. Links \subseteq Nat
    BY FramesAssumption
  <2> QED BY <2>3, <2>4, <2>5
<1> QED BY <1>1, <1>2

\* The code's test of the next frame is Plausible.
LEMMA NextIsPlausible ==
  ASSUME FullMemory, NEW arch \in Archs, NEW a \in Addresses
  PROVE  /\ NextStackFrame(arch, memory, a) = IF Plausible(arch, a, memory[a].link) THEN memory[a].link ELSE 0
         /\ Plausible(arch, a, memory[a].link) => memory[a].link \in Addresses /\ memory[a].link # 0
<1>1. memory[a].link \in Links /\ memory[a].link \in Nat /\ a \in Nat
  BY MemoryFacts, AddressFacts
<1>2. Plausible(arch, a, memory[a].link) => memory[a].link \in Addresses
  BY <1>1, FramesAssumption
<1>3. memory[a].link \in Addresses => memory[a].link # 0
  BY AddressFacts
<1> DEFINE l == memory[a].link
<1> HIDE DEF l
<1>4. NextStackFrame(arch, memory, a)
        = IF \/ NotAbove(a, l) \/ l - a > LargestFrame \/ l % WordSize # 0
             \/ TooHigh(arch, l)
          THEN 0 ELSE l
  BY Zenon DEF NextStackFrame, l
<1>5. Plausible(arch, a, l)
        <=> ~(\/ NotAbove(a, l) \/ l - a > LargestFrame \/ l % WordSize # 0
              \/ TooHigh(arch, l))
  <2>1. l \in Nat /\ a \in Nat
    BY <1>1 DEF l
  <2> QED BY <2>1, UnwindAssumption DEF Plausible, NotAbove, TooHigh
<1>6. NextStackFrame(arch, memory, a) = IF Plausible(arch, a, l) THEN l ELSE 0
  BY <1>4, <1>5
<1> QED BY <1>2, <1>3, <1>6 DEF l

-----------------------------------------------------------------------------
(* The path of a walk *)

PathFrom(a, m, start, arch) ==
  /\ WalkPath(memory, a, m, arch) /\ a[0] = start
  /\ \A j \in 0..m : a[j] = 0 \/ a[j] \in Addresses

HasPath(start, arch) == \E a, m : PathFrom(a, m, start, arch)

(* A walk that stops at once has a path.                                   *)
LEMMA PathEnds ==
  ASSUME NEW arch \in Archs, NEW start, start = 0 \/ start \in Addresses,
         start = 0 \/ (ZeroEnds(arch) /\ memory[start].ret = 0)
  PROVE  HasPath(start, arch)
<1> DEFINE a == [k \in Nat |-> start]
<1>1. a[0] = start /\ \A j \in 0..0 : a[j] = start
  OBVIOUS
<1>2. \A j \in 0..(0 - 1) : FALSE
  OBVIOUS
<1> HIDE DEF a
<1>3. WalkPath(memory, a, 0, arch)
  BY <1>1, <1>2 DEF WalkPath
<1>4. PathFrom(a, 0, start, arch)
  BY <1>1, <1>3 DEF PathFrom
<1> QED BY <1>4 DEF HasPath

(* A walk that goes on from a frame has a path if the rest of it has.      *)
LEMMA PathExtends ==
  ASSUME NEW arch \in Archs, FullMemory, NEW start \in Addresses,
         ~(ZeroEnds(arch) /\ memory[start].ret = 0), HasPath(NextStackFrame(arch, memory, start), arch)
  PROVE  HasPath(start, arch)
<1>1. PICK b, n : PathFrom(b, n, NextStackFrame(arch, memory, start), arch)
  BY DEF HasPath
<1> DEFINE m == n + 1
           a == [k \in Nat |-> IF k = 0 THEN start ELSE b[k - 1]]
<1>2. n \in Nat /\ m \in Nat
  BY <1>1 DEF PathFrom, WalkPath
<1>3. a[0] = start /\ \A k \in Nat : a[k + 1] = b[k]
  OBVIOUS
<1>4. a[1] = NextStackFrame(arch, memory, start)
  <2>1. a[1] = b[0]
    OBVIOUS
  <2> HIDE DEF a
  <2> QED BY <1>1, <2>1 DEF PathFrom
<1> HIDE DEF a
<1>5. ASSUME NEW j \in 0..(m - 1)
      PROVE /\ a[j] # 0 /\ memory[a[j]].ret \in Int
            /\ ~(ZeroEnds(arch) /\ memory[a[j]].ret = 0)
            /\ NextStackFrame(arch, memory, a[j]) = a[j + 1]
  <2>1. CASE j = 0
    <3>1. start # 0 /\ memory[start].ret \in Int
      BY AddressFacts, MemoryFacts
    <3>2. a[j] = start /\ a[j + 1] = a[1]
      BY <1>3, <2>1
    <3> QED BY <1>4, <3>1, <3>2
  <2>2. CASE j # 0
    <3> DEFINE k == j - 1
    <3>1. k \in 0..(n - 1) /\ k \in Nat /\ k + 1 \in Nat /\ j = k + 1
      BY <1>2, <2>2
    <3> HIDE DEF k, m
    <3>2. /\ b[k] # 0 /\ memory[b[k]].ret \in Int /\ ~(ZeroEnds(arch) /\ memory[b[k]].ret = 0)
          /\ NextStackFrame(arch, memory, b[k]) = b[k + 1]
      BY <1>1, <3>1, Zenon DEF PathFrom, WalkPath
    <3>3. a[j] = b[k] /\ a[j + 1] = b[k + 1]
      BY <1>3, <3>1
    <3> QED BY <3>2, <3>3
  <2> QED BY <2>1, <2>2
<1>6. a[m] = 0 \/ (ZeroEnds(arch) /\ memory[a[m]].ret = 0)
  <2>1. a[m] = b[n]
    BY <1>2, <1>3
  <2> QED BY <1>1, <2>1, Zenon DEF PathFrom, WalkPath
<1>7. ASSUME NEW j \in 0..m PROVE a[j] = 0 \/ a[j] \in Addresses
  <2>1. CASE j = 0
    BY <1>3, <2>1
  <2>2. CASE j # 0
    <3> DEFINE k == j - 1
    <3>1. k \in 0..n /\ k \in Nat /\ j = k + 1
      BY <1>2, <2>2
    <3> HIDE DEF k, m
    <3>2. b[k] = 0 \/ b[k] \in Addresses
      BY <1>1, <3>1 DEF PathFrom
    <3> QED BY <1>3, <3>1, <3>2
  <2> QED BY <2>1, <2>2
<1> HIDE DEF m
<1>8. PathFrom(a, m, start, arch)
  BY <1>2, <1>3, <1>5, <1>6, <1>7 DEF PathFrom, WalkPath
<1> QED BY <1>8 DEF HasPath

(* Since every frame on it lies above the one before, there is a path from *)
(* every frame.                                                            *)
LEMMA PathExists ==
  ASSUME FullMemory, NEW arch \in Archs
  PROVE  HasPath(FrameAddresses[1], arch)
<1> DEFINE n == FrameCount
           T == {i \in 0..n : \A k \in (i + 1)..n : HasPath(FrameAddresses[k], arch)}
<1>1. n \in Nat \ {0}
  BY AddressFacts
<1>2. n \in T
  BY <1>1
<1>3. ASSUME NEW i \in 0..(n - 1), i + 1 \in T PROVE i \in T
  <2> DEFINE s == FrameAddresses[i + 1]
             t == NextStackFrame(arch, memory, s)
  <2>1. i \in 0..n /\ i + 1 \in 1..n
    BY <1>1
  <2>2. s \in Addresses /\ s \in Nat
    BY <2>1, AddressFacts
  <2>3. HasPath(s, arch)
    <3> HIDE DEF s
    <3>1. CASE ZeroEnds(arch) /\ memory[s].ret = 0
      BY <2>2, <3>1, PathEnds
    <3>2. CASE ~(ZeroEnds(arch) /\ memory[s].ret = 0)
      <4>1. HasPath(t, arch)
        <5>1. CASE t = 0
          BY <5>1, PathEnds
        <5>2. CASE t # 0
          <6>1. t \in Addresses /\ s < t
            BY <2>2, <5>2, NextIsPlausible DEF Plausible
          <6>2. PICK k \in 1..n : FrameAddresses[k] = t
            BY <6>1, AddressFacts
          <6>3. k > i + 1
            <7>1. FrameAddresses[i + 1] < FrameAddresses[k]
              BY <6>1, <6>2 DEF s
            <7>2. FrameAddresses[k] \in Nat /\ FrameAddresses[i + 1] \in Nat
              BY <2>1, AddressFacts
            <7>3. k < i + 1 => FrameAddresses[k] < FrameAddresses[i + 1]
              BY <2>1, AddressFacts
            <7>4. ~(k < i + 1) /\ k # i + 1
              <8> HIDE DEF t
              <8> QED BY <7>1, <7>2, <7>3
            <7> QED BY <2>1, <7>4
          <6>4. k \in ((i + 1) + 1)..n
            BY <2>1, <6>3
          <6>5. HasPath(FrameAddresses[k], arch)
            BY <1>3, <6>4
          <6> QED BY <6>2, <6>5
        <5> QED BY <5>1, <5>2
      <4> QED BY <2>2, <3>2, <4>1, PathExtends
    <3> QED BY <3>1, <3>2
  <2>4. ASSUME NEW k \in (i + 1)..n PROVE HasPath(FrameAddresses[k], arch)
    <3>1. CASE k = i + 1
      BY <2>3, <3>1
    <3>2. CASE k # i + 1
      <4>1. k \in ((i + 1) + 1)..n
        BY <3>2
      <4> QED BY <1>3, <4>1
    <3> QED BY <3>1, <3>2
  <2> QED BY <2>1, <2>4
<1>4. 0..n \subseteq T
  <2> HIDE DEF T, n
  <2> QED BY <1>1, <1>2, <1>3, DownInduction
<1>5. 0 \in T /\ 1 \in (0 + 1)..n
  BY <1>1, <1>4
<1> QED BY <1>5

(* A path goes up all the way. *)
LEMMA PathRises ==
  ASSUME FullMemory, NEW arch \in Archs, NEW start, NEW a, NEW m,
         PathFrom(a, m, start, arch)
  PROVE  /\ m \in Nat /\ (a[m] = 0 \/ a[m] \in Addresses)
         /\ \A j \in 0..(m - 1) :
              /\ a[j] \in Addresses /\ ~(ZeroEnds(arch) /\ memory[a[j]].ret = 0)
              /\ IF a[j + 1] = 0 THEN ~Plausible(arch, a[j], memory[a[j]].link)
                 ELSE /\ Plausible(arch, a[j], memory[a[j]].link)
                      /\ memory[a[j]].link = a[j + 1] /\ a[j] < a[j + 1]
         /\ \A j \in 0..(m - 1) : \A i \in 0..(m - 1) : i < j => a[i] < a[j]
<1>1. m \in Nat /\ \A j \in 0..m : a[j] = 0 \/ a[j] \in Addresses
  BY Zenon DEF PathFrom, WalkPath
<1>2. ASSUME NEW j \in 0..(m - 1)
      PROVE /\ a[j] \in Addresses /\ ~(ZeroEnds(arch) /\ memory[a[j]].ret = 0)
            /\ IF a[j + 1] = 0 THEN ~Plausible(arch, a[j], memory[a[j]].link)
               ELSE /\ Plausible(arch, a[j], memory[a[j]].link)
                    /\ memory[a[j]].link = a[j + 1] /\ a[j] < a[j + 1]
  <2>1. a[j] # 0 /\ ~(ZeroEnds(arch) /\ memory[a[j]].ret = 0) /\ NextStackFrame(arch, memory, a[j]) = a[j + 1]
    BY Zenon DEF PathFrom, WalkPath
  <2>2. a[j] \in Addresses
    <3>1. j \in 0..m
      BY <1>1
    <3> QED BY <1>1, <2>1, <3>1
  <2> DEFINE s == a[j]
             l == memory[s].link
  <2>3. /\ NextStackFrame(arch, memory, s) = IF Plausible(arch, s, l) THEN l ELSE 0
        /\ Plausible(arch, s, l) => l \in Addresses /\ l # 0
    BY <2>2, NextIsPlausible
  <2>4. Plausible(arch, s, l) => s < l
    BY DEF Plausible
  <2> HIDE DEF l
  <2>5. NextStackFrame(arch, memory, s) = a[j + 1]
    BY <2>1
  <2> HIDE DEF s
  <2>6. IF a[j + 1] = 0 THEN ~Plausible(arch, s, l)
        ELSE Plausible(arch, s, l) /\ l = a[j + 1] /\ s < a[j + 1]
    BY <2>3, <2>4, <2>5
  <2> QED BY <2>1, <2>2, <2>6 DEF s, l
<1> DEFINE Up(j) == \A i \in 0..(m - 1) : i < j => a[i] < a[j]
           T == {j \in Nat : j \in 0..(m - 1) => Up(j)}
<1>3. 0 \in T
  OBVIOUS
<1>4. ASSUME NEW j \in Nat, j \in T PROVE j + 1 \in T
  <2> SUFFICES ASSUME j + 1 \in 0..(m - 1), NEW i \in 0..(m - 1), i < j + 1 PROVE a[i] < a[j + 1]
    OBVIOUS
  <2>1. j \in 0..(m - 1) /\ j + 1 \in 0..m
    BY <1>1
  <2>2. a[j + 1] # 0 /\ a[j + 1] \in Addresses
    <3> DEFINE k == j + 1
    <3>1. k \in 0..(m - 1)
      OBVIOUS
    <3> HIDE DEF k
    <3>2. a[k] \in Addresses /\ a[k] # 0
      BY <1>2, <3>1, AddressFacts
    <3> QED BY <3>2 DEF k
  <2>3. a[j] < a[j + 1]
    BY <1>2, <2>1, <2>2
  <2>4. a[i] \in Nat /\ a[j] \in Nat /\ a[j + 1] \in Nat
    BY <1>2, <2>1, <2>2, AddressFacts
  <2>5. i < j => a[i] < a[j]
    BY <1>4, <2>1
  <2> QED BY <1>1, <2>3, <2>4, <2>5
<1>5. Nat \subseteq T
  <2> HIDE DEF T
  <2> QED BY <1>3, <1>4, NatSetInduction
<1>6. ASSUME NEW j \in 0..(m - 1) PROVE \A i \in 0..(m - 1) : i < j => a[i] < a[j]
  <2>1. j \in T
    BY <1>5
  <2> QED BY <2>1
<1>7. a[m] = 0 \/ a[m] \in Addresses
  <2>1. m \in 0..m
    BY <1>1
  <2> QED BY <1>1, <2>1
<1> HIDE DEF T
<1> QED BY <1>1, <1>2, <1>6, <1>7

\* The frames that lead nowhere: on x86 those with a return address of 0.
StopsOf(arch) == {a \in Addresses : ZeroEnds(arch) /\ memory[a].ret = 0}

\* A set with the first frame in it that plausible links do not lead out of.
LeadsInto(arch, S, stops) ==
  /\ FrameAddresses[1] \in S
  /\ \A a \in S \ stops : Plausible(arch, a, memory[a].link) => memory[a].link \in S

(* Reached as the least set that is closed under the plausible links.      *)
LEMMA ReachedIs ==
  ASSUME NEW arch, NEW stops
  PROVE  Reached(arch, stops) = {a \in Addresses : \A S \in SUBSET Addresses : LeadsInto(arch, S, stops) => a \in S}
BY Zenon DEF Reached, LeadsInto

(* What is reached, but for a last frame that stops, is what the path      *)
(* passes.                                                                 *)
LEMMA ReachedIsPath ==
  ASSUME FullMemory, NEW arch \in Archs, NEW a, NEW m,
         PathFrom(a, m, FrameAddresses[1], arch)
  PROVE  Reached(arch, StopsOf(arch)) \ StopsOf(arch) = {a[j] : j \in 0..(m - 1)}
<1> DEFINE stops == StopsOf(arch)
           P == {x \in Addresses : \E j \in 0..m : a[j] = x}
           Q == {a[j] : j \in 0..(m - 1)}
<1>1. /\ m \in Nat /\ (a[m] = 0 \/ a[m] \in Addresses)
      /\ \A j \in 0..(m - 1) :
           /\ a[j] \in Addresses /\ ~(ZeroEnds(arch) /\ memory[a[j]].ret = 0)
           /\ IF a[j + 1] = 0 THEN ~Plausible(arch, a[j], memory[a[j]].link)
              ELSE /\ Plausible(arch, a[j], memory[a[j]].link)
                   /\ memory[a[j]].link = a[j + 1] /\ a[j] < a[j + 1]
  BY PathRises
<1>0. m \in Nat
  BY <1>1, Zenon
<1>2. a[0] = FrameAddresses[1] /\ (a[m] = 0 \/ (ZeroEnds(arch) /\ memory[a[m]].ret = 0))
  BY Zenon DEF PathFrom, WalkPath
<1>3. FrameAddresses[1] \in Addresses /\ \A x \in Addresses : x # 0
  BY AddressFacts
<1>4. \A x \in Addresses : x \in stops <=> ZeroEnds(arch) /\ memory[x].ret = 0
  BY DEF StopsOf
<1>5. \A j \in 0..m : a[j] = 0 \/ a[j] \in Addresses
  BY DEF PathFrom
<1> HIDE DEF stops
<1>6. LeadsInto(arch, P, stops)
  <2>1. FrameAddresses[1] \in P
    <3>1. 0 \in 0..m
      BY <1>0
    <3> QED BY <1>2, <1>3, <3>1
  <2>2. ASSUME NEW x \in P \ stops, Plausible(arch, x, memory[x].link) PROVE memory[x].link \in P
    <3>1. PICK j \in 0..m : a[j] = x
      OBVIOUS
    <3>2. x \in Addresses /\ x # 0 /\ ~(ZeroEnds(arch) /\ memory[x].ret = 0)
      BY <1>3, <1>4
    <3>3. j # m
      BY <1>2, <3>1, <3>2
    <3>4. j \in 0..(m - 1) /\ j + 1 \in 0..m
      BY <1>0, <3>3
    <3>5. a[j + 1] # 0 /\ memory[x].link = a[j + 1]
      BY <1>1, <2>2, <3>1, <3>4
    <3>6. a[j + 1] \in Addresses
      BY <1>5, <3>4, <3>5
    <3> QED BY <3>4, <3>5, <3>6
  <2> HIDE DEF P
  <2> QED BY <2>1, <2>2 DEF LeadsInto
<1>7. Reached(arch, stops) \subseteq P
  <2>1. P \subseteq Addresses
    OBVIOUS
  <2> HIDE DEF P
  <2> QED BY <1>6, <2>1, ReachedIs
<1>8. ASSUME NEW S \in SUBSET Addresses, LeadsInto(arch, S, stops), NEW j \in 0..m, a[j] # 0
      PROVE  a[j] \in S
  <2> DEFINE T == {i \in Nat : i \in 0..m /\ a[i] # 0 => a[i] \in S}
  <2>1. 0 \in T
    BY <1>2, <1>8 DEF LeadsInto
  <2>2. ASSUME NEW i \in Nat, i \in T PROVE i + 1 \in T
    <3> SUFFICES ASSUME i + 1 \in 0..m, a[i + 1] # 0 PROVE a[i + 1] \in S
      OBVIOUS
    <3>1. i \in 0..(m - 1) /\ i \in 0..m
      BY <1>0
    <3>2. a[i] \in Addresses /\ a[i] # 0 /\ a[i] \notin stops
      BY <1>1, <1>3, <1>4, <3>1
    <3>3. Plausible(arch, a[i], memory[a[i]].link) /\ memory[a[i]].link = a[i + 1]
      BY <1>1, <3>1
    <3>4. a[i] \in S
      BY <2>2, <3>1, <3>2
    <3> QED BY <1>8, <3>2, <3>3, <3>4 DEF LeadsInto
  <2>3. Nat \subseteq T
    <3> HIDE DEF T
    <3> QED BY <2>1, <2>2, NatSetInduction
  <2> QED BY <1>8, <2>3
<1>9. P \subseteq Reached(arch, stops)
  <2> SUFFICES ASSUME NEW x \in P PROVE x \in Reached(arch, stops)
    OBVIOUS
  <2>1. PICK j \in 0..m : a[j] = x
    OBVIOUS
  <2>2. x \in Addresses /\ x # 0
    BY <1>3
  <2>3. ASSUME NEW S \in SUBSET Addresses, LeadsInto(arch, S, stops) PROVE x \in S
    BY <1>8, <2>1, <2>2, <2>3
  <2> HIDE DEF P
  <2> QED BY <2>2, <2>3, ReachedIs
<1>10. P \ stops = Q
  <2>1. ASSUME NEW x \in P, x \notin stops PROVE x \in Q
    <3>1. PICK j \in 0..m : a[j] = x
      OBVIOUS
    <3>2. x \in Addresses /\ x # 0 /\ ~(ZeroEnds(arch) /\ memory[x].ret = 0)
      BY <1>3, <1>4, <2>1
    <3>3. j # m
      BY <1>2, <3>1, <3>2
    <3>4. j \in 0..(m - 1)
      BY <1>0, <3>3
    <3> QED BY <3>1, <3>4
  <2>2. ASSUME NEW x \in Q PROVE x \in P /\ x \notin stops
    <3>1. PICK j \in 0..(m - 1) : a[j] = x
      OBVIOUS
    <3>2. j \in 0..m
      BY <1>0
    <3>3. x \in Addresses /\ ~(ZeroEnds(arch) /\ memory[x].ret = 0)
      BY <1>1, <3>1
    <3> QED BY <1>4, <3>1, <3>2, <3>3
  <2> HIDE DEF P, Q
  <2> QED BY <2>1, <2>2
<1> HIDE DEF P, Q
<1>11. Reached(arch, stops) \ stops = Q
  BY <1>7, <1>9, <1>10
<1> QED BY <1>11 DEF stops, Q

(* Whatever memory holds, the walk ends, and it returns the return         *)
(* addresses in the frames reached, in order.                              *)
LEMMA WalkReturns ==
  ASSUME FullMemory, NEW arch \in Archs, NEW max \in Nat, NEW skip \in Nat
  PROVE  /\ Walk(memory, FrameAddresses[1], max, skip, arch).ended
         /\ \E e \in InOrder(Reached(arch, StopsOf(arch)) \ StopsOf(arch)) :
              Walk(memory, FrameAddresses[1], max, skip, arch).result = Returns(e, skip, max)
<1>1. PICK a, m : PathFrom(a, m, FrameAddresses[1], arch)
  BY PathExists DEF HasPath
<1> DEFINE R == Reached(arch, StopsOf(arch)) \ StopsOf(arch)
           e == [i \in 1..m |-> a[i - 1]]
           r == ReturnsOn(memory, a, m)
<1>2. R = {a[j] : j \in 0..(m - 1)}
  BY <1>1, ReachedIsPath
<1>3. /\ m \in Nat
      /\ \A j \in 0..(m - 1) : a[j] \in Addresses
      /\ \A j \in 0..(m - 1) : \A i \in 0..(m - 1) : i < j => a[i] < a[j]
  BY <1>1, PathRises
<1>4. e \in [1..m -> R] /\ \A i \in 1..m : e[i] = a[i - 1]
  <2> HIDE DEF R
  <2>1. \A i \in 1..m : i - 1 \in 0..(m - 1)
    BY <1>3
  <2> QED BY <1>2, <2>1
<1> HIDE DEF e, R
<1>5. ASSUME NEW i \in 1..m, NEW j \in 1..m, i < j PROVE e[i] < e[j]
  <2>1. i - 1 \in 0..(m - 1) /\ j - 1 \in 0..(m - 1) /\ i - 1 < j - 1
    BY <1>3, <1>5
  <2>2. a[i - 1] < a[j - 1]
    BY <1>3, <2>1
  <2> QED BY <1>4, <2>2
<1>6. ASSUME NEW i \in 1..m PROVE e[i] \in Nat
  <2>1. i - 1 \in 0..(m - 1)
    BY <1>3
  <2>2. a[i - 1] \in Addresses
    BY <1>3, <2>1
  <2> QED BY <1>4, <2>2, AddressFacts
<1>7. IsFiniteSet(R) /\ Cardinality(R) = m
  <2>1. ASSUME NEW i \in 1..m, NEW j \in 1..m, e[i] = e[j] PROVE i = j
    <3>1. e[i] \in Nat /\ e[j] \in Nat
      BY <1>6
    <3>2. ~(i < j) /\ ~(j < i)
      <4>1. i < j => e[i] < e[j]
        BY <1>5
      <4>2. j < i => e[j] < e[i]
        BY <1>5
      <4> QED BY <2>1, <3>1, <4>1, <4>2
    <3> QED BY <1>3, <3>2
  <2>2. ASSUME NEW x \in R PROVE \E i \in 1..m : e[i] = x
    <3>1. PICK j \in 0..(m - 1) : a[j] = x
      BY <1>2
    <3> DEFINE i == j + 1
    <3>2. i \in 1..m /\ i - 1 = j
      BY <1>3
    <3> HIDE DEF i
    <3>3. e[i] = x
      BY <1>4, <3>1, <3>2
    <3> QED BY <3>2, <3>3
  <2>3. e \in Bijection(1..m, R)
    BY <1>4, <2>1, <2>2 DEF Bijection, Injection, Surjection, IsInjective
  <2>4. ExistsBijection(1..m, R)
    BY <2>3 DEF ExistsBijection
  <2>5. IsFiniteSet(1..m) /\ Cardinality(1..m) = m
    BY <1>3, FS_Interval
  <2> QED BY <2>4, <2>5, FS_Bijection
<1>8. e \in InOrder(R)
  <2>1. ASSUME NEW i \in 1..(m - 1) PROVE e[i] < e[i + 1]
    <3> DEFINE k == i + 1
    <3>1. i \in 1..m /\ k \in 1..m /\ i < k
      BY <1>3
    <3> HIDE DEF k
    <3>2. e[i] < e[k]
      BY <1>5, <3>1
    <3> QED BY <3>2 DEF k
  <2> QED BY <1>4, <1>7, <2>1 DEF InOrder
<1>9. Cardinality(DOMAIN memory) \in Nat /\ m <= Cardinality(DOMAIN memory)
  <2>1. DOMAIN memory = Addresses
    BY MemoryFacts
  <2>2. R \in SUBSET Addresses
    BY <1>2, <1>3
  <2>3. IsFiniteSet(Addresses) /\ Cardinality(Addresses) \in Nat
    BY AddressFacts
  <2>4. Cardinality(R) <= Cardinality(Addresses)
    BY <2>2, <2>3, FS_Subset
  <2> QED BY <1>7, <2>1, <2>3, <2>4
<1>10. /\ Walk(memory, a[0], max, skip, arch).ended
       /\ Walk(memory, a[0], max, skip, arch).result = Taken(r, skip, StopAt(m, skip, max))
  <2>1. WalkPath(memory, a, m, arch)
    BY <1>1, Zenon DEF PathFrom
  <2> HIDE DEF r
  <2>2. /\ Walk(memory, a[0], max, skip, arch).ended
        /\ Walk(memory, a[0], max, skip, arch).result
             = Taken(ReturnsOn(memory, a, m), skip, StopAt(m, skip, max))
    BY <1>9, <2>1, WalkAlong
  <2> QED BY <2>2, Zenon DEF r
<1>11. r \in Seq(Int) /\ Len(r) = m /\ r = [i \in 1..m |-> memory[e[i]].ret]
  <2>1. ASSUME NEW i \in 1..m PROVE memory[e[i]].ret = memory[a[i - 1]].ret /\ memory[e[i]].ret \in Int
    <3>1. e[i] \in R /\ e[i] = a[i - 1]
      BY <1>4
    <3>2. R \subseteq Addresses
      BY <1>2, <1>3
    <3>3. memory[e[i]].ret \in Nat
      BY <3>1, <3>2, MemoryFacts
    <3> QED BY <3>1, <3>3
  <2>2. r = [i \in 1..m |-> memory[e[i]].ret]
    BY <2>1 DEF ReturnsOn
  <2> HIDE DEF r
  <2> QED BY <1>3, <2>1, <2>2
<1> HIDE DEF r
<1>12. Taken(r, skip, StopAt(m, skip, max)) = SubSeq(r, skip + 1, Least(skip + max, m))
  <2>1. Taken(r, skip, StopAt(Len(r), skip, max)) = SubSeq(r, skip + 1, Least(skip + max, Len(r)))
    BY <1>11, TakenAtStop
  <2> QED BY <1>11, <2>1
<1>13. Returns(e, skip, max) = SubSeq(r, skip + 1, Least(skip + max, m))
  <2>1. Len(e) = m
    BY <1>3, <1>4
  <2> QED BY <1>11, <2>1, Zenon DEF Returns
<1>14. a[0] = FrameAddresses[1]
  BY <1>1 DEF PathFrom
<1>15. Walk(memory, FrameAddresses[1], max, skip, arch).ended
  BY <1>10, <1>14, Zenon
<1>16. Walk(memory, FrameAddresses[1], max, skip, arch).result = Returns(e, skip, max)
  BY <1>10, <1>12, <1>13, <1>14, Zenon
<1> QED BY <1>8, <1>15, <1>16, Zenon DEF R

(* WalkExact for any memory.                                               *)
LEMMA WalkExactAlways == FramesType => WalkExact
<1> SUFFICES ASSUME FramesType, Len(frames) = Len(FrameAddresses),
                    NEW skip_count \in 0..MaxSkip, NEW max_depth \in 0..MaxDepth
             PROVE  LET zero == {a \in Addresses : memory[a].ret = 0}
                        ppc == GetStackTrace_powerpc(memory, FrameAddresses[1], max_depth, skip_count)
                    IN /\ \A arch \in X86Builds :
                            LET x86 == GetStackTrace_x86(arch, memory, FrameAddresses[1], max_depth,
                                                         skip_count)
                            IN /\ x86.ended
                               /\ \E e \in InOrder(Reached(arch, zero) \ zero) :
                                    x86.result = Returns(e, skip_count, max_depth)
                       /\ ppc.ended
                       /\ \E e \in InOrder(Reached("powerpc", {})) :
                            ppc.result = Returns(e, skip_count + 1, max_depth)
  BY Zenon DEF WalkExact
<1> DEFINE zero == {a \in Addresses : memory[a].ret = 0}
           s == skip_count + 1
           ppc == "powerpc"
<1>1. FullMemory
  BY Zenon DEF FullMemory, FrameCount
<1>2. skip_count \in Nat /\ max_depth \in Nat /\ s \in Nat /\ ppc \in Archs
  BY StackAssumption DEF Archs
<1>3. (\A arch \in X86Builds : StopsOf(arch) = zero) /\ StopsOf(ppc) = {}
  BY DEF StopsOf, X86Builds, ZeroEnds
<1> HIDE DEF s, ppc, zero
<1>4. ASSUME NEW arch \in X86Builds
      PROVE  /\ GetStackTrace_x86(arch, memory, FrameAddresses[1], max_depth, skip_count).ended
             /\ \E e \in InOrder(Reached(arch, zero) \ zero) :
                  GetStackTrace_x86(arch, memory, FrameAddresses[1], max_depth, skip_count).result
                    = Returns(e, skip_count, max_depth)
  <2>1. arch \in Archs
    BY DEF X86Builds
  <2>2. /\ Walk(memory, FrameAddresses[1], max_depth, skip_count, arch).ended
        /\ \E e \in InOrder(Reached(arch, StopsOf(arch)) \ StopsOf(arch)) :
             Walk(memory, FrameAddresses[1], max_depth, skip_count, arch).result
               = Returns(e, skip_count, max_depth)
    BY <1>1, <1>2, <2>1, WalkReturns
  <2> QED BY <1>3, <2>2, Zenon DEF GetStackTrace_x86
<1>5. /\ Walk(memory, FrameAddresses[1], max_depth, s, ppc).ended
      /\ \E e \in InOrder(Reached(ppc, StopsOf(ppc)) \ StopsOf(ppc)) :
           Walk(memory, FrameAddresses[1], max_depth, s, ppc).result = Returns(e, s, max_depth)
  BY <1>1, <1>2, WalkReturns
<1>6. Reached(ppc, {}) \ {} = Reached(ppc, {})
  OBVIOUS
<1>7. /\ GetStackTrace_powerpc(memory, FrameAddresses[1], max_depth, skip_count).ended
      /\ \E e \in InOrder(Reached("powerpc", {})) :
           GetStackTrace_powerpc(memory, FrameAddresses[1], max_depth, skip_count).result
             = Returns(e, skip_count + 1, max_depth)
  BY <1>3, <1>5, <1>6, Zenon DEF GetStackTrace_powerpc, ppc, s
<1> QED BY <1>4, <1>7, Zenon DEF zero

(* WalkExact for every number of frames, wherever they are and whatever    *)
(* they hold.                                                              *)
THEOREM WalksExact == DumpInit /\ [][DumpNext]_dumpVars => []WalkExact
<1> DEFINE R == [link : Links, ret : Nat]
<1>1. DumpInit => FramesType
  <2>1. DumpInit => frames = <<>>
    BY Zenon DEF DumpInit
  <2>2. <<>> \in Seq(R)
    OBVIOUS
  <2> QED BY <2>1, <2>2, Zenon DEF FramesType
<1>2. FramesType /\ [DumpNext]_dumpVars => FramesType'
  <2> SUFFICES ASSUME FramesType, [DumpNext]_dumpVars PROVE FramesType'
    OBVIOUS
  <2>1. CASE GrowMemory
    <3>1. PICK l \in Links, r \in {0, 1} :
             frames' = Append(frames, [link |-> l, ret |-> r * (Len(frames) + 1)])
      BY <2>1, Zenon DEF GrowMemory
    <3>2. Len(frames) \in Nat
      BY DEF FramesType
    <3> DEFINE n == r * (Len(frames) + 1)
    <3>3. n \in Nat
      BY <3>2
    <3> HIDE DEF n
    <3>4. [link |-> l, ret |-> n] \in R
      BY <3>3
    <3>5. frames \in Seq(R)
      BY Zenon DEF FramesType
    <3> HIDE DEF R
    <3>6. Append(frames, [link |-> l, ret |-> n]) \in Seq(R)
      BY <3>4, <3>5, AppendProperties
    <3> QED BY <3>1, <3>6, Zenon DEF FramesType, n, R
  <2>2. CASE frames' = frames
    BY <2>2, Zenon DEF FramesType
  <2>3. GrowMemory \/ frames' = frames
    BY Zenon DEF DumpNext, GrowStack, GrowSymbol, dumpVars
  <2> QED BY <2>1, <2>2, <2>3
<1>3. FramesType => WalkExact
  BY WalkExactAlways
<1> QED BY <1>1, <1>2, <1>3, PTL

-----------------------------------------------------------------------------
HexCharacters == {"0", "1", "2", "3", "4", "5", "6", "7", "8", "9",
                  "a", "b", "c", "d", "e", "f"}

(* A hexadecimal digit is one of sixteen characters.                       *)
LEMMA HexDigitFacts ==
  /\ Range(HexDigits) \subseteq HexCharacters /\ HexDigits[1] = "0"
  /\ \A d \in 0..15 : DigitOf(d) = HexDigits[d + 1] /\ DigitOf(d) \in HexCharacters
  /\ \A c \in Range(HexDigits) : \E d \in 0..15 : HexDigits[d + 1] = c
<1>1. HexDigits \in Seq(HexCharacters) /\ Len(HexDigits) = 16 /\ HexDigits[1] = "0"
  <2>1. HexDigits \in Seq(HexCharacters)
    BY DEF HexDigits, HexCharacters
  <2>2. Len(HexDigits) = 16 /\ HexDigits[1] = "0"
    BY DEF HexDigits
  <2> QED BY <2>1, <2>2
<1>2. DOMAIN HexDigits = 1..16 /\ \A i \in 1..16 : HexDigits[i] \in HexCharacters
  <2> DEFINE h == HexDigits
  <2>1. h \in Seq(HexCharacters) /\ Len(h) = 16
    BY <1>1
  <2> HIDE DEF h
  <2>2. DOMAIN h = 1..16 /\ \A i \in 1..16 : h[i] \in HexCharacters
    BY <2>1
  <2> QED BY <2>2 DEF h
<1>3. ASSUME NEW c \in Range(HexDigits)
      PROVE  c \in HexCharacters /\ \E d \in 0..15 : HexDigits[d + 1] = c
  <2>1. PICK i \in 1..16 : HexDigits[i] = c
    BY <1>2, Zenon DEF Range
  <2>2. i - 1 \in 0..15 /\ (i - 1) + 1 = i
    OBVIOUS
  <2> QED BY <1>2, <2>1, <2>2
<1>4. \A d \in 0..15 : d + 1 \in 1..16
  OBVIOUS
<1>5. \A d \in 0..15 : DigitOf(d) = HexDigits[d + 1]
  BY Zenon DEF DigitOf
<1>6. \A d \in 0..15 : DigitOf(d) \in HexCharacters
  BY <1>2, <1>4, <1>5
<1> QED BY <1>1, <1>3, <1>5, <1>6

\* A numeral without a leading zero.
HexNumeral(hex) ==
  /\ hex \in Seq(Range(HexDigits)) /\ Len(hex) \in Nat \ {0}
  /\ hex[1] = "0" => Len(hex) = 1

(* What HexValue computes: v[k] is the number without the last k digits,   *)
(* none of which is 0 before the last digit is gone.                       *)
LEMMA HexTable ==
  ASSUME NEW hex, HexNumeral(hex)
  PROVE  \E v \in [0..Len(hex) -> Nat], d \in [0..(Len(hex) - 1) -> 0..15] :
           /\ HexValue(hex) = v[0] /\ v[Len(hex)] = 0
           /\ \A k \in 0..(Len(hex) - 1) :
                /\ v[k] = 16 * v[k + 1] + d[k] /\ DigitOf(d[k]) = hex[Len(hex) - k]
                /\ k > 0 => v[k] # 0
<1> DEFINE n == Len(hex)
           At16(k) == CHOOSE x \in 0..15 : HexDigits[x + 1] = hex[n - k]
           d == [k \in 0..(n - 1) |-> At16(k)]
           base == 16
           Eq(v) == v = [k \in 0..n |-> IF k = n THEN 0
                           ELSE 16 * v[k + 1]
                                  + (CHOOSE x \in 0..15 : HexDigits[x + 1] = hex[n - k])]
           vv == CHOOSE v : Eq(v)
<1>1. n \in Nat /\ n > 0 /\ hex \in Seq(Range(HexDigits))
  BY DEF HexNumeral
<1>2. ASSUME NEW k \in 0..(n - 1)
      PROVE  At16(k) \in 0..15 /\ HexDigits[At16(k) + 1] = hex[n - k]
  <2>1. n - k \in 1..n
    BY <1>1
  <2>2. hex[n - k] \in Range(HexDigits)
    BY <1>1, <2>1
  <2>3. \E x \in 0..15 : HexDigits[x + 1] = hex[n - k]
    BY <2>2, HexDigitFacts
  <2> QED BY <2>3
<1>3. HexValue(hex) = vv[0]
  BY Zenon DEF HexValue
<1> HIDE DEF n
<1>4. d \in [0..(n - 1) -> Int] /\ d \in [0..(n - 1) -> 0..15]
  BY <1>2
<1>5. ASSUME NEW v PROVE Eq(v) <=> ValueTable(n, base, d, v)
  <2>1. [k \in 0..n |-> IF k = n THEN 0 ELSE 16 * v[k + 1] + At16(k)]
          = [k \in 0..n |-> IF k = n THEN 0 ELSE 16 * v[k + 1] + d[k]]
    <3>1. ASSUME NEW k \in 0..n, k # n PROVE d[k] = At16(k)
      <4>1. k \in 0..(n - 1)
        BY <1>1, <3>1
      <4> QED BY <4>1
    <3>2. ASSUME NEW k \in 0..n
          PROVE  (IF k = n THEN 0 ELSE 16 * v[k + 1] + At16(k))
                   = (IF k = n THEN 0 ELSE 16 * v[k + 1] + d[k])
      <4>1. k = n \/ d[k] = At16(k)
        BY <3>1
      <4> HIDE DEF d, At16
      <4> QED BY <4>1, Zenon
    <3> HIDE DEF d, At16
    <3> QED BY <3>2, Zenon
  <2> DEFINE F1 == [k \in 0..n |-> IF k = n THEN 0 ELSE 16 * v[k + 1] + At16(k)]
             F2 == [k \in 0..n |-> IF k = n THEN 0 ELSE base * v[k + 1] + d[k]]
  <2>2. Eq(v) <=> v = F1
    OBVIOUS
  <2>3. ValueTable(n, base, d, v) <=> v = F2
    BY Zenon DEF ValueTable
  <2>4. F1 = F2
    BY <2>1
  <2> HIDE DEF F1, F2, Eq
  <2> QED BY <2>2, <2>3, <2>4
<1>6. base \in Int /\ base = 16
  OBVIOUS
<1> HIDE DEF d, base
<1>7. ValueTable(n, base, d, vv)
  <2>1. \E v : ValueTable(n, base, d, v)
    <3> HIDE DEF Eq, vv
    <3> QED BY <1>1, <1>4, <1>6, ValueTableFacts
  <2>2. Eq(vv)
    <3>1. \E v : Eq(v)
      BY <1>5, <2>1
    <3> HIDE DEF Eq
    <3> QED BY <3>1
  <2> HIDE DEF Eq, vv
  <2> QED BY <1>5, <2>2
<1> HIDE DEF vv, Eq
<1> HIDE DEF At16
<1>8. /\ vv \in [0..n -> Int] /\ vv[n] = 0
      /\ \A k \in 0..(n - 1) : vv[k] = base * vv[k + 1] + d[k]
  <2>1. n \in Nat /\ base \in Int /\ d \in [0..(n - 1) -> Int]
    BY <1>1, <1>4, <1>6
  <2>2. \A v : ValueTable(n, base, d, v) =>
          /\ v \in [0..n -> Int] /\ v[n] = 0
          /\ \A k \in 0..(n - 1) : v[k] = base * v[k + 1] + d[k]
    BY <2>1, ValueTableFacts, Zenon
  <2> QED BY <1>7, <2>2, Zenon
<1>9. ASSUME NEW k \in 0..(n - 1) PROVE DigitOf(d[k]) = hex[n - k] /\ d[k] \in 0..15
  <2>1. d[k] = At16(k)
    BY DEF d
  <2>2. At16(k) \in 0..15 /\ HexDigits[At16(k) + 1] = hex[n - k]
    BY <1>2
  <2> QED BY <2>1, <2>2, HexDigitFacts
<1> DEFINE T == {k \in 0..n : vv[k] >= 0 /\ (k > 0 /\ k < n => vv[k] > 0)}
<1>10. n \in T
  BY <1>1, <1>8
<1>11. ASSUME NEW k \in 0..(n - 1), k + 1 \in T PROVE k \in T
  <2>1. k \in 0..n /\ k + 1 \in 0..n /\ vv[k + 1] \in Int /\ vv[k + 1] >= 0
    BY <1>1, <1>8, <1>11
  <2>2. vv[k] = 16 * vv[k + 1] + d[k] /\ d[k] \in 0..15
    BY <1>8, <1>9, <1>6
  <2>3. CASE k + 1 < n
    <3>1. vv[k + 1] > 0
      BY <1>11, <2>1, <2>3
    <3> QED BY <2>1, <2>2, <3>1
  <2>4. CASE k = n - 1 /\ k > 0
    <3>1. n - k = 1 /\ n # 1
      BY <1>1, <2>4
    <3>2. DigitOf(d[k]) = hex[1] /\ hex[1] # "0"
      BY <1>9, <3>1 DEF HexNumeral, n
    <3>3. d[k] # 0
      <4>1. ASSUME d[k] = 0 PROVE FALSE
        <5>1. DigitOf(0) = "0"
          BY HexDigitFacts
        <5> QED BY <3>2, <4>1, <5>1
      <4> QED BY <4>1
    <3> QED BY <2>1, <2>2, <3>3
  <2>5. CASE k = 0
    BY <2>1, <2>2, <2>5
  <2> QED BY <1>1, <2>3, <2>4, <2>5
<1> HIDE DEF T
<1>12. 0..n \subseteq T
  BY <1>1, <1>10, <1>11, DownInduction
<1>13. \A k \in 0..n : vv[k] \in Nat /\ (k > 0 /\ k < n => vv[k] # 0)
  BY <1>8, <1>12 DEF T
<1>14. vv \in [0..n -> Nat]
  <2>1. vv = [k \in 0..n |-> vv[k]]
    BY <1>8, Zenon
  <2> QED BY <1>13, <2>1
<1>15. \A k \in 0..(n - 1) : k > 0 => vv[k] # 0
  BY <1>1, <1>13
<1>16. d \in [0..(n - 1) -> 0..15]
  BY <1>4
<1>17. HexValue(hex) = vv[0] /\ vv[n] = 0
  BY <1>3, <1>8
<1>18. ASSUME NEW k \in 0..(n - 1)
       PROVE  /\ vv[k] = 16 * vv[k + 1] + d[k] /\ DigitOf(d[k]) = hex[n - k]
              /\ k > 0 => vv[k] # 0
  BY <1>6, <1>8, <1>9, <1>15
<1> SUFFICES \E v \in [0..n -> Nat], e \in [0..(n - 1) -> 0..15] :
               /\ HexValue(hex) = v[0] /\ v[n] = 0
               /\ \A k \in 0..(n - 1) :
                    /\ v[k] = 16 * v[k + 1] + e[k] /\ DigitOf(e[k]) = hex[n - k]
                    /\ k > 0 => v[k] # 0
  BY DEF n
<1> WITNESS vv \in [0..n -> Nat], d \in [0..(n - 1) -> 0..15]
<1> QED BY <1>17, <1>18

(* The last j digits of a numeral, the last one first.                     *)
Backwards(hex, j) == [i \in 1..j |-> hex[Len(hex) - i + 1]]

LEMMA BackwardsFacts ==
  ASSUME NEW C, NEW hex \in Seq(C), NEW j \in 0..Len(hex)
  PROVE  /\ Backwards(hex, j) \in Seq(C) /\ Len(Backwards(hex, j)) = j
         /\ \A i \in 1..j : Backwards(hex, j)[i] = hex[Len(hex) - i + 1]
BY DEF Backwards

LEMMA BackwardsNext ==
  ASSUME NEW C, NEW hex \in Seq(C), NEW j \in 0..(Len(hex) - 1)
  PROVE  Append(Backwards(hex, j), hex[Len(hex) - j]) = Backwards(hex, j + 1)
<1> DEFINE x == Backwards(hex, j)
           y == Backwards(hex, j + 1)
           c == hex[Len(hex) - j]
           z == Append(x, c)
<1>1. Len(hex) \in Nat /\ j \in 0..Len(hex) /\ j + 1 \in 0..Len(hex) /\ c \in C
  OBVIOUS
<1>2. x \in Seq(C) /\ Len(x) = j /\ \A i \in 1..j : x[i] = hex[Len(hex) - i + 1]
  BY <1>1, BackwardsFacts
<1>3. y \in Seq(C) /\ Len(y) = j + 1 /\ \A i \in 1..(j + 1) : y[i] = hex[Len(hex) - i + 1]
  <2> DEFINE k == j + 1
  <2>1. k \in 0..Len(hex)
    BY <1>1
  <2> HIDE DEF k
  <2>2. /\ Backwards(hex, k) \in Seq(C) /\ Len(Backwards(hex, k)) = k
        /\ \A i \in 1..k : Backwards(hex, k)[i] = hex[Len(hex) - i + 1]
    BY <2>1, BackwardsFacts
  <2> QED BY <2>2 DEF k
<1>4. c = hex[Len(hex) - (j + 1) + 1]
  BY <1>1
<1> HIDE DEF x, y, c
<1>5. z \in Seq(C) /\ Len(z) = j + 1 /\ z[j + 1] = c /\ \A i \in 1..j : z[i] = x[i]
  BY <1>1, <1>2, AppendProperties
<1> HIDE DEF z
<1>6. ASSUME NEW i \in 1..(j + 1) PROVE z[i] = y[i]
  <2>1. CASE i = j + 1
    BY <1>3, <1>4, <1>5, <2>1
  <2>2. CASE i # j + 1
    <3>1. i \in 1..j
      BY <1>1, <2>2
    <3> QED BY <1>2, <1>3, <1>5, <3>1
  <2> QED BY <2>1, <2>2
<1>7. z = y
  BY <1>3, <1>5, <1>6, SeqEqual
<1> QED BY <1>7 DEF x, y, z, c

(* Where there is room, AppendUint64 appends the numeral of its number.    *)
LEMMA NumberAppended ==
  ASSUME NEW f, Room(f) \in Nat, NEW hex, HexNumeral(hex), Len(hex) <= Room(f)
  PROVE  AppendUint64(f, HexValue(hex), 16) = [f EXCEPT !.text = @ \o hex]
<1> DEFINE n == Len(hex)
           R == Room(f)
<1>1. PICK v \in [0..n -> Nat], d \in [0..(n - 1) -> 0..15] :
        /\ HexValue(hex) = v[0] /\ v[n] = 0
        /\ \A k \in 0..(n - 1) :
             /\ v[k] = 16 * v[k + 1] + d[k] /\ DigitOf(d[k]) = hex[n - k]
             /\ k > 0 => v[k] # 0
  BY HexTable
<1>2. n \in Nat /\ n > 0 /\ hex \in Seq(Range(HexDigits)) /\ R \in Nat /\ n <= R
  BY DEF HexNumeral
<1> DEFINE W(j) == [number |-> v[j], digits |-> Backwards(hex, j)]
           Done(k) == Least(R - k, n)
           AfterOne(w) == IF w.number = 0 /\ w.digits # <<>> THEN w
                       ELSE [number |-> w.number \div 16,
                             digits |-> Append(w.digits, DigitOf(w.number % 16))]
           Eq(u) == u = [k \in 0..R |->
                           IF k = R THEN [number |-> HexValue(hex), digits |-> <<>>]
                           ELSE AfterOne(u[k + 1])]
           u == CHOOSE x : Eq(x)
<1>3. AppendUint64(f, HexValue(hex), 16) = [f EXCEPT !.text = @ \o Reversed(u[0].digits)]
  BY Zenon DEF AppendUint64
<1> HIDE DEF n, R
<1>4. ASSUME NEW j \in 0..n PROVE /\ Backwards(hex, j) \in Seq(Range(HexDigits))
                                  /\ Len(Backwards(hex, j)) = j
  BY <1>2, BackwardsFacts DEF n
<1>5. ASSUME NEW j \in 0..(n - 1) PROVE AfterOne(W(j)) = W(j + 1)
  <2>1. j \in 0..n /\ j + 1 \in 0..n /\ v[j] \in Nat /\ v[j + 1] \in Nat /\ d[j] \in 0..15
    BY <1>2
  <2>2. v[j] = 16 * v[j + 1] + d[j] /\ DigitOf(d[j]) = hex[n - j] /\ (j > 0 => v[j] # 0)
    BY <1>1
  <2>3. v[j] \div 16 = v[j + 1] /\ v[j] % 16 = d[j]
    <3> DEFINE a == v[j + 1]
               b == d[j]
    <3>1. a \in Nat /\ b \in 0..15 /\ v[j] = 16 * a + b
      BY <2>1, <2>2
    <3> HIDE DEF a, b
    <3>2. (16 * a + b) \div 16 = a /\ (16 * a + b) % 16 = b
      BY <3>1
    <3> QED BY <3>1, <3>2 DEF a, b
  <2>4. ~(v[j] = 0 /\ Backwards(hex, j) # <<>>)
    <3>1. CASE j = 0
      <4>1. Len(Backwards(hex, j)) = 0 /\ Backwards(hex, j) \in Seq(Range(HexDigits))
        BY <1>4, <2>1, <3>1
      <4> QED BY <4>1, EmptySeq
    <3>2. CASE j # 0
      BY <2>1, <2>2, <3>2
    <3> QED BY <3>1, <3>2
  <2>5. Append(Backwards(hex, j), hex[n - j]) = Backwards(hex, j + 1)
    BY <1>2, BackwardsNext DEF n
  <2>6. W(j).number = v[j] /\ W(j).digits = Backwards(hex, j)
    OBVIOUS
  <2>7. AfterOne(W(j)) = [number |-> v[j] \div 16,
                       digits |-> Append(Backwards(hex, j), DigitOf(v[j] % 16))]
    <3> HIDE DEF W
    <3> QED BY <2>4, <2>6, Zenon
  <2> QED BY <2>2, <2>3, <2>5, <2>7, Zenon
<1>6. AfterOne(W(n)) = W(n)
  <2>1. Len(Backwards(hex, n)) = n /\ n # 0
    BY <1>2, <1>4
  <2>2. Backwards(hex, n) # <<>>
    BY <2>1, EmptySeq
  <2>3. W(n).number = 0 /\ W(n).digits = Backwards(hex, n)
    BY <1>1
  <2> HIDE DEF W
  <2> QED BY <2>2, <2>3, Zenon
<1> HIDE DEF AfterOne
<1>7. W(0) = [number |-> HexValue(hex), digits |-> <<>>]
  <2>1. Backwards(hex, 0) = <<>>
    BY <1>2, <1>4, EmptySeq
  <2> QED BY <1>1, <2>1
<1> HIDE DEF W
<1>8. Done(R) = 0 /\ Done(0) = n
  BY <1>2 DEF Least
<1>9. ASSUME NEW k \in 0..(R - 1) PROVE W(Done(k)) = AfterOne(W(Done(k + 1)))
  <2>1. CASE R - k <= n
    <3>1. Done(k) = Done(k + 1) + 1 /\ Done(k + 1) \in 0..(n - 1)
      BY <1>2, <2>1 DEF Least
    <3> HIDE DEF Done
    <3> QED BY <1>5, <3>1
  <2>2. CASE ~(R - k <= n)
    <3>1. Done(k) = n /\ Done(k + 1) = n
      BY <1>2, <2>2 DEF Least
    <3> HIDE DEF Done
    <3> QED BY <1>6, <3>1
  <2> QED BY <2>1, <2>2
<1> HIDE DEF Done
<1>10. Eq(u)
  <2> DEFINE g == [k \in 0..R |-> W(Done(k))]
  <2>1. g[R] = [number |-> HexValue(hex), digits |-> <<>>]
    BY <1>2, <1>7, <1>8
  <2>2. ASSUME NEW k \in 0..R, k # R PROVE g[k] = AfterOne(g[k + 1])
    <3>1. k \in 0..(R - 1) /\ k + 1 \in 0..R
      BY <1>2, <2>2
    <3>2. g[k] = W(Done(k)) /\ g[k + 1] = W(Done(k + 1))
      BY <3>1
    <3> HIDE DEF g
    <3> QED BY <1>9, <3>1, <3>2
  <2>3. \A k \in 0..R : g[k] = IF k = R THEN [number |-> HexValue(hex), digits |-> <<>>]
                               ELSE AfterOne(g[k + 1])
    <3> HIDE DEF g
    <3> QED BY <2>1, <2>2, Zenon
  <2>4. g = [k \in 0..R |-> g[k]]
    OBVIOUS
  <2> HIDE DEF g
  <2>5. Eq(g)
    BY <2>3, <2>4, Zenon
  <2> HIDE DEF Eq
  <2> QED BY <2>5
<1> HIDE DEF u
<1>11. ASSUME NEW k \in 0..R
       PROVE  u[k] = IF k = R THEN [number |-> HexValue(hex), digits |-> <<>>]
                     ELSE AfterOne(u[k + 1])
  BY <1>10, Zenon
<1> HIDE DEF Eq
<1> DEFINE T == {k \in 0..R : u[k] = W(Done(k))}
<1>12. R \in T
  <2>1. R \in 0..R
    BY <1>2
  <2>2. u[R] = W(Done(R))
    BY <1>7, <1>8, <1>11, <2>1
  <2> QED BY <2>1, <2>2
<1>13. ASSUME NEW k \in 0..(R - 1), k + 1 \in T PROVE k \in T
  <2>1. k \in 0..R /\ k # R /\ u[k + 1] = W(Done(k + 1))
    BY <1>2, <1>13
  <2>2. u[k] = AfterOne(u[k + 1])
    BY <1>11, <2>1
  <2>3. u[k] = W(Done(k))
    BY <1>9, <2>1, <2>2
  <2> QED BY <2>1, <2>3
<1> HIDE DEF T
<1>14. u[0] = W(n)
  <2>1. 0..R \subseteq T
    BY <1>2, <1>12, <1>13, DownInduction
  <2>2. 0 \in 0..R
    BY <1>2
  <2>3. 0 \in T
    BY <2>1, <2>2
  <2> QED BY <1>8, <2>3 DEF T
<1>15. Reversed(u[0].digits) = hex
  <2> DEFINE x == Backwards(hex, n)
  <2>1. u[0].digits = x
    BY <1>14 DEF W
  <2>2. /\ x \in Seq(Range(HexDigits)) /\ Len(x) = n
        /\ \A i \in 1..n : x[i] = hex[n - i + 1]
    <3>1. n \in 0..n
      BY <1>2
    <3> QED BY <1>2, <3>1, BackwardsFacts DEF n
  <2> HIDE DEF x
  <2> DEFINE y == Reverse(x)
  <2>3. y \in Seq(Range(HexDigits)) /\ Len(y) = n /\ \A i \in 1..n : y[i] = x[n - i + 1]
    BY <2>2, ReverseFacts
  <2> HIDE DEF y
  <2>4. ASSUME NEW i \in 1..n PROVE y[i] = hex[i]
    <3>1. n - i + 1 \in 1..n /\ n - (n - i + 1) + 1 = i
      BY <1>2
    <3> QED BY <2>2, <2>3, <3>1
  <2>5. y = hex
    BY <1>2, <2>3, <2>4, SeqEqual DEF n
  <2> QED BY <2>1, <2>5 DEF Reversed, y
<1> QED BY <1>3, <1>15, Zenon

\* What of a text there is room for in n characters.
Cut(s, n) == SubSeq(s, 1, Least(n, Len(s)))

LEMMA CutFacts ==
  ASSUME NEW C, NEW s \in Seq(C), NEW n \in Nat
  PROVE  /\ Cut(s, n) \in Seq(C) /\ Len(Cut(s, n)) = Least(n, Len(s))
         /\ \A i \in 1..Least(n, Len(s)) : Cut(s, n)[i] = s[i]
         /\ Len(s) <= n => Cut(s, n) = s
<1> DEFINE m == Least(n, Len(s))
           x == SubSeq(s, 1, m)
<1>1. m \in 0..Len(s) /\ Len(s) \in Nat /\ (Len(s) <= n => m = Len(s))
  BY DEF Least
<1>2. x \in Seq(C) /\ Len(x) = m /\ \A i \in 1..m : x[i] = s[i]
  <2> HIDE DEF m
  <2> QED BY <1>1
<1> HIDE DEF x
<1>3. Len(s) <= n => x = s
  BY <1>1, <1>2, SeqEqual
<1> QED BY <1>2, <1>3 DEF Cut, x

(* What was cut off at the end of the buffer is cut off for good.          *)
LEMMA CutTwice ==
  ASSUME NEW C, NEW a \in Seq(C), NEW b \in Seq(C), NEW n \in Nat
  PROVE  Cut(Cut(a, n) \o b, n) = Cut(a \o b, n)
<1> DEFINE c == Cut(a, n)
           x == c \o b
           y == a \o b
           p == Cut(x, n)
           q == Cut(y, n)
<1>1. /\ c \in Seq(C) /\ Len(c) = Least(n, Len(a)) /\ \A i \in 1..Least(n, Len(a)) : c[i] = a[i]
      /\ Len(a) <= n => c = a
  BY CutFacts
<1> HIDE DEF c
<1>2. /\ x \in Seq(C) /\ Len(x) = Len(c) + Len(b) /\ Len(c) \in Nat /\ Len(b) \in Nat
      /\ \A i \in 1..Len(c) : x[i] = c[i]
  BY <1>1, ConcatFacts
<1>3. /\ y \in Seq(C) /\ Len(y) = Len(a) + Len(b) /\ Len(a) \in Nat
      /\ \A i \in 1..Len(a) : y[i] = a[i]
  BY ConcatFacts
<1>4. CASE Len(a) <= n
  <2>1. c = a
    BY <1>1, <1>4
  <2> QED BY <2>1 DEF c
<1>5. CASE ~(Len(a) <= n)
  <2>1. Len(c) = n /\ Least(n, Len(a)) = n
    BY <1>1, <1>3, <1>5 DEF Least
  <2> HIDE DEF x, y
  <2>2. Least(n, Len(x)) = n /\ Least(n, Len(y)) = n
    BY <1>2, <1>3, <1>5, <2>1 DEF Least
  <2>3. p \in Seq(C) /\ Len(p) = n /\ \A i \in 1..n : p[i] = x[i]
    BY <1>2, <2>2, CutFacts
  <2>4. q \in Seq(C) /\ Len(q) = n /\ \A i \in 1..n : q[i] = y[i]
    BY <1>3, <2>2, CutFacts
  <2> HIDE DEF p, q
  <2>5. ASSUME NEW i \in 1..n PROVE p[i] = q[i]
    <3>1. i \in 1..Len(a) /\ i \in 1..Len(c)
      BY <1>3, <1>5, <2>1
    <3> QED BY <1>1, <1>2, <1>3, <2>1, <2>3, <2>4, <3>1
  <2>6. p = q
    BY <2>3, <2>4, <2>5, SeqEqual
  <2> QED BY <2>6 DEF p, q, x, y, c
<1> QED BY <1>4, <1>5

(* A formatter with more text.                                             *)
LEMMA TextAppended ==
  ASSUME NEW text, NEW size, NEW more
  PROVE  [[text |-> text, size |-> size] EXCEPT !.text = @ \o more]
           = [text |-> text \o more, size |-> size]
<1> DEFINE f == [text |-> text, size |-> size]
<1>1. f.text = text
  OBVIOUS
<1>2. \A x : [f EXCEPT !.text = x] = [text |-> x, size |-> size]
  OBVIOUS
<1> HIDE DEF f
<1>3. [f EXCEPT !.text = @ \o more] = [text |-> text \o more, size |-> size]
  BY <1>1, <1>2, Zenon
<1> QED BY <1>3 DEF f

LEMMA TextPadded ==
  ASSUME NEW text, NEW size, NEW more, NEW last
  PROVE  [[text |-> text, size |-> size] EXCEPT !.text = @ \o more \o last]
           = [text |-> text \o more \o last, size |-> size]
<1> DEFINE f == [text |-> text, size |-> size]
<1>1. f.text = text
  OBVIOUS
<1>2. \A x : [f EXCEPT !.text = x] = [text |-> x, size |-> size]
  OBVIOUS
<1> HIDE DEF f
<1>3. [f EXCEPT !.text = @ \o more \o last] = [text |-> text \o more \o last, size |-> size]
  BY <1>1, <1>2, Zenon
<1> QED BY <1>3 DEF f

(* AppendString appends what there is room for.                            *)
LEMMA StringAppended ==
  ASSUME NEW C, NEW size \in Nat, NEW text \in Seq(C), Len(text) <= size, NEW str \in Seq(C)
  PROVE  AppendString([text |-> text, size |-> size], str)
           = [text |-> Cut(text \o str, size), size |-> size]
<1> DEFINE f == [text |-> text, size |-> size]
           n == IF Len(str) < Room(f) THEN Len(str) ELSE Room(f)
           s == SubSeq(str, 1, n)
           x == text \o s
           y == text \o str
           z == Cut(y, size)
<1>1. Room(f) = size - Len(text) /\ Len(text) \in Nat /\ Len(str) \in Nat
  BY DEF Room
<1>2. n \in 0..Len(str) /\ Len(text) + n = Least(size, Len(text) + Len(str))
  BY <1>1 DEF Least
<1>3. AppendString(f, str) = [text |-> x, size |-> size]
  <2>1. [f EXCEPT !.text = @ \o s] = [text |-> x, size |-> size]
    <3> HIDE DEF s
    <3> QED BY TextAppended, Zenon
  <2> QED BY <2>1, Zenon DEF AppendString
<1> HIDE DEF n
<1>4. s \in Seq(C) /\ Len(s) = n /\ \A i \in 1..n : s[i] = str[i]
  BY <1>1, <1>2
<1> HIDE DEF s
<1>5. /\ x \in Seq(C) /\ Len(x) = Len(text) + n
      /\ \A i \in 1..Len(text) : x[i] = text[i]
      /\ \A i \in 1..n : x[Len(text) + i] = str[i]
  <2>0. s \in Seq(C)
    BY <1>4
  <2>1. /\ x \in Seq(C) /\ Len(x) = Len(text) + Len(s)
        /\ \A i \in 1..Len(text) : x[i] = text[i]
        /\ \A i \in 1..Len(s) : x[Len(text) + i] = s[i]
    BY <2>0, ConcatFacts
  <2> HIDE DEF x
  <2> QED BY <1>4, <2>1
<1>6. /\ y \in Seq(C) /\ Len(y) = Len(text) + Len(str)
      /\ \A i \in 1..Len(text) : y[i] = text[i]
      /\ \A i \in 1..Len(str) : y[Len(text) + i] = str[i]
  BY ConcatFacts
<1> HIDE DEF x, y
<1>7. z \in Seq(C) /\ Len(z) = Len(text) + n /\ \A i \in 1..(Len(text) + n) : z[i] = y[i]
  <2>1. Least(size, Len(y)) = Len(text) + n
    BY <1>2, <1>6
  <2>2. /\ z \in Seq(C) /\ Len(z) = Least(size, Len(y))
        /\ \A i \in 1..Least(size, Len(y)) : z[i] = y[i]
    BY <1>6, CutFacts, Zenon
  <2> QED BY <2>1, <2>2, Zenon
<1> HIDE DEF z
<1>8. ASSUME NEW i \in 1..(Len(text) + n) PROVE x[i] = z[i]
  <2>1. CASE i <= Len(text)
    BY <1>1, <1>2, <1>5, <1>6, <1>7, <2>1
  <2>2. CASE ~(i <= Len(text))
    <3>1. i - Len(text) \in 1..n /\ Len(text) + (i - Len(text)) = i
          /\ i - Len(text) \in 1..Len(str)
      BY <1>1, <1>2, <2>2
    <3> QED BY <1>5, <1>6, <1>7, <3>1
  <2> QED BY <2>1, <2>2
<1>9. x = z
  BY <1>5, <1>7, <1>8, SeqEqual
<1> QED BY <1>3, <1>9 DEF z, y

LineCharacters == HexCharacters \cup {"P", "C", ":", "@", Blank, "x", "\n"}

(* The pieces of a line.                                                   *)
LEMMA LineTexts ==
  LET C == LineCharacters
  IN /\ <<"@", Blank>> \in Seq(C) /\ <<"0", "x">> \in Seq(C)
     /\ <<Blank>> \in Seq(C) /\ <<"\n">> \in Seq(C)
     /\ <<"P", "C", ":", Blank>> \in Seq(C) /\ <<Blank, Blank, Blank, Blank>> \in Seq(C)
     /\ Blank \in C /\ HexCharacters \subseteq C /\ {"a", "b"} \subseteq C
<1> DEFINE C == LineCharacters
<1>1. /\ {"P", "C", ":", "@", Blank, "x", "\n", "0"} \subseteq C
      /\ HexCharacters \subseteq C /\ {"a", "b"} \subseteq C
  BY DEF LineCharacters, HexCharacters
<1> HIDE DEF C
<1>2. /\ <<"@", Blank>> \in Seq(C) /\ <<"0", "x">> \in Seq(C)
      /\ <<Blank>> \in Seq(C) /\ <<"\n">> \in Seq(C) /\ Blank \in C
  BY <1>1
<1>3. <<"P", "C", ":", Blank>> \in Seq(C) /\ <<Blank, Blank, Blank, Blank>> \in Seq(C)
  BY <1>1
<1> QED BY <1>1, <1>2, <1>3 DEF C

\* A text with a hexadecimal in a field.
Padded(text, hex, width) == text \o Spaces(width - (Len(hex) + 2)) \o (<<"0", "x">> \o hex)

(* Where there is room, and its number has no more digits than that, the   *)
(* hexadecimal with its padding is as wide as wanted.                      *)
LEMMA HexAppended ==
  ASSUME NEW size \in Nat, NEW text \in Seq(LineCharacters), NEW width \in Nat,
         NEW hex \in Seq(LineCharacters), HexNumeral(hex),
         Len(text) + width <= size, Len(hex) + 2 <= width
  PROVE  AppendHexWithPadding([text |-> text, size |-> size], HexValue(hex), width)
           = [text |-> Padded(text, hex, width), size |-> size]
<1> DEFINE C == LineCharacters
           zero == <<"0", "x">>
<1>1. zero \in Seq(C) /\ Len(zero) = 2
  BY LineTexts
<1> HIDE DEF zero
<1> DEFINE f == [text |-> text, size |-> size]
           t == text \o zero
           g == [text |-> t, size |-> size]
           number == zero \o hex
           whole == text \o number
           padded == text \o Spaces(width - Len(number)) \o number
<1>2. Len(text) \in Nat /\ Len(hex) \in Nat
  OBVIOUS
<1>3. t \in Seq(C) /\ Len(t) = Len(text) + 2
  <2>1. t \in Seq(C) /\ Len(t) = Len(text) + Len(zero)
    BY <1>1, ConcatFacts, Zenon
  <2> QED BY <1>1, <2>1, Zenon
<1>4. number \in Seq(C) /\ Len(number) = Len(hex) + 2
  <2>1. number \in Seq(C) /\ Len(number) = Len(zero) + Len(hex)
    BY <1>1, ConcatFacts, Zenon
  <2> HIDE DEF number
  <2> QED BY <1>2, <1>1, <2>1
<1>5. t \o hex = whole
  BY <1>1, ConcatAssociative
<1>6. AppendString(f, zero) = g
  <2>1. Len(text) <= size
    BY <1>2
  <2>2. AppendString(f, zero) = [text |-> Cut(t, size), size |-> size]
    BY <1>1, <2>1, StringAppended
  <2> HIDE DEF t
  <2>3. Cut(t, size) = t
    BY <1>2, <1>3, CutFacts
  <2> QED BY <2>2, <2>3
<1> HIDE DEF t
<1>7. AppendUint64(g, HexValue(hex), 16) = [text |-> whole, size |-> size]
  <2>1. Room(g) = size - Len(t)
    BY DEF Room
  <2>2. [g EXCEPT !.text = @ \o hex] = [text |-> t \o hex, size |-> size]
    BY TextAppended, Zenon
  <2> HIDE DEF g
  <2>3. Room(g) \in Nat /\ Len(hex) <= Room(g)
    BY <1>2, <1>3, <2>1
  <2>4. AppendUint64(g, HexValue(hex), 16) = [g EXCEPT !.text = @ \o hex]
    BY <2>3, NumberAppended
  <2> QED BY <1>5, <2>2, <2>4, Zenon
<1>8. SubSeq(whole, Len(text) + 1, Len(whole)) = number
  BY <1>4, BehindFirst
<1>9. AppendHexWithPadding(f, HexValue(hex), width)
        = IF Len(number) >= width THEN [text |-> whole, size |-> size]
          ELSE [f EXCEPT !.text = @ \o Spaces(width - Len(number)) \o number]
  <2> HIDE DEF g, whole, number
  <2>1. [text |-> whole, size |-> size].text = whole /\ f.text = text
    OBVIOUS
  <2> HIDE DEF f
  <2> QED BY <1>6, <1>7, <1>8, <2>1, Zenon
         DEF AppendHexWithPadding, zero
<1>10. AppendHexWithPadding(f, HexValue(hex), width) = [text |-> padded, size |-> size]
  <2>1. CASE Len(number) >= width
    <3> DEFINE k == width - Len(number)
    <3>1. k = 0
      BY <1>2, <1>4, <2>1
    <3>2. Spaces(k) = <<>>
      BY <3>1 DEF Spaces
    <3> HIDE DEF k
    <3>3. text \o Spaces(k) = text
      BY <3>2
    <3>4. padded = whole
      BY <3>3 DEF k
    <3> HIDE DEF number, padded, whole
    <3> QED BY <1>9, <2>1, <3>4
  <2>2. CASE ~(Len(number) >= width)
    <3> HIDE DEF number
    <3> QED BY <1>9, <2>2, TextPadded, Zenon
  <2> QED BY <2>1, <2>2
<1>11. width - Len(number) = width - (Len(hex) + 2)
  BY <1>4
<1> QED BY <1>10, <1>11, Zenon DEF Padded, zero

SymbolType == symbol \in Seq(LineCharacters)

\* A line in full.
FullLine(prefix, hex, sym, width) ==
  prefix \o <<"@", Blank>> \o Spaces(width - (Len(hex) + 2)) \o (<<"0", "x">> \o hex)
    \o <<Blank>> \o sym \o <<"\n">>

(* What is written of it, for any prefix, number and symbol.               *)
LEMMA LineWritten ==
  ASSUME NEW size \in Nat, NEW width \in Nat,
         NEW prefix \in Seq(LineCharacters), NEW hex \in Seq(LineCharacters),
         NEW sym \in Seq(LineCharacters), HexNumeral(hex),
         Len(hex) + 2 <= width, Len(prefix) + 2 + width <= size
  PROVE  DumpStackFrameInfo(prefix, HexValue(hex), sym, size, width)
           = Cut(FullLine(prefix, hex, sym, width), size)
<1> DEFINE C == LineCharacters
           at == <<"@", Blank>>
           zero == <<"0", "x">>
           gap == <<Blank>>
           end == <<"\n">>
           padding == Spaces(width - (Len(hex) + 2))
<1>1. Len(prefix) \in Nat /\ Len(hex) \in Nat
  OBVIOUS
<1>2. padding \in Seq(C) /\ Len(padding) = width - (Len(hex) + 2)
  <2> DEFINE k == width - (Len(hex) + 2)
  <2>1. k \in Nat
    BY <1>1
  <2>2. Blank \in C
    BY LineTexts
  <2> HIDE DEF k, C
  <2>3. [i \in 1..k |-> Blank] \in Seq(C) /\ Len([i \in 1..k |-> Blank]) = k
    BY <2>1, <2>2
  <2> QED BY <2>3, Zenon DEF Spaces, k
<1>3. /\ at \in Seq(C) /\ zero \in Seq(C) /\ gap \in Seq(C) /\ end \in Seq(C)
      /\ hex \in Seq(C)
  BY LineTexts
<1>4. Len(at) = 2 /\ Len(zero) = 2
  OBVIOUS
<1>5. padding \in Seq(C)
  BY <1>2
<1> HIDE DEF at, zero, gap, end, padding
<1> DEFINE head == prefix \o at
           lead == head \o padding
           number == zero \o hex
           pointer == lead \o number
           t1 == pointer \o gap
           t2 == t1 \o sym
           t3 == t2 \o end
           F(t) == [text |-> t, size |-> size]
<1>6. head \in Seq(C) /\ Len(head) = Len(prefix) + Len(at)
  BY <1>3, ConcatFacts, Zenon
<1> HIDE DEF head
<1>7. lead \in Seq(C) /\ Len(lead) = Len(head) + Len(padding)
  <2>1. head \in Seq(C)
    BY <1>6
  <2> QED BY <1>5, <2>1, ConcatFacts, Zenon
<1>8. number \in Seq(C) /\ Len(number) = Len(zero) + Len(hex)
  BY <1>3, ConcatFacts, Zenon
<1> HIDE DEF lead, number
<1>9. pointer \in Seq(C) /\ Len(pointer) = Len(lead) + Len(number)
  BY <1>7, <1>8, ConcatFacts, Zenon
<1>10. Len(pointer) <= size
  <2> HIDE DEF pointer
  <2> QED BY <1>1, <1>2, <1>4, <1>6, <1>7, <1>8, <1>9
<1> HIDE DEF pointer
<1>11. t1 \in Seq(C)
  BY <1>3, <1>9, ConcatFacts, Zenon
<1> HIDE DEF t1
<1>12. t2 \in Seq(C)
  BY <1>11, ConcatFacts, Zenon
<1> HIDE DEF t2
<1>13. prefix \o at \o padding \o (zero \o hex) \o gap \o sym \o end = t3
  BY Zenon DEF t2, t1, pointer, lead, number, head
<1>14. AppendString(AppendString(F(<<>>), prefix), at) = F(head)
  <2>1. <<>> \in Seq(C) /\ Len(<<>>) <= size
    OBVIOUS
  <2>2. <<>> \o prefix = prefix
    OBVIOUS
  <2>3. AppendString(F(<<>>), prefix) = F(Cut(<<>> \o prefix, size))
    BY <2>1, StringAppended, Zenon
  <2>4. Len(prefix) <= size /\ Len(head) <= size
    BY <1>1, <1>4, <1>6
  <2>5. Cut(prefix, size) = prefix
    BY <2>4, CutFacts, Zenon
  <2>6. AppendString(F(prefix), at) = F(Cut(head, size))
    BY <1>3, <2>4, StringAppended, Zenon DEF head
  <2>7. Cut(head, size) = head
    BY <1>6, <2>4, CutFacts, Zenon
  <2> HIDE DEF F
  <2> QED BY <2>2, <2>3, <2>5, <2>6, <2>7, Zenon
<1>15. AppendHexWithPadding(F(head), HexValue(hex), width) = F(pointer)
  <2>1. Len(head) + width <= size
    BY <1>1, <1>4, <1>6
  <2>2. AppendHexWithPadding(F(head), HexValue(hex), width) = F(Padded(head, hex, width))
    <3>1. head \in Seq(LineCharacters)
      BY <1>6
    <3> HIDE DEF C
    <3> QED BY <2>1, <3>1, HexAppended, Zenon
  <2> HIDE DEF F
  <2> QED BY <2>2, Zenon DEF Padded, pointer, lead, number, padding, zero
<1>16. ASSUME NEW a \in Seq(C), NEW b \in Seq(C)
       PROVE  AppendString(F(Cut(a, size)), b) = F(Cut(a \o b, size))
  <2> DEFINE c == Cut(a, size)
  <2>1. c \in Seq(C) /\ Len(c) = Least(size, Len(a))
    BY CutFacts, Zenon
  <2>2. Len(a) \in Nat
    OBVIOUS
  <2> HIDE DEF c
  <2>3. Len(c) <= size
    BY <2>1, <2>2 DEF Least
  <2>4. AppendString(F(c), b) = F(Cut(c \o b, size))
    BY <2>1, <2>3, StringAppended, Zenon
  <2>5. Cut(c \o b, size) = Cut(a \o b, size)
    BY CutTwice, Zenon DEF c
  <2> HIDE DEF F
  <2> QED BY <2>4, <2>5, Zenon DEF c
<1>17. Cut(pointer, size) = pointer
  BY <1>9, <1>10, CutFacts, Zenon
<1>18. F(Cut(t3, size)).text = Cut(t3, size) /\ Formatter(size) = F(<<>>)
  BY DEF Formatter
<1> HIDE DEF F
<1>19. AppendString(F(pointer), gap) = F(Cut(t1, size))
  BY <1>3, <1>9, <1>16, <1>17, Zenon DEF t1
<1>20. AppendString(F(Cut(t1, size)), sym) = F(Cut(t2, size))
  BY <1>11, <1>16, Zenon DEF t2
<1>21. AppendString(F(Cut(t2, size)), end) = F(Cut(t3, size))
  BY <1>3, <1>12, <1>16, Zenon
<1> HIDE DEF t3
<1>22. DumpStackFrameInfo(prefix, HexValue(hex), sym, size, width) = F(Cut(t3, size)).text
  BY <1>14, <1>15, <1>18, <1>19, <1>20, <1>21, Zenon
     DEF DumpStackFrameInfo, at, gap, end
<1> QED BY <1>13, <1>18, <1>22, Zenon DEF FullLine, at, zero, gap, end, padding

(* FrameLineExact for every symbol, address and size of buffer.            *)
LEMMA FrameLineAlways == SymbolType => FrameLineExact
<1> SUFFICES ASSUME SymbolType,
                    NEW prefix \in {<<"P", "C", ":", Blank>>, <<Blank, Blank, Blank, Blank>>},
                    NEW p \in Pointers
             PROVE  LET padding == [i \in 1..(Width - 2 - Len(p.hex)) |-> Blank]
                        full == prefix \o <<"@", Blank>> \o padding \o (<<"0", "x">> \o p.hex)
                                  \o <<Blank>> \o symbol \o <<"\n">>
                    IN DumpStackFrameInfo(prefix, p.number, symbol, BufSize, Width)
                         = SubSeq(full, 1, Least(BufSize, Len(full)))
  BY Zenon DEF FrameLineExact
<1> DEFINE C == LineCharacters
           hex == p.hex
           at == <<"@", Blank>>
           zero == <<"0", "x">>
           gap == <<Blank>>
           end == <<"\n">>
           padding == [i \in 1..(Width - 2 - Len(hex)) |-> Blank]
           full == prefix \o at \o padding \o (zero \o hex) \o gap \o symbol \o end
<1>1. /\ Width \in Nat /\ BufSize \in Nat /\ 6 + Width <= BufSize
      /\ hex \in Seq(Range(HexDigits)) /\ HexValue(hex) = p.number
      /\ Len(hex) \in 1..(Width - 2) /\ (hex[1] = "0" => Len(hex) = 1)
  BY Zenon, PointersAssumption
<1> HIDE DEF hex
<1>2. HexNumeral(hex) /\ Len(hex) + 2 <= Width /\ Len(hex) \in Nat
  <2>1. Len(hex) \in Nat \ {0} /\ Len(hex) + 2 <= Width
    BY <1>1
  <2> QED BY <1>1, <2>1, Zenon DEF HexNumeral
<1>3. hex \in Seq(C) /\ symbol \in Seq(C) /\ prefix \in Seq(C)
  <2>1. Range(HexDigits) \subseteq C
    BY LineTexts, HexDigitFacts, Zenon
  <2>2. prefix \in Seq(C)
    BY LineTexts
  <2> HIDE DEF C
  <2>3. hex \in Seq(C)
    BY <1>1, <2>1
  <2> QED BY <2>2, <2>3, Zenon DEF SymbolType, C
<1>4. Len(prefix) + 2 + Width <= BufSize
  <2>1. Len(prefix) = 4
    <3>1. CASE prefix = <<"P", "C", ":", Blank>>
      BY <3>1
    <3>2. CASE prefix = <<Blank, Blank, Blank, Blank>>
      BY <3>2
    <3> QED BY <3>1, <3>2
  <2> QED BY <1>1, <2>1
<1>5. padding = Spaces(Width - (Len(hex) + 2))
  <2>1. Width - 2 - Len(hex) = Width - (Len(hex) + 2)
    BY <1>1, <1>2
  <2> QED BY <2>1, Zenon DEF Spaces
<1> HIDE DEF padding
<1>6. DumpStackFrameInfo(prefix, HexValue(hex), symbol, BufSize, Width) = Cut(full, BufSize)
  <2>1. Width \in Nat /\ BufSize \in Nat
    BY <1>1
  <2>2. HexNumeral(hex) /\ Len(hex) + 2 <= Width
    BY <1>2
  <2>3. DumpStackFrameInfo(prefix, HexValue(hex), symbol, BufSize, Width)
          = Cut(FullLine(prefix, hex, symbol, Width), BufSize)
    BY <1>3, <1>4, <2>1, <2>2, LineWritten, Zenon
  <2> QED BY <1>5, <2>3, Zenon DEF FullLine
<1> HIDE DEF full
<1>7. DumpStackFrameInfo(prefix, p.number, symbol, BufSize, Width)
        = SubSeq(full, 1, Least(BufSize, Len(full)))
  BY <1>1, <1>6, Zenon DEF Cut
<1> QED BY <1>7, Zenon DEF full, padding, hex

(* FrameLineExact for all symbols that the run can grow.                   *)
THEOREM FrameLinesExact == DumpInit /\ [][DumpNext]_dumpVars => []FrameLineExact
<1>1. DumpInit => SymbolType
  <2>1. DumpInit => symbol = <<>>
    BY Zenon DEF DumpInit
  <2> QED BY <2>1 DEF SymbolType
<1>2. SymbolType /\ [DumpNext]_dumpVars => SymbolType'
  <2>1. [DumpNext]_dumpVars => symbol' = symbol \/ \E c \in {"a", "b"} : symbol' = Append(symbol, c)
    BY Zenon DEF DumpNext, GrowMemory, GrowStack, GrowSymbol, dumpVars
  <2>2. {"a", "b"} \subseteq LineCharacters
    BY LineTexts
  <2> QED BY <2>1, <2>2 DEF SymbolType
<1>3. SymbolType => FrameLineExact
  BY FrameLineAlways
<1> QED BY <1>1, <1>2, <1>3, PTL

----------------------------------------------------------------------------
(* The functions whose failure may leave the cursor further on. *)
Eaters == EatsFirst \cup {"ParseNumber"}

(* A function may call one of a smaller rank before it consumes anything.  *)
Rank(f) ==
  CASE f \in {"ParseAbiTags", "ParseBuiltinType", "ParseNVOffset",
             "ParseOperatorName", "ParseTemplateTemplateParam", "ParseVOffset"} -> 1
    [] f \in {"ParseExpression", "ParseUnqualifiedName"} -> 2
    [] f \in {"ParseUnscopedName"} -> 3
    [] f \in {"ParseUnscopedTemplateName", "PrefixPart"} -> 4
    [] f \in {"ParseName", "ParsePrefix"} -> 5
    [] f \in {"ParseClassEnumType", "ParseEncoding"} -> 6
    [] f \in {"ParseType"} -> 7
    [] f \in {"ParseBareFunctionType", "ParseTemplateArg"} -> 8
    [] OTHER -> 0

ParseFunctions == DOMAIN Productions \cup Readers \cup {"ParsePrefix"}

----------------------------------------------------------------------------
(* What is known of the state between two steps of an alternative, as a    *)
(* set of marks: "eaten", something was consumed; "changed", the state may *)
(* differ from the one at the call in more than its cursor; "nest" and     *)
(* "muted", in its nest level and its append mode. The first is {"begun"}. *)
Gains(step) ==
  CASE step.op = "call" /\ step.f # "ParsePrefix" -> {"eaten", "changed"}
    [] step.op = "oneOrMore"         -> {"eaten", "changed"}
    [] step.op \in {"token", "class"} -> {"eaten"}
    [] step.op = "enter"             -> {"changed", "nest"}
    [] step.op = "disable"           -> {"changed", "muted"}
    [] OTHER                         -> {"changed"}

Loses(step) ==
  CASE step.op = "leave"   -> {"nest"}
    [] step.op = "restore" -> {"muted"}
    [] OTHER               -> {}

(* The step may fail here: the alternative restores the state, or there is *)
(* nothing to restore, or it is the cursor of a function that eats first.  *)
LeavesAt(f, restore, m) ==
  restore \/ ("changed" \notin m /\ ("eaten" \notin m \/ f \in EatsFirst))

(* g may be called here. *)
Ready(f, m, g) ==
  g \in ParseFunctions \ {"ParsePrefix"} /\ ("eaten" \in m \/ Rank(g) < Rank(f))

CallFits(f, restore, m, g) ==
  \/ /\ Ready(f, m, g) /\ LeavesAt(f, restore, m)
     /\ restore \/ f \in EatsFirst \/ g \notin Eaters
  \/ g = "ParsePrefix" /\ {"eaten", "nest"} \subseteq m /\ restore

OptionFits(f, m, step) ==
  \/ step.op = "call" /\ Ready(f, m, step.f)
  \/ step.op = "token" /\ step.str \in Seq(STRING) \ {<<>>}

StepFits(f, restore, m, step) ==
  \/ step.op = "call" /\ CallFits(f, restore, m, step.f)
  \/ step.op = "token" /\ step.str \in Seq(STRING) \ {<<>>}
       /\ LeavesAt(f, restore, m)
  \/ step.op = "class" /\ LeavesAt(f, restore, m)
  \/ step.op = "optional" /\ OptionFits(f, m, step.step)
  \/ step.op = "oneOrMore" /\ Ready(f, m, step.f) /\ restore
  \/ step.op = "zeroOrMore" /\ Ready(f, m, step.f) /\ "eaten" \in m
  \/ step.op = "write" /\ step.str \in Seq(STRING)
  \/ step.op \in {"writePrevName", "enter", "leave", "disable", "restore"}

(* The step fits where m is known, and n is known after it. *)
Path(f, restore, m, step, n) ==
  /\ StepFits(f, restore, m, step)
  /\ Gains(step) \subseteq n /\ m \subseteq n \cup Loses(step)
  /\ "eaten" \in n => "eaten" \in m \cup Gains(step)

(* What must be known where a function succeeds. *)
Closed(m) == "eaten" \in m /\ "nest" \notin m /\ "muted" \notin m

Along(f, a, marks) ==
  /\ marks[1] = {"begun"}
  /\ \A j \in 1..Len(a.steps) : Path(f, a.restore, marks[j], a.steps[j],
       marks[j + 1])
  /\ Closed(marks[Len(a.steps) + 1])

Fits(f, a) ==
  a.restore \in BOOLEAN /\ Len(a.steps) \in 1..7 /\ \E marks : Along(f, a, marks)

AllFit(f, alternatives) ==
  /\ Len(alternatives) \in 1..13
  /\ f \in EatsFirst => Len(alternatives) = 1
  /\ \A i \in 1..Len(alternatives) : Fits(f, alternatives[i])

(* A token, where the state is saved. *)
LEMMA TokenPathSaved ==
  ASSUME NEW f, NEW m, NEW n, NEW str \in Tokens,
         m \subseteq n, "eaten" \in n
  PROVE  Path(f, TRUE, m, Token(str), n)
<1> DEFINE step == Token(str)
<1>1. step.op = "token" /\ step.str \in Seq(STRING) \ {<<>>}
  BY TextsAssumption DEF Token
<1> HIDE DEF step
<1>2. Gains(step) = {"eaten"} /\ Loses(step) = {}
  BY <1>1 DEF Gains, Loses
<1>3. StepFits(f, TRUE, m, step)
  BY <1>1 DEF StepFits, LeavesAt
<1>4. Path(f, TRUE, m, step, n)
  BY <1>2, <1>3 DEF Path
<1> QED BY <1>4 DEF step

(* A class of characters, where the state is saved. *)
LEMMA ClassPathSaved ==
  ASSUME NEW f, NEW m, NEW n, NEW str,
         m \subseteq n, "eaten" \in n
  PROVE  Path(f, TRUE, m, CharClass(str), n)
<1> DEFINE step == CharClass(str)
<1>1. step.op = "class"
  BY DEF CharClass
<1> HIDE DEF step
<1>2. Gains(step) = {"eaten"} /\ Loses(step) = {}
  BY <1>1 DEF Gains, Loses
<1>3. StepFits(f, TRUE, m, step)
  BY <1>1 DEF StepFits, LeavesAt
<1>4. Path(f, TRUE, m, step, n)
  BY <1>2, <1>3 DEF Path
<1> QED BY <1>4 DEF step

(* A call, where the state is saved. *)
LEMMA CallPathSaved ==
  ASSUME NEW f, NEW m, NEW n, NEW g,
         Ready(f, m, g), m \subseteq n, "eaten" \in n, "changed" \in n
  PROVE  Path(f, TRUE, m, Call(g), n)
<1> DEFINE step == Call(g)
<1>1. step.op = "call" /\ step.f = g
  BY DEF Call
<1> HIDE DEF step
<1>2. Gains(step) = {"eaten", "changed"} /\ Loses(step) = {}
  BY <1>1 DEF Gains, Loses, Ready
<1>3. StepFits(f, TRUE, m, step)
  BY <1>1 DEF StepFits, CallFits, LeavesAt
<1>4. Path(f, TRUE, m, step, n)
  BY <1>2, <1>3 DEF Path
<1> QED BY <1>4 DEF step

(* A token, where it is not. *)
LEMMA TokenPathPlain ==
  ASSUME NEW f, NEW m, NEW n, NEW str \in Tokens,
         LeavesAt(f, FALSE, m), m \subseteq n, "eaten" \in n
  PROVE  Path(f, FALSE, m, Token(str), n)
<1> DEFINE step == Token(str)
<1>1. step.op = "token" /\ step.str \in Seq(STRING) \ {<<>>}
  BY TextsAssumption DEF Token
<1> HIDE DEF step
<1>2. Gains(step) = {"eaten"} /\ Loses(step) = {}
  BY <1>1 DEF Gains, Loses
<1>3. StepFits(f, FALSE, m, step)
  BY <1>1 DEF StepFits
<1>4. Path(f, FALSE, m, step, n)
  BY <1>2, <1>3 DEF Path
<1> QED BY <1>4 DEF step

(* A class of characters, where it is not. *)
LEMMA ClassPathPlain ==
  ASSUME NEW f, NEW m, NEW n, NEW str,
         LeavesAt(f, FALSE, m), m \subseteq n, "eaten" \in n
  PROVE  Path(f, FALSE, m, CharClass(str), n)
<1> DEFINE step == CharClass(str)
<1>1. step.op = "class"
  BY DEF CharClass
<1> HIDE DEF step
<1>2. Gains(step) = {"eaten"} /\ Loses(step) = {}
  BY <1>1 DEF Gains, Loses
<1>3. StepFits(f, FALSE, m, step)
  BY <1>1 DEF StepFits
<1>4. Path(f, FALSE, m, step, n)
  BY <1>2, <1>3 DEF Path
<1> QED BY <1>4 DEF step

(* A call, where it is not. *)
LEMMA CallPathPlain ==
  ASSUME NEW f, NEW m, NEW n, NEW g,
         LeavesAt(f, FALSE, m), Ready(f, m, g), f \in EatsFirst \/ g \notin Eaters,
           m \subseteq n, "eaten" \in n, "changed" \in n
  PROVE  Path(f, FALSE, m, Call(g), n)
<1> DEFINE step == Call(g)
<1>1. step.op = "call" /\ step.f = g
  BY DEF Call
<1> HIDE DEF step
<1>2. Gains(step) = {"eaten", "changed"} /\ Loses(step) = {}
  BY <1>1 DEF Gains, Loses, Ready
<1>3. StepFits(f, FALSE, m, step)
  BY <1>1 DEF StepFits, CallFits
<1>4. Path(f, FALSE, m, step, n)
  BY <1>2, <1>3 DEF Path
<1> QED BY <1>4 DEF step

(* The call of ParsePrefix, within a nested name. *)
LEMMA PrefixPath ==
  ASSUME NEW f, NEW m, NEW n,
         "eaten" \in m, "nest" \in m, m \subseteq n, "changed" \in n,
           "eaten" \in n => "eaten" \in m
  PROVE  Path(f, TRUE, m, Call("ParsePrefix"), n)
<1> DEFINE step == Call("ParsePrefix")
<1>1. step.op = "call" /\ step.f = "ParsePrefix"
  BY DEF Call
<1> HIDE DEF step
<1>2. Gains(step) = {"changed"} /\ Loses(step) = {}
  BY <1>1 DEF Gains, Loses
<1>3. StepFits(f, TRUE, m, step)
  BY <1>1 DEF StepFits, CallFits
<1>4. Path(f, TRUE, m, step, n)
  BY <1>2, <1>3 DEF Path
<1> QED BY <1>4 DEF step

(* An optional call. *)
LEMMA OptionalPath ==
  ASSUME NEW f, NEW restore \in BOOLEAN, NEW m, NEW n, NEW g,
         Ready(f, m, g), m \subseteq n, "changed" \in n,
           "eaten" \in n => "eaten" \in m
  PROVE  Path(f, restore, m, Optional(Call(g)), n)
<1> DEFINE step == Optional(Call(g))
<1>1. step.op = "optional" /\ step.step.op = "call" /\ step.step.f = g
  BY DEF Optional, Call
<1> HIDE DEF step
<1>2. Gains(step) = {"changed"} /\ Loses(step) = {}
  BY <1>1 DEF Gains, Loses, Ready
<1>3. StepFits(f, restore, m, step)
  BY <1>1 DEF StepFits, OptionFits
<1>4. Path(f, restore, m, step, n)
  BY <1>2, <1>3 DEF Path
<1> QED BY <1>4 DEF step

(* An optional token. *)
LEMMA OptionalTokenPath ==
  ASSUME NEW f, NEW restore \in BOOLEAN, NEW m, NEW n, NEW str \in Tokens,
         m \subseteq n, "changed" \in n, "eaten" \in n => "eaten" \in m
  PROVE  Path(f, restore, m, Optional(Token(str)), n)
<1> DEFINE step == Optional(Token(str))
<1>1. step.op = "optional" /\ step.step.op = "token"
        /\ step.step.str \in Seq(STRING) \ {<<>>}
  BY TextsAssumption DEF Optional, Token
<1> HIDE DEF step
<1>2. Gains(step) = {"changed"} /\ Loses(step) = {}
  BY <1>1 DEF Gains, Loses
<1>3. StepFits(f, restore, m, step)
  BY <1>1 DEF StepFits, OptionFits
<1>4. Path(f, restore, m, step, n)
  BY <1>2, <1>3 DEF Path
<1> QED BY <1>4 DEF step

(* OneOrMore. *)
LEMMA OneOrMorePath ==
  ASSUME NEW f, NEW m, NEW n, NEW g,
         Ready(f, m, g), m \subseteq n, "eaten" \in n, "changed" \in n
  PROVE  Path(f, TRUE, m, OneOrMore(g), n)
<1> DEFINE step == OneOrMore(g)
<1>1. step.op = "oneOrMore" /\ step.f = g
  BY DEF OneOrMore
<1> HIDE DEF step
<1>2. Gains(step) = {"eaten", "changed"} /\ Loses(step) = {}
  BY <1>1 DEF Gains, Loses, Ready
<1>3. StepFits(f, TRUE, m, step)
  BY <1>1 DEF StepFits
<1>4. Path(f, TRUE, m, step, n)
  BY <1>2, <1>3 DEF Path
<1> QED BY <1>4 DEF step

(* ZeroOrMore. *)
LEMMA ZeroOrMorePath ==
  ASSUME NEW f, NEW m, NEW n, NEW g,
         Ready(f, m, g), "eaten" \in m, m \subseteq n, "changed" \in n,
           "eaten" \in n => "eaten" \in m
  PROVE  Path(f, TRUE, m, ZeroOrMore(g), n)
<1> DEFINE step == ZeroOrMore(g)
<1>1. step.op = "zeroOrMore" /\ step.f = g
  BY DEF ZeroOrMore
<1> HIDE DEF step
<1>2. Gains(step) = {"changed"} /\ Loses(step) = {}
  BY <1>1 DEF Gains, Loses, Ready
<1>3. StepFits(f, TRUE, m, step)
  BY <1>1 DEF StepFits
<1>4. Path(f, TRUE, m, step, n)
  BY <1>2, <1>3 DEF Path
<1> QED BY <1>4 DEF step

(* Words written. *)
LEMMA WritePath ==
  ASSUME NEW f, NEW restore \in BOOLEAN, NEW m, NEW n, NEW str \in Words,
         m \subseteq n, "changed" \in n, "eaten" \in n => "eaten" \in m
  PROVE  Path(f, restore, m, Write(str), n)
<1> DEFINE step == Write(str)
<1>1. step.op = "write" /\ step.str \in Seq(STRING)
  BY TextsAssumption DEF Write
<1> HIDE DEF step
<1>2. Gains(step) = {"changed"} /\ Loses(step) = {}
  BY <1>1 DEF Gains, Loses
<1>3. StepFits(f, restore, m, step)
  BY <1>1 DEF StepFits
<1>4. Path(f, restore, m, step, n)
  BY <1>2, <1>3 DEF Path
<1> QED BY <1>4 DEF step

(* The last name written again. *)
LEMMA PrevNamePath ==
  ASSUME NEW f, NEW m, NEW n,
         m \subseteq n, "changed" \in n, "eaten" \in n => "eaten" \in m
  PROVE  Path(f, TRUE, m, WritePrevName, n)
<1> DEFINE step == WritePrevName
<1>1. step.op = "writePrevName"
  BY DEF WritePrevName
<1> HIDE DEF step
<1>2. Gains(step) = {"changed"} /\ Loses(step) = {}
  BY <1>1 DEF Gains, Loses
<1>3. StepFits(f, TRUE, m, step)
  BY <1>1 DEF StepFits
<1>4. Path(f, TRUE, m, step, n)
  BY <1>2, <1>3 DEF Path
<1> QED BY <1>4 DEF step

(* EnterNestedName. *)
LEMMA EnterPath ==
  ASSUME NEW f, NEW m, NEW n,
         m \subseteq n, "changed" \in n, "nest" \in n,
           "eaten" \in n => "eaten" \in m
  PROVE  Path(f, TRUE, m, EnterNestedName, n)
<1> DEFINE step == EnterNestedName
<1>1. step.op = "enter"
  BY DEF EnterNestedName
<1> HIDE DEF step
<1>2. Gains(step) = {"changed", "nest"} /\ Loses(step) = {}
  BY <1>1 DEF Gains, Loses
<1>3. StepFits(f, TRUE, m, step)
  BY <1>1 DEF StepFits
<1>4. Path(f, TRUE, m, step, n)
  BY <1>2, <1>3 DEF Path
<1> QED BY <1>4 DEF step

(* LeaveNestedName. *)
LEMMA LeavePath ==
  ASSUME NEW f, NEW m, NEW n,
         m \subseteq n \cup {"nest"}, "changed" \in n,
           "eaten" \in n => "eaten" \in m
  PROVE  Path(f, TRUE, m, LeaveNestedName, n)
<1> DEFINE step == LeaveNestedName
<1>1. step.op = "leave"
  BY DEF LeaveNestedName
<1> HIDE DEF step
<1>2. Gains(step) = {"changed"} /\ Loses(step) = {"nest"}
  BY <1>1 DEF Gains, Loses
<1>3. StepFits(f, TRUE, m, step)
  BY <1>1 DEF StepFits
<1>4. Path(f, TRUE, m, step, n)
  BY <1>2, <1>3 DEF Path
<1> QED BY <1>4 DEF step

(* DisableAppend. *)
LEMMA DisablePath ==
  ASSUME NEW f, NEW m, NEW n,
         m \subseteq n, "changed" \in n, "muted" \in n,
           "eaten" \in n => "eaten" \in m
  PROVE  Path(f, TRUE, m, DisableAppend, n)
<1> DEFINE step == DisableAppend
<1>1. step.op = "disable"
  BY DEF DisableAppend
<1> HIDE DEF step
<1>2. Gains(step) = {"changed", "muted"} /\ Loses(step) = {}
  BY <1>1 DEF Gains, Loses
<1>3. StepFits(f, TRUE, m, step)
  BY <1>1 DEF StepFits
<1>4. Path(f, TRUE, m, step, n)
  BY <1>2, <1>3 DEF Path
<1> QED BY <1>4 DEF step

(* RestoreAppend. *)
LEMMA RestorePath ==
  ASSUME NEW f, NEW m, NEW n,
         m \subseteq n \cup {"muted"}, "changed" \in n,
           "eaten" \in n => "eaten" \in m
  PROVE  Path(f, TRUE, m, RestoreAppend, n)
<1> DEFINE step == RestoreAppend
<1>1. step.op = "restore"
  BY DEF RestoreAppend
<1> HIDE DEF step
<1>2. Gains(step) = {"changed"} /\ Loses(step) = {"muted"}
  BY <1>1 DEF Gains, Loses
<1>3. StepFits(f, TRUE, m, step)
  BY <1>1 DEF StepFits
<1>4. Path(f, TRUE, m, step, n)
  BY <1>2, <1>3 DEF Path
<1> QED BY <1>4 DEF step

(* An alternative of 1 step. *)
LEMMA Fits1 ==
  ASSUME NEW f, NEW restore \in BOOLEAN, NEW s1,
         NEW m2,
         Path(f, restore, {"begun"}, s1, m2),
         Closed(m2)
  PROVE  Fits(f, [restore |-> restore, steps |-> <<s1>>])
<1> DEFINE marks == <<{"begun"}, m2>>
           steps == <<s1>>
           a == [restore |-> restore, steps |-> steps]
<1>1. a.restore = restore /\ a.steps = steps /\ Len(steps) = 1
  OBVIOUS
<1>2. marks[1] = {"begun"} /\ marks[2] = m2
  OBVIOUS
<1>3. steps[1] = s1
  OBVIOUS
<1> HIDE DEF marks, steps, a
<1>4. ASSUME NEW j \in 1..1 PROVE Path(f, restore, marks[j], steps[j], marks[j + 1])
  BY <1>2, <1>3
<1>5. Len(a.steps) + 1 = 2
  BY <1>1
<1>6. Along(f, a, marks)
  BY <1>1, <1>2, <1>4, <1>5 DEF Along
<1>7. Fits(f, a)
  BY <1>1, <1>6 DEF Fits
<1> QED BY <1>7 DEF a, steps

(* An alternative of 2 steps. *)
LEMMA Fits2 ==
  ASSUME NEW f, NEW restore \in BOOLEAN, NEW s1, NEW s2,
         NEW m2, NEW m3,
         Path(f, restore, {"begun"}, s1, m2),
         Path(f, restore, m2, s2, m3),
         Closed(m3)
  PROVE  Fits(f, [restore |-> restore, steps |-> <<s1, s2>>])
<1> DEFINE marks == <<{"begun"}, m2, m3>>
           steps == <<s1, s2>>
           a == [restore |-> restore, steps |-> steps]
<1>1. a.restore = restore /\ a.steps = steps /\ Len(steps) = 2
  OBVIOUS
<1>2. marks[1] = {"begun"} /\ marks[2] = m2 /\ marks[3] = m3
  OBVIOUS
<1>3. steps[1] = s1 /\ steps[2] = s2
  OBVIOUS
<1> HIDE DEF marks, steps, a
<1>4. ASSUME NEW j \in 1..2 PROVE Path(f, restore, marks[j], steps[j], marks[j + 1])
  <2>0. j = 1 \/ j = 2
    OBVIOUS
  <2>1. CASE j = 1
    BY <2>1, <1>2, <1>3
  <2>2. CASE j = 2
    BY <2>2, <1>2, <1>3
  <2> QED BY <2>0, <2>1, <2>2
<1>5. Len(a.steps) + 1 = 3
  BY <1>1
<1>6. Along(f, a, marks)
  BY <1>1, <1>2, <1>4, <1>5 DEF Along
<1>7. Fits(f, a)
  BY <1>1, <1>6 DEF Fits
<1> QED BY <1>7 DEF a, steps

(* An alternative of 3 steps. *)
LEMMA Fits3 ==
  ASSUME NEW f, NEW restore \in BOOLEAN, NEW s1, NEW s2, NEW s3,
         NEW m2, NEW m3, NEW m4,
         Path(f, restore, {"begun"}, s1, m2),
         Path(f, restore, m2, s2, m3),
         Path(f, restore, m3, s3, m4),
         Closed(m4)
  PROVE  Fits(f, [restore |-> restore, steps |-> <<s1, s2, s3>>])
<1> DEFINE marks == <<{"begun"}, m2, m3, m4>>
           steps == <<s1, s2, s3>>
           a == [restore |-> restore, steps |-> steps]
<1>1. a.restore = restore /\ a.steps = steps /\ Len(steps) = 3
  OBVIOUS
<1>2. marks[1] = {"begun"} /\ marks[2] = m2 /\ marks[3] = m3 /\ marks[4] = m4
  OBVIOUS
<1>3. steps[1] = s1 /\ steps[2] = s2 /\ steps[3] = s3
  OBVIOUS
<1> HIDE DEF marks, steps, a
<1>4. ASSUME NEW j \in 1..3 PROVE Path(f, restore, marks[j], steps[j], marks[j + 1])
  <2>0. j = 1 \/ j = 2 \/ j = 3
    OBVIOUS
  <2>1. CASE j = 1
    BY <2>1, <1>2, <1>3
  <2>2. CASE j = 2
    BY <2>2, <1>2, <1>3
  <2>3. CASE j = 3
    BY <2>3, <1>2, <1>3
  <2> QED BY <2>0, <2>1, <2>2, <2>3
<1>5. Len(a.steps) + 1 = 4
  BY <1>1
<1>6. Along(f, a, marks)
  BY <1>1, <1>2, <1>4, <1>5 DEF Along
<1>7. Fits(f, a)
  BY <1>1, <1>6 DEF Fits
<1> QED BY <1>7 DEF a, steps

(* An alternative of 4 steps. *)
LEMMA Fits4 ==
  ASSUME NEW f, NEW restore \in BOOLEAN, NEW s1, NEW s2, NEW s3, NEW s4,
         NEW m2, NEW m3, NEW m4, NEW m5,
         Path(f, restore, {"begun"}, s1, m2),
         Path(f, restore, m2, s2, m3),
         Path(f, restore, m3, s3, m4),
         Path(f, restore, m4, s4, m5),
         Closed(m5)
  PROVE  Fits(f, [restore |-> restore, steps |-> <<s1, s2, s3, s4>>])
<1> DEFINE marks == <<{"begun"}, m2, m3, m4, m5>>
           steps == <<s1, s2, s3, s4>>
           a == [restore |-> restore, steps |-> steps]
<1>1. a.restore = restore /\ a.steps = steps /\ Len(steps) = 4
  OBVIOUS
<1>2. marks[1] = {"begun"} /\ marks[2] = m2 /\ marks[3] = m3 /\ marks[4] = m4
        /\ marks[5] = m5
  OBVIOUS
<1>3. steps[1] = s1 /\ steps[2] = s2 /\ steps[3] = s3 /\ steps[4] = s4
  OBVIOUS
<1> HIDE DEF marks, steps, a
<1>4. ASSUME NEW j \in 1..4 PROVE Path(f, restore, marks[j], steps[j], marks[j + 1])
  <2>0. j = 1 \/ j = 2 \/ j = 3 \/ j = 4
    OBVIOUS
  <2>1. CASE j = 1
    BY <2>1, <1>2, <1>3
  <2>2. CASE j = 2
    BY <2>2, <1>2, <1>3
  <2>3. CASE j = 3
    BY <2>3, <1>2, <1>3
  <2>4. CASE j = 4
    BY <2>4, <1>2, <1>3
  <2> QED BY <2>0, <2>1, <2>2, <2>3, <2>4
<1>5. Len(a.steps) + 1 = 5
  BY <1>1
<1>6. Along(f, a, marks)
  BY <1>1, <1>2, <1>4, <1>5 DEF Along
<1>7. Fits(f, a)
  BY <1>1, <1>6 DEF Fits
<1> QED BY <1>7 DEF a, steps

(* An alternative of 5 steps. *)
LEMMA Fits5 ==
  ASSUME NEW f, NEW restore \in BOOLEAN, NEW s1, NEW s2, NEW s3, NEW s4, NEW s5,
         NEW m2, NEW m3, NEW m4, NEW m5, NEW m6,
         Path(f, restore, {"begun"}, s1, m2),
         Path(f, restore, m2, s2, m3),
         Path(f, restore, m3, s3, m4),
         Path(f, restore, m4, s4, m5),
         Path(f, restore, m5, s5, m6),
         Closed(m6)
  PROVE  Fits(f, [restore |-> restore, steps |-> <<s1, s2, s3, s4, s5>>])
<1> DEFINE marks == <<{"begun"}, m2, m3, m4, m5, m6>>
           steps == <<s1, s2, s3, s4, s5>>
           a == [restore |-> restore, steps |-> steps]
<1>1. a.restore = restore /\ a.steps = steps /\ Len(steps) = 5
  OBVIOUS
<1>2. marks[1] = {"begun"} /\ marks[2] = m2 /\ marks[3] = m3 /\ marks[4] = m4
        /\ marks[5] = m5 /\ marks[6] = m6
  OBVIOUS
<1>3. steps[1] = s1 /\ steps[2] = s2 /\ steps[3] = s3 /\ steps[4] = s4
        /\ steps[5] = s5
  OBVIOUS
<1> HIDE DEF marks, steps, a
<1>4. ASSUME NEW j \in 1..5 PROVE Path(f, restore, marks[j], steps[j], marks[j + 1])
  <2>0. j = 1 \/ j = 2 \/ j = 3 \/ j = 4 \/ j = 5
    OBVIOUS
  <2>1. CASE j = 1
    BY <2>1, <1>2, <1>3
  <2>2. CASE j = 2
    BY <2>2, <1>2, <1>3
  <2>3. CASE j = 3
    BY <2>3, <1>2, <1>3
  <2>4. CASE j = 4
    BY <2>4, <1>2, <1>3
  <2>5. CASE j = 5
    BY <2>5, <1>2, <1>3
  <2> QED BY <2>0, <2>1, <2>2, <2>3, <2>4, <2>5
<1>5. Len(a.steps) + 1 = 6
  BY <1>1
<1>6. Along(f, a, marks)
  BY <1>1, <1>2, <1>4, <1>5 DEF Along
<1>7. Fits(f, a)
  BY <1>1, <1>6 DEF Fits
<1> QED BY <1>7 DEF a, steps

(* An alternative of 6 steps. *)
LEMMA Fits6 ==
  ASSUME NEW f, NEW restore \in BOOLEAN, NEW s1, NEW s2, NEW s3, NEW s4, NEW s5,
           NEW s6,
         NEW m2, NEW m3, NEW m4, NEW m5, NEW m6, NEW m7,
         Path(f, restore, {"begun"}, s1, m2),
         Path(f, restore, m2, s2, m3),
         Path(f, restore, m3, s3, m4),
         Path(f, restore, m4, s4, m5),
         Path(f, restore, m5, s5, m6),
         Path(f, restore, m6, s6, m7),
         Closed(m7)
  PROVE  Fits(f, [restore |-> restore, steps |-> <<s1, s2, s3, s4, s5, s6>>])
<1> DEFINE marks == <<{"begun"}, m2, m3, m4, m5, m6, m7>>
           steps == <<s1, s2, s3, s4, s5, s6>>
           a == [restore |-> restore, steps |-> steps]
<1>1. a.restore = restore /\ a.steps = steps /\ Len(steps) = 6
  OBVIOUS
<1>2. marks[1] = {"begun"} /\ marks[2] = m2 /\ marks[3] = m3 /\ marks[4] = m4
        /\ marks[5] = m5 /\ marks[6] = m6 /\ marks[7] = m7
  OBVIOUS
<1>3. steps[1] = s1 /\ steps[2] = s2 /\ steps[3] = s3 /\ steps[4] = s4
        /\ steps[5] = s5 /\ steps[6] = s6
  OBVIOUS
<1> HIDE DEF marks, steps, a
<1>4. ASSUME NEW j \in 1..6 PROVE Path(f, restore, marks[j], steps[j], marks[j + 1])
  <2>0. j = 1 \/ j = 2 \/ j = 3 \/ j = 4 \/ j = 5 \/ j = 6
    OBVIOUS
  <2>1. CASE j = 1
    BY <2>1, <1>2, <1>3
  <2>2. CASE j = 2
    BY <2>2, <1>2, <1>3
  <2>3. CASE j = 3
    BY <2>3, <1>2, <1>3
  <2>4. CASE j = 4
    BY <2>4, <1>2, <1>3
  <2>5. CASE j = 5
    BY <2>5, <1>2, <1>3
  <2>6. CASE j = 6
    BY <2>6, <1>2, <1>3
  <2> QED BY <2>0, <2>1, <2>2, <2>3, <2>4, <2>5, <2>6
<1>5. Len(a.steps) + 1 = 7
  BY <1>1
<1>6. Along(f, a, marks)
  BY <1>1, <1>2, <1>4, <1>5 DEF Along
<1>7. Fits(f, a)
  BY <1>1, <1>6 DEF Fits
<1> QED BY <1>7 DEF a, steps

(* An alternative of 7 steps. *)
LEMMA Fits7 ==
  ASSUME NEW f, NEW restore \in BOOLEAN, NEW s1, NEW s2, NEW s3, NEW s4, NEW s5,
           NEW s6, NEW s7,
         NEW m2, NEW m3, NEW m4, NEW m5, NEW m6, NEW m7, NEW m8,
         Path(f, restore, {"begun"}, s1, m2),
         Path(f, restore, m2, s2, m3),
         Path(f, restore, m3, s3, m4),
         Path(f, restore, m4, s4, m5),
         Path(f, restore, m5, s5, m6),
         Path(f, restore, m6, s6, m7),
         Path(f, restore, m7, s7, m8),
         Closed(m8)
  PROVE  Fits(f, [restore |-> restore, steps |-> <<s1, s2, s3, s4, s5, s6, s7>>])
<1> DEFINE marks == <<{"begun"}, m2, m3, m4, m5, m6, m7, m8>>
           steps == <<s1, s2, s3, s4, s5, s6, s7>>
           a == [restore |-> restore, steps |-> steps]
<1>1. a.restore = restore /\ a.steps = steps /\ Len(steps) = 7
  OBVIOUS
<1>2. marks[1] = {"begun"} /\ marks[2] = m2 /\ marks[3] = m3 /\ marks[4] = m4
        /\ marks[5] = m5 /\ marks[6] = m6 /\ marks[7] = m7 /\ marks[8] = m8
  OBVIOUS
<1>3. steps[1] = s1 /\ steps[2] = s2 /\ steps[3] = s3 /\ steps[4] = s4
        /\ steps[5] = s5 /\ steps[6] = s6 /\ steps[7] = s7
  OBVIOUS
<1> HIDE DEF marks, steps, a
<1>4. ASSUME NEW j \in 1..7 PROVE Path(f, restore, marks[j], steps[j], marks[j + 1])
  <2>0. j = 1 \/ j = 2 \/ j = 3 \/ j = 4 \/ j = 5 \/ j = 6 \/ j = 7
    OBVIOUS
  <2>1. CASE j = 1
    BY <2>1, <1>2, <1>3
  <2>2. CASE j = 2
    BY <2>2, <1>2, <1>3
  <2>3. CASE j = 3
    BY <2>3, <1>2, <1>3
  <2>4. CASE j = 4
    BY <2>4, <1>2, <1>3
  <2>5. CASE j = 5
    BY <2>5, <1>2, <1>3
  <2>6. CASE j = 6
    BY <2>6, <1>2, <1>3
  <2>7. CASE j = 7
    BY <2>7, <1>2, <1>3
  <2> QED BY <2>0, <2>1, <2>2, <2>3, <2>4, <2>5, <2>6, <2>7
<1>5. Len(a.steps) + 1 = 8
  BY <1>1
<1>6. Along(f, a, marks)
  BY <1>1, <1>2, <1>4, <1>5 DEF Along
<1>7. Fits(f, a)
  BY <1>1, <1>6 DEF Fits
<1> QED BY <1>7 DEF a, steps

(* 1 alternative. *)
LEMMA AllFit1 ==
  ASSUME NEW f, NEW a1,
         Fits(f, a1)
  PROVE  AllFit(f, <<a1>>)
<1> DEFINE all == <<a1>>
<1>1. Len(all) = 1 /\ all[1] = a1
  OBVIOUS
<1> HIDE DEF all
<1>2. ASSUME NEW i \in 1..1 PROVE Fits(f, all[i])
  BY <1>1
<1>3. AllFit(f, all)
  BY <1>1, <1>2 DEF AllFit
<1> QED BY <1>3 DEF all

(* 2 alternatives. *)
LEMMA AllFit2 ==
  ASSUME NEW f, NEW a1, NEW a2,
         Fits(f, a1), Fits(f, a2), f \notin EatsFirst
  PROVE  AllFit(f, <<a1, a2>>)
<1> DEFINE all == <<a1, a2>>
<1>1. Len(all) = 2 /\ all[1] = a1 /\ all[2] = a2
  OBVIOUS
<1> HIDE DEF all
<1>2. ASSUME NEW i \in 1..2 PROVE Fits(f, all[i])
  <2>1. i = 1 \/ i = 2
    OBVIOUS
  <2> QED BY <2>1, <1>1
<1>3. AllFit(f, all)
  BY <1>1, <1>2 DEF AllFit
<1> QED BY <1>3 DEF all

(* 3 alternatives. *)
LEMMA AllFit3 ==
  ASSUME NEW f, NEW a1, NEW a2, NEW a3,
         Fits(f, a1), Fits(f, a2), Fits(f, a3), f \notin EatsFirst
  PROVE  AllFit(f, <<a1, a2, a3>>)
<1> DEFINE all == <<a1, a2, a3>>
<1>1. Len(all) = 3 /\ all[1] = a1 /\ all[2] = a2 /\ all[3] = a3
  OBVIOUS
<1> HIDE DEF all
<1>2. ASSUME NEW i \in 1..3 PROVE Fits(f, all[i])
  <2>1. i = 1 \/ i = 2 \/ i = 3
    OBVIOUS
  <2> QED BY <2>1, <1>1
<1>3. AllFit(f, all)
  BY <1>1, <1>2 DEF AllFit
<1> QED BY <1>3 DEF all

(* 4 alternatives. *)
LEMMA AllFit4 ==
  ASSUME NEW f, NEW a1, NEW a2, NEW a3, NEW a4,
         Fits(f, a1), Fits(f, a2), Fits(f, a3), Fits(f, a4), f \notin EatsFirst
  PROVE  AllFit(f, <<a1, a2, a3, a4>>)
<1> DEFINE all == <<a1, a2, a3, a4>>
<1>1. Len(all) = 4 /\ all[1] = a1 /\ all[2] = a2 /\ all[3] = a3 /\ all[4] = a4
  OBVIOUS
<1> HIDE DEF all
<1>2. ASSUME NEW i \in 1..4 PROVE Fits(f, all[i])
  <2>1. i = 1 \/ i = 2 \/ i = 3 \/ i = 4
    OBVIOUS
  <2> QED BY <2>1, <1>1
<1>3. AllFit(f, all)
  BY <1>1, <1>2 DEF AllFit
<1> QED BY <1>3 DEF all

(* 8 alternatives. *)
LEMMA AllFit8 ==
  ASSUME NEW f, NEW a1, NEW a2, NEW a3, NEW a4, NEW a5, NEW a6, NEW a7, NEW a8,
         Fits(f, a1), Fits(f, a2), Fits(f, a3), Fits(f, a4), Fits(f, a5),
           Fits(f, a6), Fits(f, a7), Fits(f, a8), f \notin EatsFirst
  PROVE  AllFit(f, <<a1, a2, a3, a4, a5, a6, a7, a8>>)
<1> DEFINE all == <<a1, a2, a3, a4, a5, a6, a7, a8>>
<1>1. Len(all) = 8 /\ all[1] = a1 /\ all[2] = a2 /\ all[3] = a3 /\ all[4] = a4
        /\ all[5] = a5 /\ all[6] = a6 /\ all[7] = a7 /\ all[8] = a8
  OBVIOUS
<1> HIDE DEF all
<1>2. ASSUME NEW i \in 1..8 PROVE Fits(f, all[i])
  <2>1. i = 1 \/ i = 2 \/ i = 3 \/ i = 4 \/ i = 5 \/ i = 6 \/ i = 7 \/ i = 8
    OBVIOUS
  <2> QED BY <2>1, <1>1
<1>3. AllFit(f, all)
  BY <1>1, <1>2 DEF AllFit
<1> QED BY <1>3 DEF all

(* 9 alternatives. *)
LEMMA AllFit9 ==
  ASSUME NEW f, NEW a1, NEW a2, NEW a3, NEW a4, NEW a5, NEW a6, NEW a7, NEW a8,
           NEW a9,
         Fits(f, a1), Fits(f, a2), Fits(f, a3), Fits(f, a4), Fits(f, a5),
           Fits(f, a6), Fits(f, a7), Fits(f, a8), Fits(f, a9), f \notin EatsFirst
  PROVE  AllFit(f, <<a1, a2, a3, a4, a5, a6, a7, a8, a9>>)
<1> DEFINE all == <<a1, a2, a3, a4, a5, a6, a7, a8, a9>>
<1>1. Len(all) = 9 /\ all[1] = a1 /\ all[2] = a2 /\ all[3] = a3 /\ all[4] = a4
        /\ all[5] = a5 /\ all[6] = a6 /\ all[7] = a7 /\ all[8] = a8 /\ all[9] = a9
  OBVIOUS
<1> HIDE DEF all
<1>2. ASSUME NEW i \in 1..9 PROVE Fits(f, all[i])
  <2>1. i = 1 \/ i = 2 \/ i = 3 \/ i = 4 \/ i = 5 \/ i = 6 \/ i = 7 \/ i = 8
          \/ i = 9
    OBVIOUS
  <2> QED BY <2>1, <1>1
<1>3. AllFit(f, all)
  BY <1>1, <1>2 DEF AllFit
<1> QED BY <1>3 DEF all

(* 13 alternatives. *)
LEMMA AllFit13 ==
  ASSUME NEW f, NEW a1, NEW a2, NEW a3, NEW a4, NEW a5, NEW a6, NEW a7, NEW a8,
           NEW a9, NEW a10, NEW a11, NEW a12, NEW a13,
         Fits(f, a1), Fits(f, a2), Fits(f, a3), Fits(f, a4), Fits(f, a5),
           Fits(f, a6), Fits(f, a7), Fits(f, a8), Fits(f, a9), Fits(f, a10),
             Fits(f, a11), Fits(f, a12), Fits(f, a13), f \notin EatsFirst
  PROVE  AllFit(f, <<a1, a2, a3, a4, a5, a6, a7, a8, a9, a10, a11, a12, a13>>)
<1> DEFINE all == <<a1, a2, a3, a4, a5, a6, a7, a8, a9, a10, a11, a12, a13>>
<1>1. Len(all) = 13 /\ all[1] = a1 /\ all[2] = a2 /\ all[3] = a3 /\ all[4] = a4
        /\ all[5] = a5 /\ all[6] = a6 /\ all[7] = a7 /\ all[8] = a8 /\ all[9] = a9
             /\ all[10] = a10 /\ all[11] = a11 /\ all[12] = a12 /\ all[13] = a13
  OBVIOUS
<1> HIDE DEF all
<1>2. ASSUME NEW i \in 1..13 PROVE Fits(f, all[i])
  <2>1. i = 1 \/ i = 2 \/ i = 3 \/ i = 4 \/ i = 5 \/ i = 6 \/ i = 7 \/ i = 8
          \/ i = 9 \/ i = 10 \/ i = 11 \/ i = 12 \/ i = 13
    OBVIOUS
  <2> QED BY <2>1, <1>1
<1>3. AllFit(f, all)
  BY <1>1, <1>2 DEF AllFit
<1> QED BY <1>3 DEF all

(* The alternatives of ParseMangledName. *)
LEMMA ParseMangledNameFits == AllFit("ParseMangledName", ParseMangledName)
<1>1. Fits("ParseMangledName", Plain(<<Token("_Z"), Call("ParseEncoding")>>))
  <2>1. Ready("ParseMangledName", {"begun", "eaten"}, "ParseEncoding")
    BY DEF Ready, ParseFunctions, Productions, Readers, Rank
  <2>2. /\ Path("ParseMangledName", FALSE, {"begun"}, Token("_Z"),
             {"begun", "eaten"})
        /\ Path("ParseMangledName", FALSE, {"begun", "eaten"},
             Call("ParseEncoding"), {"begun", "eaten", "changed"})
        /\ Closed({"begun", "eaten", "changed"})
    BY <2>1, CallPathPlain, TokenPathPlain
         DEF Eaters, EatsFirst, LeavesAt, Closed, Tokens, Words
  <2> QED BY <2>2, Fits2, Zenon DEF Plain
<1> QED BY <1>1, AllFit1, Zenon DEF ParseMangledName

(* The alternatives of ParseEncoding. *)
LEMMA ParseEncodingFits == AllFit("ParseEncoding", ParseEncoding)
<1>1. Fits("ParseEncoding",
        Saved(<<Call("ParseName"), Call("ParseBareFunctionType")>>))
  <2>1. /\ Ready("ParseEncoding", {"begun"}, "ParseName")
        /\ Ready("ParseEncoding", {"begun", "eaten", "changed"},
             "ParseBareFunctionType")
    BY DEF Ready, ParseFunctions, Productions, Readers, Rank
  <2>2. /\ Path("ParseEncoding", TRUE, {"begun"}, Call("ParseName"),
             {"begun", "eaten", "changed"})
        /\ Path("ParseEncoding", TRUE, {"begun", "eaten", "changed"},
             Call("ParseBareFunctionType"), {"begun", "eaten", "changed"})
        /\ Closed({"begun", "eaten", "changed"})
    BY <2>1, CallPathSaved DEF Eaters, EatsFirst, LeavesAt, Closed, Tokens, Words
  <2> QED BY <2>2, Fits2, Zenon DEF Saved
<1>2. Fits("ParseEncoding", Plain(<<Call("ParseName")>>))
  <2>1. Ready("ParseEncoding", {"begun"}, "ParseName")
    BY DEF Ready, ParseFunctions, Productions, Readers, Rank
  <2>2. /\ Path("ParseEncoding", FALSE, {"begun"}, Call("ParseName"),
             {"begun", "eaten", "changed"})
        /\ Closed({"begun", "eaten", "changed"})
    BY <2>1, CallPathPlain DEF Eaters, EatsFirst, LeavesAt, Closed, Tokens, Words
  <2> QED BY <2>2, Fits1, Zenon DEF Plain
<1>3. Fits("ParseEncoding", Plain(<<Call("ParseSpecialName")>>))
  <2>1. Ready("ParseEncoding", {"begun"}, "ParseSpecialName")
    BY DEF Ready, ParseFunctions, Productions, Readers, Rank
  <2>2. /\ Path("ParseEncoding", FALSE, {"begun"}, Call("ParseSpecialName"),
             {"begun", "eaten", "changed"})
        /\ Closed({"begun", "eaten", "changed"})
    BY <2>1, CallPathPlain DEF Eaters, EatsFirst, LeavesAt, Closed, Tokens, Words
  <2> QED BY <2>2, Fits1, Zenon DEF Plain
<1>4. "ParseEncoding" \notin EatsFirst
  BY DEF EatsFirst
<1> QED BY <1>1, <1>2, <1>3, <1>4, AllFit3, Zenon DEF ParseEncoding

(* The alternatives of ParseName. *)
LEMMA ParseNameFits == AllFit("ParseName", ParseName)
<1>1. Fits("ParseName", Plain(<<Call("ParseNestedName")>>))
  <2>1. Ready("ParseName", {"begun"}, "ParseNestedName")
    BY DEF Ready, ParseFunctions, Productions, Readers, Rank
  <2>2. /\ Path("ParseName", FALSE, {"begun"}, Call("ParseNestedName"),
             {"begun", "eaten", "changed"})
        /\ Closed({"begun", "eaten", "changed"})
    BY <2>1, CallPathPlain DEF Eaters, EatsFirst, LeavesAt, Closed, Tokens, Words
  <2> QED BY <2>2, Fits1, Zenon DEF Plain
<1>2. Fits("ParseName", Plain(<<Call("ParseLocalName")>>))
  <2>1. Ready("ParseName", {"begun"}, "ParseLocalName")
    BY DEF Ready, ParseFunctions, Productions, Readers, Rank
  <2>2. /\ Path("ParseName", FALSE, {"begun"}, Call("ParseLocalName"),
             {"begun", "eaten", "changed"})
        /\ Closed({"begun", "eaten", "changed"})
    BY <2>1, CallPathPlain DEF Eaters, EatsFirst, LeavesAt, Closed, Tokens, Words
  <2> QED BY <2>2, Fits1, Zenon DEF Plain
<1>3. Fits("ParseName",
        Saved(<<Call("ParseUnscopedTemplateName"), Call("ParseTemplateArgs")>>))
  <2>1. /\ Ready("ParseName", {"begun"}, "ParseUnscopedTemplateName")
        /\ Ready("ParseName", {"begun", "eaten", "changed"}, "ParseTemplateArgs")
    BY DEF Ready, ParseFunctions, Productions, Readers, Rank
  <2>2. /\ Path("ParseName", TRUE, {"begun"}, Call("ParseUnscopedTemplateName"),
             {"begun", "eaten", "changed"})
        /\ Path("ParseName", TRUE, {"begun", "eaten", "changed"},
             Call("ParseTemplateArgs"), {"begun", "eaten", "changed"})
        /\ Closed({"begun", "eaten", "changed"})
    BY <2>1, CallPathSaved DEF Eaters, EatsFirst, LeavesAt, Closed, Tokens, Words
  <2> QED BY <2>2, Fits2, Zenon DEF Saved
<1>4. Fits("ParseName", Plain(<<Call("ParseUnscopedName")>>))
  <2>1. Ready("ParseName", {"begun"}, "ParseUnscopedName")
    BY DEF Ready, ParseFunctions, Productions, Readers, Rank
  <2>2. /\ Path("ParseName", FALSE, {"begun"}, Call("ParseUnscopedName"),
             {"begun", "eaten", "changed"})
        /\ Closed({"begun", "eaten", "changed"})
    BY <2>1, CallPathPlain DEF Eaters, EatsFirst, LeavesAt, Closed, Tokens, Words
  <2> QED BY <2>2, Fits1, Zenon DEF Plain
<1>5. "ParseName" \notin EatsFirst
  BY DEF EatsFirst
<1> QED BY <1>1, <1>2, <1>3, <1>4, <1>5, AllFit4, Zenon DEF ParseName

(* The alternatives of ParseUnscopedName. *)
LEMMA ParseUnscopedNameFits == AllFit("ParseUnscopedName", ParseUnscopedName)
<1>1. Fits("ParseUnscopedName", Plain(<<Call("ParseUnqualifiedName")>>))
  <2>1. Ready("ParseUnscopedName", {"begun"}, "ParseUnqualifiedName")
    BY DEF Ready, ParseFunctions, Productions, Readers, Rank
  <2>2. /\ Path("ParseUnscopedName", FALSE, {"begun"}, Call("ParseUnqualifiedName"),
             {"begun", "eaten", "changed"})
        /\ Closed({"begun", "eaten", "changed"})
    BY <2>1, CallPathPlain DEF Eaters, EatsFirst, LeavesAt, Closed, Tokens, Words
  <2> QED BY <2>2, Fits1, Zenon DEF Plain
<1>2. Fits("ParseUnscopedName",
        Saved(<<Token("St"), Write("std::"), Call("ParseUnqualifiedName")>>))
  <2>1. Ready("ParseUnscopedName", {"begun", "eaten", "changed"},
          "ParseUnqualifiedName")
    BY DEF Ready, ParseFunctions, Productions, Readers, Rank
  <2>2. /\ Path("ParseUnscopedName", TRUE, {"begun"}, Token("St"),
             {"begun", "eaten"})
        /\ Path("ParseUnscopedName", TRUE, {"begun", "eaten"}, Write("std::"),
             {"begun", "eaten", "changed"})
        /\ Path("ParseUnscopedName", TRUE, {"begun", "eaten", "changed"},
             Call("ParseUnqualifiedName"), {"begun", "eaten", "changed"})
        /\ Closed({"begun", "eaten", "changed"})
    BY <2>1, CallPathSaved, TokenPathSaved, WritePath
         DEF Eaters, EatsFirst, LeavesAt, Closed, Tokens, Words
  <2> QED BY <2>2, Fits3, Zenon DEF Saved
<1>3. "ParseUnscopedName" \notin EatsFirst
  BY DEF EatsFirst
<1> QED BY <1>1, <1>2, <1>3, AllFit2, Zenon DEF ParseUnscopedName

(* The alternatives of ParseUnscopedTemplateName. *)
LEMMA ParseUnscopedTemplateNameFits == AllFit("ParseUnscopedTemplateName",
  ParseUnscopedTemplateName)
<1>1. Fits("ParseUnscopedTemplateName", Plain(<<Call("ParseUnscopedName")>>))
  <2>1. Ready("ParseUnscopedTemplateName", {"begun"}, "ParseUnscopedName")
    BY DEF Ready, ParseFunctions, Productions, Readers, Rank
  <2>2. /\ Path("ParseUnscopedTemplateName", FALSE, {"begun"},
             Call("ParseUnscopedName"), {"begun", "eaten", "changed"})
        /\ Closed({"begun", "eaten", "changed"})
    BY <2>1, CallPathPlain DEF Eaters, EatsFirst, LeavesAt, Closed, Tokens, Words
  <2> QED BY <2>2, Fits1, Zenon DEF Plain
<1>2. Fits("ParseUnscopedTemplateName", Plain(<<Call("ParseSubstitution")>>))
  <2>1. Ready("ParseUnscopedTemplateName", {"begun"}, "ParseSubstitution")
    BY DEF Ready, ParseFunctions, Productions, Readers, Rank
  <2>2. /\ Path("ParseUnscopedTemplateName", FALSE, {"begun"},
             Call("ParseSubstitution"), {"begun", "eaten", "changed"})
        /\ Closed({"begun", "eaten", "changed"})
    BY <2>1, CallPathPlain DEF Eaters, EatsFirst, LeavesAt, Closed, Tokens, Words
  <2> QED BY <2>2, Fits1, Zenon DEF Plain
<1>3. "ParseUnscopedTemplateName" \notin EatsFirst
  BY DEF EatsFirst
<1> QED BY <1>1, <1>2, <1>3, AllFit2, Zenon DEF ParseUnscopedTemplateName

(* The alternatives of ParseNestedName. *)
LEMMA ParseNestedNameFits == AllFit("ParseNestedName", ParseNestedName)
<1>1. Fits("ParseNestedName",
        Saved(<<Token("N"), EnterNestedName, Optional(Call("ParseCVQualifiers")),
          Call("ParsePrefix"), LeaveNestedName, Token("E")>>))
  <2>1. Ready("ParseNestedName", {"begun", "eaten", "changed", "nest"},
          "ParseCVQualifiers")
    BY DEF Ready, ParseFunctions, Productions, Readers, Rank
  <2>2. /\ Path("ParseNestedName", TRUE, {"begun"}, Token("N"), {"begun", "eaten"})
        /\ Path("ParseNestedName", TRUE, {"begun", "eaten"}, EnterNestedName,
             {"begun", "eaten", "changed", "nest"})
        /\ Path("ParseNestedName", TRUE, {"begun", "eaten", "changed", "nest"},
             Optional(Call("ParseCVQualifiers")),
               {"begun", "eaten", "changed", "nest"})
    BY <2>1, EnterPath, LeavePath, OptionalPath, PrefixPath, TokenPathSaved
         DEF Eaters, EatsFirst, LeavesAt, Closed, Tokens, Words
  <2>3. Path("ParseNestedName", TRUE, {"begun", "eaten", "changed", "nest"},
          Call("ParsePrefix"), {"begun", "eaten", "changed", "nest"})
    <3> DEFINE m == {"begun", "eaten", "changed", "nest"}
    <3>1. "eaten" \in m /\ "nest" \in m /\ "changed" \in m /\ m \subseteq m
      OBVIOUS
    <3> HIDE DEF m
    <3>2. Path("ParseNestedName", TRUE, m, Call("ParsePrefix"), m)
      BY <3>1, PrefixPath
    <3> QED BY <3>2 DEF m
  <2>4. /\ Path("ParseNestedName", TRUE, {"begun", "eaten", "changed", "nest"},
             LeaveNestedName, {"begun", "eaten", "changed"})
        /\ Path("ParseNestedName", TRUE, {"begun", "eaten", "changed"}, Token("E"),
             {"begun", "eaten", "changed"})
        /\ Closed({"begun", "eaten", "changed"})
    BY <2>1, EnterPath, LeavePath, OptionalPath, PrefixPath, TokenPathSaved
         DEF Eaters, EatsFirst, LeavesAt, Closed, Tokens, Words
  <2> QED BY <2>2, <2>3, <2>4, Fits6, Zenon DEF Saved
<1> QED BY <1>1, AllFit1, Zenon DEF ParseNestedName

(* The alternatives of PrefixPart. *)
LEMMA PrefixPartFits == AllFit("PrefixPart", PrefixPart)
<1>1. Fits("PrefixPart", Plain(<<Call("ParseTemplateParam")>>))
  <2>1. Ready("PrefixPart", {"begun"}, "ParseTemplateParam")
    BY DEF Ready, ParseFunctions, Productions, Readers, Rank
  <2>2. /\ Path("PrefixPart", FALSE, {"begun"}, Call("ParseTemplateParam"),
             {"begun", "eaten", "changed"})
        /\ Closed({"begun", "eaten", "changed"})
    BY <2>1, CallPathPlain DEF Eaters, EatsFirst, LeavesAt, Closed, Tokens, Words
  <2> QED BY <2>2, Fits1, Zenon DEF Plain
<1>2. Fits("PrefixPart", Plain(<<Call("ParseSubstitution")>>))
  <2>1. Ready("PrefixPart", {"begun"}, "ParseSubstitution")
    BY DEF Ready, ParseFunctions, Productions, Readers, Rank
  <2>2. /\ Path("PrefixPart", FALSE, {"begun"}, Call("ParseSubstitution"),
             {"begun", "eaten", "changed"})
        /\ Closed({"begun", "eaten", "changed"})
    BY <2>1, CallPathPlain DEF Eaters, EatsFirst, LeavesAt, Closed, Tokens, Words
  <2> QED BY <2>2, Fits1, Zenon DEF Plain
<1>3. Fits("PrefixPart", Plain(<<Call("ParseUnscopedName")>>))
  <2>1. Ready("PrefixPart", {"begun"}, "ParseUnscopedName")
    BY DEF Ready, ParseFunctions, Productions, Readers, Rank
  <2>2. /\ Path("PrefixPart", FALSE, {"begun"}, Call("ParseUnscopedName"),
             {"begun", "eaten", "changed"})
        /\ Closed({"begun", "eaten", "changed"})
    BY <2>1, CallPathPlain DEF Eaters, EatsFirst, LeavesAt, Closed, Tokens, Words
  <2> QED BY <2>2, Fits1, Zenon DEF Plain
<1>4. "PrefixPart" \notin EatsFirst
  BY DEF EatsFirst
<1> QED BY <1>1, <1>2, <1>3, <1>4, AllFit3, Zenon DEF PrefixPart

(* The alternatives of ParseUnqualifiedName. *)
LEMMA ParseUnqualifiedNameFits == AllFit("ParseUnqualifiedName",
  ParseUnqualifiedName)
<1>1. Fits("ParseUnqualifiedName", Plain(<<Call("ParseOperatorName")>>))
  <2>1. Ready("ParseUnqualifiedName", {"begun"}, "ParseOperatorName")
    BY DEF Ready, ParseFunctions, Productions, Readers, Rank
  <2>2. /\ Path("ParseUnqualifiedName", FALSE, {"begun"}, Call("ParseOperatorName"),
             {"begun", "eaten", "changed"})
        /\ Closed({"begun", "eaten", "changed"})
    BY <2>1, CallPathPlain DEF Eaters, EatsFirst, LeavesAt, Closed, Tokens, Words
  <2> QED BY <2>2, Fits1, Zenon DEF Plain
<1>2. Fits("ParseUnqualifiedName", Plain(<<Call("ParseCtorDtorName")>>))
  <2>1. Ready("ParseUnqualifiedName", {"begun"}, "ParseCtorDtorName")
    BY DEF Ready, ParseFunctions, Productions, Readers, Rank
  <2>2. /\ Path("ParseUnqualifiedName", FALSE, {"begun"}, Call("ParseCtorDtorName"),
             {"begun", "eaten", "changed"})
        /\ Closed({"begun", "eaten", "changed"})
    BY <2>1, CallPathPlain DEF Eaters, EatsFirst, LeavesAt, Closed, Tokens, Words
  <2> QED BY <2>2, Fits1, Zenon DEF Plain
<1>3. Fits("ParseUnqualifiedName",
        Plain(<<Call("ParseSourceName"), Optional(Call("ParseAbiTags"))>>))
  <2>1. /\ Ready("ParseUnqualifiedName", {"begun"}, "ParseSourceName")
        /\ Ready("ParseUnqualifiedName", {"begun", "eaten", "changed"},
             "ParseAbiTags")
    BY DEF Ready, ParseFunctions, Productions, Readers, Rank
  <2>2. /\ Path("ParseUnqualifiedName", FALSE, {"begun"}, Call("ParseSourceName"),
             {"begun", "eaten", "changed"})
        /\ Path("ParseUnqualifiedName", FALSE, {"begun", "eaten", "changed"},
             Optional(Call("ParseAbiTags")), {"begun", "eaten", "changed"})
        /\ Closed({"begun", "eaten", "changed"})
    BY <2>1, CallPathPlain, OptionalPath
         DEF Eaters, EatsFirst, LeavesAt, Closed, Tokens, Words
  <2> QED BY <2>2, Fits2, Zenon DEF Plain
<1>4. Fits("ParseUnqualifiedName",
        Plain(<<Call("ParseLocalSourceName"), Optional(Call("ParseAbiTags"))>>))
  <2>1. /\ Ready("ParseUnqualifiedName", {"begun"}, "ParseLocalSourceName")
        /\ Ready("ParseUnqualifiedName", {"begun", "eaten", "changed"},
             "ParseAbiTags")
    BY DEF Ready, ParseFunctions, Productions, Readers, Rank
  <2>2. /\ Path("ParseUnqualifiedName", FALSE, {"begun"},
             Call("ParseLocalSourceName"), {"begun", "eaten", "changed"})
        /\ Path("ParseUnqualifiedName", FALSE, {"begun", "eaten", "changed"},
             Optional(Call("ParseAbiTags")), {"begun", "eaten", "changed"})
        /\ Closed({"begun", "eaten", "changed"})
    BY <2>1, CallPathPlain, OptionalPath
         DEF Eaters, EatsFirst, LeavesAt, Closed, Tokens, Words
  <2> QED BY <2>2, Fits2, Zenon DEF Plain
<1>5. "ParseUnqualifiedName" \notin EatsFirst
  BY DEF EatsFirst
<1> QED BY <1>1, <1>2, <1>3, <1>4, <1>5, AllFit4, Zenon DEF ParseUnqualifiedName

(* The alternatives of ParseLocalSourceName. *)
LEMMA ParseLocalSourceNameFits == AllFit("ParseLocalSourceName",
  ParseLocalSourceName)
<1>1. Fits("ParseLocalSourceName",
        Saved(<<Token("L"), Call("ParseSourceName"),
          Optional(Call("ParseDiscriminator"))>>))
  <2>1. /\ Ready("ParseLocalSourceName", {"begun", "eaten"}, "ParseSourceName")
        /\ Ready("ParseLocalSourceName", {"begun", "eaten", "changed"},
             "ParseDiscriminator")
    BY DEF Ready, ParseFunctions, Productions, Readers, Rank
  <2>2. /\ Path("ParseLocalSourceName", TRUE, {"begun"}, Token("L"),
             {"begun", "eaten"})
        /\ Path("ParseLocalSourceName", TRUE, {"begun", "eaten"},
             Call("ParseSourceName"), {"begun", "eaten", "changed"})
        /\ Path("ParseLocalSourceName", TRUE, {"begun", "eaten", "changed"},
             Optional(Call("ParseDiscriminator")), {"begun", "eaten", "changed"})
        /\ Closed({"begun", "eaten", "changed"})
    BY <2>1, CallPathSaved, OptionalPath, TokenPathSaved
         DEF Eaters, EatsFirst, LeavesAt, Closed, Tokens, Words
  <2> QED BY <2>2, Fits3, Zenon DEF Saved
<1> QED BY <1>1, AllFit1, Zenon DEF ParseLocalSourceName

(* The alternatives of ParseAbiTags. *)
LEMMA ParseAbiTagsFits == AllFit("ParseAbiTags", ParseAbiTags)
<1>1. Fits("ParseAbiTags",
        Saved(<<DisableAppend, OneOrMore("ParseAbiTag"), RestoreAppend>>))
  <2>1. Ready("ParseAbiTags", {"begun", "changed", "muted"}, "ParseAbiTag")
    BY DEF Ready, ParseFunctions, Productions, Readers, Rank
  <2>2. /\ Path("ParseAbiTags", TRUE, {"begun"}, DisableAppend,
             {"begun", "changed", "muted"})
        /\ Path("ParseAbiTags", TRUE, {"begun", "changed", "muted"},
             OneOrMore("ParseAbiTag"), {"begun", "eaten", "changed", "muted"})
        /\ Path("ParseAbiTags", TRUE, {"begun", "eaten", "changed", "muted"},
             RestoreAppend, {"begun", "eaten", "changed"})
        /\ Closed({"begun", "eaten", "changed"})
    BY <2>1, DisablePath, OneOrMorePath, RestorePath
         DEF Eaters, EatsFirst, LeavesAt, Closed, Tokens, Words
  <2> QED BY <2>2, Fits3, Zenon DEF Saved
<1> QED BY <1>1, AllFit1, Zenon DEF ParseAbiTags

(* The alternatives of ParseAbiTag. *)
LEMMA ParseAbiTagFits == AllFit("ParseAbiTag", ParseAbiTag)
<1>1. Fits("ParseAbiTag", Plain(<<Token("B"), Call("ParseSourceName")>>))
  <2>1. Ready("ParseAbiTag", {"begun", "eaten"}, "ParseSourceName")
    BY DEF Ready, ParseFunctions, Productions, Readers, Rank
  <2>2. /\ Path("ParseAbiTag", FALSE, {"begun"}, Token("B"), {"begun", "eaten"})
        /\ Path("ParseAbiTag", FALSE, {"begun", "eaten"}, Call("ParseSourceName"),
             {"begun", "eaten", "changed"})
        /\ Closed({"begun", "eaten", "changed"})
    BY <2>1, CallPathPlain, TokenPathPlain
         DEF Eaters, EatsFirst, LeavesAt, Closed, Tokens, Words
  <2> QED BY <2>2, Fits2, Zenon DEF Plain
<1> QED BY <1>1, AllFit1, Zenon DEF ParseAbiTag

(* The alternatives of ParseOperatorName. *)
LEMMA ParseOperatorNameFits == AllFit("ParseOperatorName", ParseOperatorName)
<1>1. Fits("ParseOperatorName",
        Saved(<<Token("cv"), Write("operator "), EnterNestedName, Call("ParseType"),
          LeaveNestedName>>))
  <2>1. Ready("ParseOperatorName", {"begun", "eaten", "changed", "nest"},
          "ParseType")
    BY DEF Ready, ParseFunctions, Productions, Readers, Rank
  <2>2. /\ Path("ParseOperatorName", TRUE, {"begun"}, Token("cv"),
             {"begun", "eaten"})
        /\ Path("ParseOperatorName", TRUE, {"begun", "eaten"}, Write("operator "),
             {"begun", "eaten", "changed"})
        /\ Path("ParseOperatorName", TRUE, {"begun", "eaten", "changed"},
             EnterNestedName, {"begun", "eaten", "changed", "nest"})
        /\ Path("ParseOperatorName", TRUE, {"begun", "eaten", "changed", "nest"},
             Call("ParseType"), {"begun", "eaten", "changed", "nest"})
        /\ Path("ParseOperatorName", TRUE, {"begun", "eaten", "changed", "nest"},
             LeaveNestedName, {"begun", "eaten", "changed"})
        /\ Closed({"begun", "eaten", "changed"})
    BY <2>1, CallPathSaved, EnterPath, LeavePath, TokenPathSaved, WritePath
         DEF Eaters, EatsFirst, LeavesAt, Closed, Tokens, Words
  <2> QED BY <2>2, Fits5, Zenon DEF Saved
<1>2. Fits("ParseOperatorName",
        Saved(<<Token("v"), CharClass("0123456789"), Call("ParseSourceName")>>))
  <2>1. Ready("ParseOperatorName", {"begun", "eaten"}, "ParseSourceName")
    BY DEF Ready, ParseFunctions, Productions, Readers, Rank
  <2>2. /\ Path("ParseOperatorName", TRUE, {"begun"}, Token("v"),
             {"begun", "eaten"})
        /\ Path("ParseOperatorName", TRUE, {"begun", "eaten"},
             CharClass("0123456789"), {"begun", "eaten"})
        /\ Path("ParseOperatorName", TRUE, {"begun", "eaten"},
             Call("ParseSourceName"), {"begun", "eaten", "changed"})
        /\ Closed({"begun", "eaten", "changed"})
    BY <2>1, CallPathSaved, ClassPathSaved, TokenPathSaved
         DEF Eaters, EatsFirst, LeavesAt, Closed, Tokens, Words
  <2> QED BY <2>2, Fits3, Zenon DEF Saved
<1>3. Fits("ParseOperatorName", Plain(<<Call("OperatorFromList")>>))
  <2>1. Ready("ParseOperatorName", {"begun"}, "OperatorFromList")
    BY DEF Ready, ParseFunctions, Productions, Readers, Rank
  <2>2. /\ Path("ParseOperatorName", FALSE, {"begun"}, Call("OperatorFromList"),
             {"begun", "eaten", "changed"})
        /\ Closed({"begun", "eaten", "changed"})
    BY <2>1, CallPathPlain DEF Eaters, EatsFirst, LeavesAt, Closed, Tokens, Words
  <2> QED BY <2>2, Fits1, Zenon DEF Plain
<1>4. "ParseOperatorName" \notin EatsFirst
  BY DEF EatsFirst
<1> QED BY <1>1, <1>2, <1>3, <1>4, AllFit3, Zenon DEF ParseOperatorName

(* The alternatives of ParseSpecialName. *)
LEMMA ParseSpecialNameFits == AllFit("ParseSpecialName", ParseSpecialName)
<1>1. Fits("ParseSpecialName",
        Saved(<<Token("T"), CharClass("VTIS"), Call("ParseType")>>))
  <2>1. Ready("ParseSpecialName", {"begun", "eaten"}, "ParseType")
    BY DEF Ready, ParseFunctions, Productions, Readers, Rank
  <2>2. /\ Path("ParseSpecialName", TRUE, {"begun"}, Token("T"), {"begun", "eaten"})
        /\ Path("ParseSpecialName", TRUE, {"begun", "eaten"}, CharClass("VTIS"),
             {"begun", "eaten"})
        /\ Path("ParseSpecialName", TRUE, {"begun", "eaten"}, Call("ParseType"),
             {"begun", "eaten", "changed"})
        /\ Closed({"begun", "eaten", "changed"})
    BY <2>1, CallPathSaved, ClassPathSaved, TokenPathSaved
         DEF Eaters, EatsFirst, LeavesAt, Closed, Tokens, Words
  <2> QED BY <2>2, Fits3, Zenon DEF Saved
<1>2. Fits("ParseSpecialName",
        Saved(<<Token("Tc"), Call("ParseCallOffset"), Call("ParseCallOffset"),
          Call("ParseEncoding")>>))
  <2>1. /\ Ready("ParseSpecialName", {"begun", "eaten"}, "ParseCallOffset")
        /\ Ready("ParseSpecialName", {"begun", "eaten", "changed"},
             "ParseCallOffset")
        /\ Ready("ParseSpecialName", {"begun", "eaten", "changed"}, "ParseEncoding")
    BY DEF Ready, ParseFunctions, Productions, Readers, Rank
  <2>2. /\ Path("ParseSpecialName", TRUE, {"begun"}, Token("Tc"),
             {"begun", "eaten"})
        /\ Path("ParseSpecialName", TRUE, {"begun", "eaten"},
             Call("ParseCallOffset"), {"begun", "eaten", "changed"})
        /\ Path("ParseSpecialName", TRUE, {"begun", "eaten", "changed"},
             Call("ParseCallOffset"), {"begun", "eaten", "changed"})
        /\ Path("ParseSpecialName", TRUE, {"begun", "eaten", "changed"},
             Call("ParseEncoding"), {"begun", "eaten", "changed"})
        /\ Closed({"begun", "eaten", "changed"})
    BY <2>1, CallPathSaved, TokenPathSaved
         DEF Eaters, EatsFirst, LeavesAt, Closed, Tokens, Words
  <2> QED BY <2>2, Fits4, Zenon DEF Saved
<1>3. Fits("ParseSpecialName", Saved(<<Token("GV"), Call("ParseName")>>))
  <2>1. Ready("ParseSpecialName", {"begun", "eaten"}, "ParseName")
    BY DEF Ready, ParseFunctions, Productions, Readers, Rank
  <2>2. /\ Path("ParseSpecialName", TRUE, {"begun"}, Token("GV"),
             {"begun", "eaten"})
        /\ Path("ParseSpecialName", TRUE, {"begun", "eaten"}, Call("ParseName"),
             {"begun", "eaten", "changed"})
        /\ Closed({"begun", "eaten", "changed"})
    BY <2>1, CallPathSaved, TokenPathSaved
         DEF Eaters, EatsFirst, LeavesAt, Closed, Tokens, Words
  <2> QED BY <2>2, Fits2, Zenon DEF Saved
<1>4. Fits("ParseSpecialName",
        Saved(<<Token("T"), Call("ParseCallOffset"), Call("ParseEncoding")>>))
  <2>1. /\ Ready("ParseSpecialName", {"begun", "eaten"}, "ParseCallOffset")
        /\ Ready("ParseSpecialName", {"begun", "eaten", "changed"}, "ParseEncoding")
    BY DEF Ready, ParseFunctions, Productions, Readers, Rank
  <2>2. /\ Path("ParseSpecialName", TRUE, {"begun"}, Token("T"), {"begun", "eaten"})
        /\ Path("ParseSpecialName", TRUE, {"begun", "eaten"},
             Call("ParseCallOffset"), {"begun", "eaten", "changed"})
        /\ Path("ParseSpecialName", TRUE, {"begun", "eaten", "changed"},
             Call("ParseEncoding"), {"begun", "eaten", "changed"})
        /\ Closed({"begun", "eaten", "changed"})
    BY <2>1, CallPathSaved, TokenPathSaved
         DEF Eaters, EatsFirst, LeavesAt, Closed, Tokens, Words
  <2> QED BY <2>2, Fits3, Zenon DEF Saved
<1>5. Fits("ParseSpecialName",
        Saved(<<Token("TC"), Call("ParseType"), Call("ParseNumber"), Token("_"),
          DisableAppend, Call("ParseType"), RestoreAppend>>))
  <2>1. /\ Ready("ParseSpecialName", {"begun", "eaten"}, "ParseType")
        /\ Ready("ParseSpecialName", {"begun", "eaten", "changed"}, "ParseNumber")
        /\ Ready("ParseSpecialName", {"begun", "eaten", "changed", "muted"},
             "ParseType")
    BY DEF Ready, ParseFunctions, Productions, Readers, Rank
  <2>2. /\ Path("ParseSpecialName", TRUE, {"begun"}, Token("TC"),
             {"begun", "eaten"})
        /\ Path("ParseSpecialName", TRUE, {"begun", "eaten"}, Call("ParseType"),
             {"begun", "eaten", "changed"})
        /\ Path("ParseSpecialName", TRUE, {"begun", "eaten", "changed"},
             Call("ParseNumber"), {"begun", "eaten", "changed"})
        /\ Path("ParseSpecialName", TRUE, {"begun", "eaten", "changed"}, Token("_"),
             {"begun", "eaten", "changed"})
        /\ Path("ParseSpecialName", TRUE, {"begun", "eaten", "changed"},
             DisableAppend, {"begun", "eaten", "changed", "muted"})
        /\ Path("ParseSpecialName", TRUE, {"begun", "eaten", "changed", "muted"},
             Call("ParseType"), {"begun", "eaten", "changed", "muted"})
        /\ Path("ParseSpecialName", TRUE, {"begun", "eaten", "changed", "muted"},
             RestoreAppend, {"begun", "eaten", "changed"})
        /\ Closed({"begun", "eaten", "changed"})
    BY <2>1, CallPathSaved, DisablePath, RestorePath, TokenPathSaved
         DEF Eaters, EatsFirst, LeavesAt, Closed, Tokens, Words
  <2> QED BY <2>2, Fits7, Zenon DEF Saved
<1>6. Fits("ParseSpecialName",
        Saved(<<Token("T"), CharClass("FJ"), Call("ParseType")>>))
  <2>1. Ready("ParseSpecialName", {"begun", "eaten"}, "ParseType")
    BY DEF Ready, ParseFunctions, Productions, Readers, Rank
  <2>2. /\ Path("ParseSpecialName", TRUE, {"begun"}, Token("T"), {"begun", "eaten"})
        /\ Path("ParseSpecialName", TRUE, {"begun", "eaten"}, CharClass("FJ"),
             {"begun", "eaten"})
        /\ Path("ParseSpecialName", TRUE, {"begun", "eaten"}, Call("ParseType"),
             {"begun", "eaten", "changed"})
        /\ Closed({"begun", "eaten", "changed"})
    BY <2>1, CallPathSaved, ClassPathSaved, TokenPathSaved
         DEF Eaters, EatsFirst, LeavesAt, Closed, Tokens, Words
  <2> QED BY <2>2, Fits3, Zenon DEF Saved
<1>7. Fits("ParseSpecialName", Saved(<<Token("GR"), Call("ParseName")>>))
  <2>1. Ready("ParseSpecialName", {"begun", "eaten"}, "ParseName")
    BY DEF Ready, ParseFunctions, Productions, Readers, Rank
  <2>2. /\ Path("ParseSpecialName", TRUE, {"begun"}, Token("GR"),
             {"begun", "eaten"})
        /\ Path("ParseSpecialName", TRUE, {"begun", "eaten"}, Call("ParseName"),
             {"begun", "eaten", "changed"})
        /\ Closed({"begun", "eaten", "changed"})
    BY <2>1, CallPathSaved, TokenPathSaved
         DEF Eaters, EatsFirst, LeavesAt, Closed, Tokens, Words
  <2> QED BY <2>2, Fits2, Zenon DEF Saved
<1>8. Fits("ParseSpecialName", Saved(<<Token("GA"), Call("ParseEncoding")>>))
  <2>1. Ready("ParseSpecialName", {"begun", "eaten"}, "ParseEncoding")
    BY DEF Ready, ParseFunctions, Productions, Readers, Rank
  <2>2. /\ Path("ParseSpecialName", TRUE, {"begun"}, Token("GA"),
             {"begun", "eaten"})
        /\ Path("ParseSpecialName", TRUE, {"begun", "eaten"}, Call("ParseEncoding"),
             {"begun", "eaten", "changed"})
        /\ Closed({"begun", "eaten", "changed"})
    BY <2>1, CallPathSaved, TokenPathSaved
         DEF Eaters, EatsFirst, LeavesAt, Closed, Tokens, Words
  <2> QED BY <2>2, Fits2, Zenon DEF Saved
<1>9. Fits("ParseSpecialName",
        Saved(<<Token("T"), CharClass("hv"), Call("ParseCallOffset"),
          Call("ParseEncoding")>>))
  <2>1. /\ Ready("ParseSpecialName", {"begun", "eaten"}, "ParseCallOffset")
        /\ Ready("ParseSpecialName", {"begun", "eaten", "changed"}, "ParseEncoding")
    BY DEF Ready, ParseFunctions, Productions, Readers, Rank
  <2>2. /\ Path("ParseSpecialName", TRUE, {"begun"}, Token("T"), {"begun", "eaten"})
        /\ Path("ParseSpecialName", TRUE, {"begun", "eaten"}, CharClass("hv"),
             {"begun", "eaten"})
        /\ Path("ParseSpecialName", TRUE, {"begun", "eaten"},
             Call("ParseCallOffset"), {"begun", "eaten", "changed"})
        /\ Path("ParseSpecialName", TRUE, {"begun", "eaten", "changed"},
             Call("ParseEncoding"), {"begun", "eaten", "changed"})
        /\ Closed({"begun", "eaten", "changed"})
    BY <2>1, CallPathSaved, ClassPathSaved, TokenPathSaved
         DEF Eaters, EatsFirst, LeavesAt, Closed, Tokens, Words
  <2> QED BY <2>2, Fits4, Zenon DEF Saved
<1>10. "ParseSpecialName" \notin EatsFirst
  BY DEF EatsFirst
<1> QED BY <1>1, <1>2, <1>3, <1>4, <1>5, <1>6, <1>7, <1>8, <1>9, <1>10, AllFit9,
         Zenon DEF ParseSpecialName

(* The alternatives of ParseCallOffset. *)
LEMMA ParseCallOffsetFits == AllFit("ParseCallOffset", ParseCallOffset)
<1>1. Fits("ParseCallOffset",
        Saved(<<Token("h"), Call("ParseNVOffset"), Token("_")>>))
  <2>1. Ready("ParseCallOffset", {"begun", "eaten"}, "ParseNVOffset")
    BY DEF Ready, ParseFunctions, Productions, Readers, Rank
  <2>2. /\ Path("ParseCallOffset", TRUE, {"begun"}, Token("h"), {"begun", "eaten"})
        /\ Path("ParseCallOffset", TRUE, {"begun", "eaten"}, Call("ParseNVOffset"),
             {"begun", "eaten", "changed"})
        /\ Path("ParseCallOffset", TRUE, {"begun", "eaten", "changed"}, Token("_"),
             {"begun", "eaten", "changed"})
        /\ Closed({"begun", "eaten", "changed"})
    BY <2>1, CallPathSaved, TokenPathSaved
         DEF Eaters, EatsFirst, LeavesAt, Closed, Tokens, Words
  <2> QED BY <2>2, Fits3, Zenon DEF Saved
<1>2. Fits("ParseCallOffset",
        Saved(<<Token("v"), Call("ParseVOffset"), Token("_")>>))
  <2>1. Ready("ParseCallOffset", {"begun", "eaten"}, "ParseVOffset")
    BY DEF Ready, ParseFunctions, Productions, Readers, Rank
  <2>2. /\ Path("ParseCallOffset", TRUE, {"begun"}, Token("v"), {"begun", "eaten"})
        /\ Path("ParseCallOffset", TRUE, {"begun", "eaten"}, Call("ParseVOffset"),
             {"begun", "eaten", "changed"})
        /\ Path("ParseCallOffset", TRUE, {"begun", "eaten", "changed"}, Token("_"),
             {"begun", "eaten", "changed"})
        /\ Closed({"begun", "eaten", "changed"})
    BY <2>1, CallPathSaved, TokenPathSaved
         DEF Eaters, EatsFirst, LeavesAt, Closed, Tokens, Words
  <2> QED BY <2>2, Fits3, Zenon DEF Saved
<1>3. "ParseCallOffset" \notin EatsFirst
  BY DEF EatsFirst
<1> QED BY <1>1, <1>2, <1>3, AllFit2, Zenon DEF ParseCallOffset

(* The alternatives of ParseNVOffset. *)
LEMMA ParseNVOffsetFits == AllFit("ParseNVOffset", ParseNVOffset)
<1>1. Fits("ParseNVOffset", Plain(<<Call("ParseNumber")>>))
  <2>1. Ready("ParseNVOffset", {"begun"}, "ParseNumber")
    BY DEF Ready, ParseFunctions, Productions, Readers, Rank
  <2>2. /\ Path("ParseNVOffset", FALSE, {"begun"}, Call("ParseNumber"),
             {"begun", "eaten", "changed"})
        /\ Closed({"begun", "eaten", "changed"})
    BY <2>1, CallPathPlain DEF Eaters, EatsFirst, LeavesAt, Closed, Tokens, Words
  <2> QED BY <2>2, Fits1, Zenon DEF Plain
<1> QED BY <1>1, AllFit1, Zenon DEF ParseNVOffset

(* The alternatives of ParseVOffset. *)
LEMMA ParseVOffsetFits == AllFit("ParseVOffset", ParseVOffset)
<1>1. Fits("ParseVOffset",
        Saved(<<Call("ParseNumber"), Token("_"), Call("ParseNumber")>>))
  <2>1. /\ Ready("ParseVOffset", {"begun"}, "ParseNumber")
        /\ Ready("ParseVOffset", {"begun", "eaten", "changed"}, "ParseNumber")
    BY DEF Ready, ParseFunctions, Productions, Readers, Rank
  <2>2. /\ Path("ParseVOffset", TRUE, {"begun"}, Call("ParseNumber"),
             {"begun", "eaten", "changed"})
        /\ Path("ParseVOffset", TRUE, {"begun", "eaten", "changed"}, Token("_"),
             {"begun", "eaten", "changed"})
        /\ Path("ParseVOffset", TRUE, {"begun", "eaten", "changed"},
             Call("ParseNumber"), {"begun", "eaten", "changed"})
        /\ Closed({"begun", "eaten", "changed"})
    BY <2>1, CallPathSaved, TokenPathSaved
         DEF Eaters, EatsFirst, LeavesAt, Closed, Tokens, Words
  <2> QED BY <2>2, Fits3, Zenon DEF Saved
<1> QED BY <1>1, AllFit1, Zenon DEF ParseVOffset

(* The alternatives of ParseCtorDtorName. *)
LEMMA ParseCtorDtorNameFits == AllFit("ParseCtorDtorName", ParseCtorDtorName)
<1>1. Fits("ParseCtorDtorName",
        Saved(<<Token("C"), CharClass("123"), WritePrevName>>))
  <2>1. /\ Path("ParseCtorDtorName", TRUE, {"begun"}, Token("C"),
             {"begun", "eaten"})
        /\ Path("ParseCtorDtorName", TRUE, {"begun", "eaten"}, CharClass("123"),
             {"begun", "eaten"})
        /\ Path("ParseCtorDtorName", TRUE, {"begun", "eaten"}, WritePrevName,
             {"begun", "eaten", "changed"})
        /\ Closed({"begun", "eaten", "changed"})
    BY ClassPathSaved, PrevNamePath, TokenPathSaved
         DEF Eaters, EatsFirst, LeavesAt, Closed, Tokens, Words
  <2> QED BY <2>1, Fits3, Zenon DEF Saved
<1>2. Fits("ParseCtorDtorName",
        Saved(<<Token("D"), CharClass("012"), Write("~"), WritePrevName>>))
  <2>1. /\ Path("ParseCtorDtorName", TRUE, {"begun"}, Token("D"),
             {"begun", "eaten"})
        /\ Path("ParseCtorDtorName", TRUE, {"begun", "eaten"}, CharClass("012"),
             {"begun", "eaten"})
        /\ Path("ParseCtorDtorName", TRUE, {"begun", "eaten"}, Write("~"),
             {"begun", "eaten", "changed"})
        /\ Path("ParseCtorDtorName", TRUE, {"begun", "eaten", "changed"},
             WritePrevName, {"begun", "eaten", "changed"})
        /\ Closed({"begun", "eaten", "changed"})
    BY ClassPathSaved, PrevNamePath, TokenPathSaved, WritePath
         DEF Eaters, EatsFirst, LeavesAt, Closed, Tokens, Words
  <2> QED BY <2>1, Fits4, Zenon DEF Saved
<1>3. "ParseCtorDtorName" \notin EatsFirst
  BY DEF EatsFirst
<1> QED BY <1>1, <1>2, <1>3, AllFit2, Zenon DEF ParseCtorDtorName

(* The alternatives of ParseType. *)
LEMMA ParseTypeFits == AllFit("ParseType", ParseType)
<1>1. Fits("ParseType", Saved(<<Call("ParseCVQualifiers"), Call("ParseType")>>))
  <2>1. /\ Ready("ParseType", {"begun"}, "ParseCVQualifiers")
        /\ Ready("ParseType", {"begun", "eaten", "changed"}, "ParseType")
    BY DEF Ready, ParseFunctions, Productions, Readers, Rank
  <2>2. /\ Path("ParseType", TRUE, {"begun"}, Call("ParseCVQualifiers"),
             {"begun", "eaten", "changed"})
        /\ Path("ParseType", TRUE, {"begun", "eaten", "changed"}, Call("ParseType"),
             {"begun", "eaten", "changed"})
        /\ Closed({"begun", "eaten", "changed"})
    BY <2>1, CallPathSaved DEF Eaters, EatsFirst, LeavesAt, Closed, Tokens, Words
  <2> QED BY <2>2, Fits2, Zenon DEF Saved
<1>2. Fits("ParseType", Saved(<<CharClass("OPRCG"), Call("ParseType")>>))
  <2>1. Ready("ParseType", {"begun", "eaten"}, "ParseType")
    BY DEF Ready, ParseFunctions, Productions, Readers, Rank
  <2>2. /\ Path("ParseType", TRUE, {"begun"}, CharClass("OPRCG"),
             {"begun", "eaten"})
        /\ Path("ParseType", TRUE, {"begun", "eaten"}, Call("ParseType"),
             {"begun", "eaten", "changed"})
        /\ Closed({"begun", "eaten", "changed"})
    BY <2>1, CallPathSaved, ClassPathSaved
         DEF Eaters, EatsFirst, LeavesAt, Closed, Tokens, Words
  <2> QED BY <2>2, Fits2, Zenon DEF Saved
<1>3. Fits("ParseType", Saved(<<Token("Dp"), Call("ParseType")>>))
  <2>1. Ready("ParseType", {"begun", "eaten"}, "ParseType")
    BY DEF Ready, ParseFunctions, Productions, Readers, Rank
  <2>2. /\ Path("ParseType", TRUE, {"begun"}, Token("Dp"), {"begun", "eaten"})
        /\ Path("ParseType", TRUE, {"begun", "eaten"}, Call("ParseType"),
             {"begun", "eaten", "changed"})
        /\ Closed({"begun", "eaten", "changed"})
    BY <2>1, CallPathSaved, TokenPathSaved
         DEF Eaters, EatsFirst, LeavesAt, Closed, Tokens, Words
  <2> QED BY <2>2, Fits2, Zenon DEF Saved
<1>4. Fits("ParseType",
        Saved(<<Token("D"), CharClass("tT"), Call("ParseExpression"), Token("E")>>))
  <2>1. Ready("ParseType", {"begun", "eaten"}, "ParseExpression")
    BY DEF Ready, ParseFunctions, Productions, Readers, Rank
  <2>2. /\ Path("ParseType", TRUE, {"begun"}, Token("D"), {"begun", "eaten"})
        /\ Path("ParseType", TRUE, {"begun", "eaten"}, CharClass("tT"),
             {"begun", "eaten"})
        /\ Path("ParseType", TRUE, {"begun", "eaten"}, Call("ParseExpression"),
             {"begun", "eaten", "changed"})
        /\ Path("ParseType", TRUE, {"begun", "eaten", "changed"}, Token("E"),
             {"begun", "eaten", "changed"})
        /\ Closed({"begun", "eaten", "changed"})
    BY <2>1, CallPathSaved, ClassPathSaved, TokenPathSaved
         DEF Eaters, EatsFirst, LeavesAt, Closed, Tokens, Words
  <2> QED BY <2>2, Fits4, Zenon DEF Saved
<1>5. Fits("ParseType",
        Saved(<<Token("U"), Call("ParseSourceName"), Call("ParseType")>>))
  <2>1. /\ Ready("ParseType", {"begun", "eaten"}, "ParseSourceName")
        /\ Ready("ParseType", {"begun", "eaten", "changed"}, "ParseType")
    BY DEF Ready, ParseFunctions, Productions, Readers, Rank
  <2>2. /\ Path("ParseType", TRUE, {"begun"}, Token("U"), {"begun", "eaten"})
        /\ Path("ParseType", TRUE, {"begun", "eaten"}, Call("ParseSourceName"),
             {"begun", "eaten", "changed"})
        /\ Path("ParseType", TRUE, {"begun", "eaten", "changed"}, Call("ParseType"),
             {"begun", "eaten", "changed"})
        /\ Closed({"begun", "eaten", "changed"})
    BY <2>1, CallPathSaved, TokenPathSaved
         DEF Eaters, EatsFirst, LeavesAt, Closed, Tokens, Words
  <2> QED BY <2>2, Fits3, Zenon DEF Saved
<1>6. Fits("ParseType", Plain(<<Call("ParseBuiltinType")>>))
  <2>1. Ready("ParseType", {"begun"}, "ParseBuiltinType")
    BY DEF Ready, ParseFunctions, Productions, Readers, Rank
  <2>2. /\ Path("ParseType", FALSE, {"begun"}, Call("ParseBuiltinType"),
             {"begun", "eaten", "changed"})
        /\ Closed({"begun", "eaten", "changed"})
    BY <2>1, CallPathPlain DEF Eaters, EatsFirst, LeavesAt, Closed, Tokens, Words
  <2> QED BY <2>2, Fits1, Zenon DEF Plain
<1>7. Fits("ParseType", Plain(<<Call("ParseFunctionType")>>))
  <2>1. Ready("ParseType", {"begun"}, "ParseFunctionType")
    BY DEF Ready, ParseFunctions, Productions, Readers, Rank
  <2>2. /\ Path("ParseType", FALSE, {"begun"}, Call("ParseFunctionType"),
             {"begun", "eaten", "changed"})
        /\ Closed({"begun", "eaten", "changed"})
    BY <2>1, CallPathPlain DEF Eaters, EatsFirst, LeavesAt, Closed, Tokens, Words
  <2> QED BY <2>2, Fits1, Zenon DEF Plain
<1>8. Fits("ParseType", Plain(<<Call("ParseClassEnumType")>>))
  <2>1. Ready("ParseType", {"begun"}, "ParseClassEnumType")
    BY DEF Ready, ParseFunctions, Productions, Readers, Rank
  <2>2. /\ Path("ParseType", FALSE, {"begun"}, Call("ParseClassEnumType"),
             {"begun", "eaten", "changed"})
        /\ Closed({"begun", "eaten", "changed"})
    BY <2>1, CallPathPlain DEF Eaters, EatsFirst, LeavesAt, Closed, Tokens, Words
  <2> QED BY <2>2, Fits1, Zenon DEF Plain
<1>9. Fits("ParseType", Plain(<<Call("ParseArrayType")>>))
  <2>1. Ready("ParseType", {"begun"}, "ParseArrayType")
    BY DEF Ready, ParseFunctions, Productions, Readers, Rank
  <2>2. /\ Path("ParseType", FALSE, {"begun"}, Call("ParseArrayType"),
             {"begun", "eaten", "changed"})
        /\ Closed({"begun", "eaten", "changed"})
    BY <2>1, CallPathPlain DEF Eaters, EatsFirst, LeavesAt, Closed, Tokens, Words
  <2> QED BY <2>2, Fits1, Zenon DEF Plain
<1>10. Fits("ParseType", Plain(<<Call("ParsePointerToMemberType")>>))
  <2>1. Ready("ParseType", {"begun"}, "ParsePointerToMemberType")
    BY DEF Ready, ParseFunctions, Productions, Readers, Rank
  <2>2. /\ Path("ParseType", FALSE, {"begun"}, Call("ParsePointerToMemberType"),
             {"begun", "eaten", "changed"})
        /\ Closed({"begun", "eaten", "changed"})
    BY <2>1, CallPathPlain DEF Eaters, EatsFirst, LeavesAt, Closed, Tokens, Words
  <2> QED BY <2>2, Fits1, Zenon DEF Plain
<1>11. Fits("ParseType", Plain(<<Call("ParseSubstitution")>>))
  <2>1. Ready("ParseType", {"begun"}, "ParseSubstitution")
    BY DEF Ready, ParseFunctions, Productions, Readers, Rank
  <2>2. /\ Path("ParseType", FALSE, {"begun"}, Call("ParseSubstitution"),
             {"begun", "eaten", "changed"})
        /\ Closed({"begun", "eaten", "changed"})
    BY <2>1, CallPathPlain DEF Eaters, EatsFirst, LeavesAt, Closed, Tokens, Words
  <2> QED BY <2>2, Fits1, Zenon DEF Plain
<1>12. Fits("ParseType",
         Saved(<<Call("ParseTemplateTemplateParam"), Call("ParseTemplateArgs")>>))
  <2>1. /\ Ready("ParseType", {"begun"}, "ParseTemplateTemplateParam")
        /\ Ready("ParseType", {"begun", "eaten", "changed"}, "ParseTemplateArgs")
    BY DEF Ready, ParseFunctions, Productions, Readers, Rank
  <2>2. /\ Path("ParseType", TRUE, {"begun"}, Call("ParseTemplateTemplateParam"),
             {"begun", "eaten", "changed"})
        /\ Path("ParseType", TRUE, {"begun", "eaten", "changed"},
             Call("ParseTemplateArgs"), {"begun", "eaten", "changed"})
        /\ Closed({"begun", "eaten", "changed"})
    BY <2>1, CallPathSaved DEF Eaters, EatsFirst, LeavesAt, Closed, Tokens, Words
  <2> QED BY <2>2, Fits2, Zenon DEF Saved
<1>13. Fits("ParseType", Plain(<<Call("ParseTemplateParam")>>))
  <2>1. Ready("ParseType", {"begun"}, "ParseTemplateParam")
    BY DEF Ready, ParseFunctions, Productions, Readers, Rank
  <2>2. /\ Path("ParseType", FALSE, {"begun"}, Call("ParseTemplateParam"),
             {"begun", "eaten", "changed"})
        /\ Closed({"begun", "eaten", "changed"})
    BY <2>1, CallPathPlain DEF Eaters, EatsFirst, LeavesAt, Closed, Tokens, Words
  <2> QED BY <2>2, Fits1, Zenon DEF Plain
<1>14. "ParseType" \notin EatsFirst
  BY DEF EatsFirst
<1> QED BY <1>1, <1>2, <1>3, <1>4, <1>5, <1>6, <1>7, <1>8, <1>9, <1>10, <1>11,
         <1>12, <1>13, <1>14, AllFit13, Zenon DEF ParseType

(* The alternatives of ParseBuiltinType. *)
LEMMA ParseBuiltinTypeFits == AllFit("ParseBuiltinType", ParseBuiltinType)
<1>1. Fits("ParseBuiltinType", Plain(<<Call("BuiltinFromList")>>))
  <2>1. Ready("ParseBuiltinType", {"begun"}, "BuiltinFromList")
    BY DEF Ready, ParseFunctions, Productions, Readers, Rank
  <2>2. /\ Path("ParseBuiltinType", FALSE, {"begun"}, Call("BuiltinFromList"),
             {"begun", "eaten", "changed"})
        /\ Closed({"begun", "eaten", "changed"})
    BY <2>1, CallPathPlain DEF Eaters, EatsFirst, LeavesAt, Closed, Tokens, Words
  <2> QED BY <2>2, Fits1, Zenon DEF Plain
<1>2. Fits("ParseBuiltinType", Saved(<<Token("u"), Call("ParseSourceName")>>))
  <2>1. Ready("ParseBuiltinType", {"begun", "eaten"}, "ParseSourceName")
    BY DEF Ready, ParseFunctions, Productions, Readers, Rank
  <2>2. /\ Path("ParseBuiltinType", TRUE, {"begun"}, Token("u"), {"begun", "eaten"})
        /\ Path("ParseBuiltinType", TRUE, {"begun", "eaten"},
             Call("ParseSourceName"), {"begun", "eaten", "changed"})
        /\ Closed({"begun", "eaten", "changed"})
    BY <2>1, CallPathSaved, TokenPathSaved
         DEF Eaters, EatsFirst, LeavesAt, Closed, Tokens, Words
  <2> QED BY <2>2, Fits2, Zenon DEF Saved
<1>3. "ParseBuiltinType" \notin EatsFirst
  BY DEF EatsFirst
<1> QED BY <1>1, <1>2, <1>3, AllFit2, Zenon DEF ParseBuiltinType

(* The alternatives of ParseFunctionType. *)
LEMMA ParseFunctionTypeFits == AllFit("ParseFunctionType", ParseFunctionType)
<1>1. Fits("ParseFunctionType",
        Saved(<<Token("F"), Optional(Token("Y")), Call("ParseBareFunctionType"),
          Token("E")>>))
  <2>1. Ready("ParseFunctionType", {"begun", "eaten", "changed"},
          "ParseBareFunctionType")
    BY DEF Ready, ParseFunctions, Productions, Readers, Rank
  <2>2. /\ Path("ParseFunctionType", TRUE, {"begun"}, Token("F"),
             {"begun", "eaten"})
        /\ Path("ParseFunctionType", TRUE, {"begun", "eaten"}, Optional(Token("Y")),
             {"begun", "eaten", "changed"})
        /\ Path("ParseFunctionType", TRUE, {"begun", "eaten", "changed"},
             Call("ParseBareFunctionType"), {"begun", "eaten", "changed"})
        /\ Path("ParseFunctionType", TRUE, {"begun", "eaten", "changed"},
             Token("E"), {"begun", "eaten", "changed"})
        /\ Closed({"begun", "eaten", "changed"})
    BY <2>1, CallPathSaved, OptionalTokenPath, TokenPathSaved
         DEF Eaters, EatsFirst, LeavesAt, Closed, Tokens, Words
  <2> QED BY <2>2, Fits4, Zenon DEF Saved
<1> QED BY <1>1, AllFit1, Zenon DEF ParseFunctionType

(* The alternatives of ParseBareFunctionType. *)
LEMMA ParseBareFunctionTypeFits == AllFit("ParseBareFunctionType",
  ParseBareFunctionType)
<1>1. Fits("ParseBareFunctionType",
        Saved(<<DisableAppend, OneOrMore("ParseType"), RestoreAppend,
          Write("()")>>))
  <2>1. Ready("ParseBareFunctionType", {"begun", "changed", "muted"}, "ParseType")
    BY DEF Ready, ParseFunctions, Productions, Readers, Rank
  <2>2. /\ Path("ParseBareFunctionType", TRUE, {"begun"}, DisableAppend,
             {"begun", "changed", "muted"})
        /\ Path("ParseBareFunctionType", TRUE, {"begun", "changed", "muted"},
             OneOrMore("ParseType"), {"begun", "eaten", "changed", "muted"})
        /\ Path("ParseBareFunctionType", TRUE,
             {"begun", "eaten", "changed", "muted"}, RestoreAppend,
               {"begun", "eaten", "changed"})
        /\ Path("ParseBareFunctionType", TRUE, {"begun", "eaten", "changed"},
             Write("()"), {"begun", "eaten", "changed"})
        /\ Closed({"begun", "eaten", "changed"})
    BY <2>1, DisablePath, OneOrMorePath, RestorePath, WritePath
         DEF Eaters, EatsFirst, LeavesAt, Closed, Tokens, Words
  <2> QED BY <2>2, Fits4, Zenon DEF Saved
<1> QED BY <1>1, AllFit1, Zenon DEF ParseBareFunctionType

(* The alternatives of ParseClassEnumType. *)
LEMMA ParseClassEnumTypeFits == AllFit("ParseClassEnumType", ParseClassEnumType)
<1>1. Fits("ParseClassEnumType", Plain(<<Call("ParseName")>>))
  <2>1. Ready("ParseClassEnumType", {"begun"}, "ParseName")
    BY DEF Ready, ParseFunctions, Productions, Readers, Rank
  <2>2. /\ Path("ParseClassEnumType", FALSE, {"begun"}, Call("ParseName"),
             {"begun", "eaten", "changed"})
        /\ Closed({"begun", "eaten", "changed"})
    BY <2>1, CallPathPlain DEF Eaters, EatsFirst, LeavesAt, Closed, Tokens, Words
  <2> QED BY <2>2, Fits1, Zenon DEF Plain
<1> QED BY <1>1, AllFit1, Zenon DEF ParseClassEnumType

(* The alternatives of ParseArrayType. *)
LEMMA ParseArrayTypeFits == AllFit("ParseArrayType", ParseArrayType)
<1>1. Fits("ParseArrayType",
        Saved(<<Token("A"), Call("ParseNumber"), Token("_"), Call("ParseType")>>))
  <2>1. /\ Ready("ParseArrayType", {"begun", "eaten"}, "ParseNumber")
        /\ Ready("ParseArrayType", {"begun", "eaten", "changed"}, "ParseType")
    BY DEF Ready, ParseFunctions, Productions, Readers, Rank
  <2>2. /\ Path("ParseArrayType", TRUE, {"begun"}, Token("A"), {"begun", "eaten"})
        /\ Path("ParseArrayType", TRUE, {"begun", "eaten"}, Call("ParseNumber"),
             {"begun", "eaten", "changed"})
        /\ Path("ParseArrayType", TRUE, {"begun", "eaten", "changed"}, Token("_"),
             {"begun", "eaten", "changed"})
        /\ Path("ParseArrayType", TRUE, {"begun", "eaten", "changed"},
             Call("ParseType"), {"begun", "eaten", "changed"})
        /\ Closed({"begun", "eaten", "changed"})
    BY <2>1, CallPathSaved, TokenPathSaved
         DEF Eaters, EatsFirst, LeavesAt, Closed, Tokens, Words
  <2> QED BY <2>2, Fits4, Zenon DEF Saved
<1>2. Fits("ParseArrayType",
        Saved(<<Token("A"), Optional(Call("ParseExpression")), Token("_"),
          Call("ParseType")>>))
  <2>1. /\ Ready("ParseArrayType", {"begun", "eaten"}, "ParseExpression")
        /\ Ready("ParseArrayType", {"begun", "eaten", "changed"}, "ParseType")
    BY DEF Ready, ParseFunctions, Productions, Readers, Rank
  <2>2. /\ Path("ParseArrayType", TRUE, {"begun"}, Token("A"), {"begun", "eaten"})
        /\ Path("ParseArrayType", TRUE, {"begun", "eaten"},
             Optional(Call("ParseExpression")), {"begun", "eaten", "changed"})
        /\ Path("ParseArrayType", TRUE, {"begun", "eaten", "changed"}, Token("_"),
             {"begun", "eaten", "changed"})
        /\ Path("ParseArrayType", TRUE, {"begun", "eaten", "changed"},
             Call("ParseType"), {"begun", "eaten", "changed"})
        /\ Closed({"begun", "eaten", "changed"})
    BY <2>1, CallPathSaved, OptionalPath, TokenPathSaved
         DEF Eaters, EatsFirst, LeavesAt, Closed, Tokens, Words
  <2> QED BY <2>2, Fits4, Zenon DEF Saved
<1>3. "ParseArrayType" \notin EatsFirst
  BY DEF EatsFirst
<1> QED BY <1>1, <1>2, <1>3, AllFit2, Zenon DEF ParseArrayType

(* The alternatives of ParsePointerToMemberType. *)
LEMMA ParsePointerToMemberTypeFits == AllFit("ParsePointerToMemberType",
  ParsePointerToMemberType)
<1>1. Fits("ParsePointerToMemberType",
        Saved(<<Token("M"), Call("ParseType"), Call("ParseType")>>))
  <2>1. /\ Ready("ParsePointerToMemberType", {"begun", "eaten"}, "ParseType")
        /\ Ready("ParsePointerToMemberType", {"begun", "eaten", "changed"},
             "ParseType")
    BY DEF Ready, ParseFunctions, Productions, Readers, Rank
  <2>2. /\ Path("ParsePointerToMemberType", TRUE, {"begun"}, Token("M"),
             {"begun", "eaten"})
        /\ Path("ParsePointerToMemberType", TRUE, {"begun", "eaten"},
             Call("ParseType"), {"begun", "eaten", "changed"})
        /\ Path("ParsePointerToMemberType", TRUE, {"begun", "eaten", "changed"},
             Call("ParseType"), {"begun", "eaten", "changed"})
        /\ Closed({"begun", "eaten", "changed"})
    BY <2>1, CallPathSaved, TokenPathSaved
         DEF Eaters, EatsFirst, LeavesAt, Closed, Tokens, Words
  <2> QED BY <2>2, Fits3, Zenon DEF Saved
<1> QED BY <1>1, AllFit1, Zenon DEF ParsePointerToMemberType

(* The alternatives of ParseTemplateParam. *)
LEMMA ParseTemplateParamFits == AllFit("ParseTemplateParam", ParseTemplateParam)
<1>1. Fits("ParseTemplateParam", Plain(<<Token("T_"), Write("?")>>))
  <2>1. /\ Path("ParseTemplateParam", FALSE, {"begun"}, Token("T_"),
             {"begun", "eaten"})
        /\ Path("ParseTemplateParam", FALSE, {"begun", "eaten"}, Write("?"),
             {"begun", "eaten", "changed"})
        /\ Closed({"begun", "eaten", "changed"})
    BY TokenPathPlain, WritePath
         DEF Eaters, EatsFirst, LeavesAt, Closed, Tokens, Words
  <2> QED BY <2>1, Fits2, Zenon DEF Plain
<1>2. Fits("ParseTemplateParam",
        Saved(<<Token("T"), Call("ParseNumber"), Token("_"), Write("?")>>))
  <2>1. Ready("ParseTemplateParam", {"begun", "eaten"}, "ParseNumber")
    BY DEF Ready, ParseFunctions, Productions, Readers, Rank
  <2>2. /\ Path("ParseTemplateParam", TRUE, {"begun"}, Token("T"),
             {"begun", "eaten"})
        /\ Path("ParseTemplateParam", TRUE, {"begun", "eaten"}, Call("ParseNumber"),
             {"begun", "eaten", "changed"})
        /\ Path("ParseTemplateParam", TRUE, {"begun", "eaten", "changed"},
             Token("_"), {"begun", "eaten", "changed"})
        /\ Path("ParseTemplateParam", TRUE, {"begun", "eaten", "changed"},
             Write("?"), {"begun", "eaten", "changed"})
        /\ Closed({"begun", "eaten", "changed"})
    BY <2>1, CallPathSaved, TokenPathSaved, WritePath
         DEF Eaters, EatsFirst, LeavesAt, Closed, Tokens, Words
  <2> QED BY <2>2, Fits4, Zenon DEF Saved
<1>3. "ParseTemplateParam" \notin EatsFirst
  BY DEF EatsFirst
<1> QED BY <1>1, <1>2, <1>3, AllFit2, Zenon DEF ParseTemplateParam

(* The alternatives of ParseTemplateTemplateParam. *)
LEMMA ParseTemplateTemplateParamFits == AllFit("ParseTemplateTemplateParam",
  ParseTemplateTemplateParam)
<1>1. Fits("ParseTemplateTemplateParam", Plain(<<Call("ParseTemplateParam")>>))
  <2>1. Ready("ParseTemplateTemplateParam", {"begun"}, "ParseTemplateParam")
    BY DEF Ready, ParseFunctions, Productions, Readers, Rank
  <2>2. /\ Path("ParseTemplateTemplateParam", FALSE, {"begun"},
             Call("ParseTemplateParam"), {"begun", "eaten", "changed"})
        /\ Closed({"begun", "eaten", "changed"})
    BY <2>1, CallPathPlain DEF Eaters, EatsFirst, LeavesAt, Closed, Tokens, Words
  <2> QED BY <2>2, Fits1, Zenon DEF Plain
<1>2. Fits("ParseTemplateTemplateParam", Plain(<<Call("ParseSubstitution")>>))
  <2>1. Ready("ParseTemplateTemplateParam", {"begun"}, "ParseSubstitution")
    BY DEF Ready, ParseFunctions, Productions, Readers, Rank
  <2>2. /\ Path("ParseTemplateTemplateParam", FALSE, {"begun"},
             Call("ParseSubstitution"), {"begun", "eaten", "changed"})
        /\ Closed({"begun", "eaten", "changed"})
    BY <2>1, CallPathPlain DEF Eaters, EatsFirst, LeavesAt, Closed, Tokens, Words
  <2> QED BY <2>2, Fits1, Zenon DEF Plain
<1>3. "ParseTemplateTemplateParam" \notin EatsFirst
  BY DEF EatsFirst
<1> QED BY <1>1, <1>2, <1>3, AllFit2, Zenon DEF ParseTemplateTemplateParam

(* The alternatives of ParseTemplateArgs. *)
LEMMA ParseTemplateArgsFits == AllFit("ParseTemplateArgs", ParseTemplateArgs)
<1>1. Fits("ParseTemplateArgs",
        Saved(<<DisableAppend, Token("I"), OneOrMore("ParseTemplateArg"),
          Token("E"), RestoreAppend, Write("<>")>>))
  <2>1. Ready("ParseTemplateArgs", {"begun", "eaten", "changed", "muted"},
          "ParseTemplateArg")
    BY DEF Ready, ParseFunctions, Productions, Readers, Rank
  <2>2. /\ Path("ParseTemplateArgs", TRUE, {"begun"}, DisableAppend,
             {"begun", "changed", "muted"})
        /\ Path("ParseTemplateArgs", TRUE, {"begun", "changed", "muted"},
             Token("I"), {"begun", "eaten", "changed", "muted"})
        /\ Path("ParseTemplateArgs", TRUE, {"begun", "eaten", "changed", "muted"},
             OneOrMore("ParseTemplateArg"), {"begun", "eaten", "changed", "muted"})
        /\ Path("ParseTemplateArgs", TRUE, {"begun", "eaten", "changed", "muted"},
             Token("E"), {"begun", "eaten", "changed", "muted"})
        /\ Path("ParseTemplateArgs", TRUE, {"begun", "eaten", "changed", "muted"},
             RestoreAppend, {"begun", "eaten", "changed"})
        /\ Path("ParseTemplateArgs", TRUE, {"begun", "eaten", "changed"},
             Write("<>"), {"begun", "eaten", "changed"})
        /\ Closed({"begun", "eaten", "changed"})
    BY <2>1, DisablePath, OneOrMorePath, RestorePath, TokenPathSaved, WritePath
         DEF Eaters, EatsFirst, LeavesAt, Closed, Tokens, Words
  <2> QED BY <2>2, Fits6, Zenon DEF Saved
<1> QED BY <1>1, AllFit1, Zenon DEF ParseTemplateArgs

(* The alternatives of ParseTemplateArg. *)
LEMMA ParseTemplateArgFits == AllFit("ParseTemplateArg", ParseTemplateArg)
<1>1. Fits("ParseTemplateArg",
        Saved(<<CharClass("IJ"), ZeroOrMore("ParseTemplateArg"), Token("E")>>))
  <2>1. Ready("ParseTemplateArg", {"begun", "eaten"}, "ParseTemplateArg")
    BY DEF Ready, ParseFunctions, Productions, Readers, Rank
  <2>2. /\ Path("ParseTemplateArg", TRUE, {"begun"}, CharClass("IJ"),
             {"begun", "eaten"})
        /\ Path("ParseTemplateArg", TRUE, {"begun", "eaten"},
             ZeroOrMore("ParseTemplateArg"), {"begun", "eaten", "changed"})
        /\ Path("ParseTemplateArg", TRUE, {"begun", "eaten", "changed"}, Token("E"),
             {"begun", "eaten", "changed"})
        /\ Closed({"begun", "eaten", "changed"})
    BY <2>1, ClassPathSaved, TokenPathSaved, ZeroOrMorePath
         DEF Eaters, EatsFirst, LeavesAt, Closed, Tokens, Words
  <2> QED BY <2>2, Fits3, Zenon DEF Saved
<1>2. Fits("ParseTemplateArg", Plain(<<Call("ParseType")>>))
  <2>1. Ready("ParseTemplateArg", {"begun"}, "ParseType")
    BY DEF Ready, ParseFunctions, Productions, Readers, Rank
  <2>2. /\ Path("ParseTemplateArg", FALSE, {"begun"}, Call("ParseType"),
             {"begun", "eaten", "changed"})
        /\ Closed({"begun", "eaten", "changed"})
    BY <2>1, CallPathPlain DEF Eaters, EatsFirst, LeavesAt, Closed, Tokens, Words
  <2> QED BY <2>2, Fits1, Zenon DEF Plain
<1>3. Fits("ParseTemplateArg", Saved(<<Call("ParseExprPrimary")>>))
  <2>1. Ready("ParseTemplateArg", {"begun"}, "ParseExprPrimary")
    BY DEF Ready, ParseFunctions, Productions, Readers, Rank
  <2>2. /\ Path("ParseTemplateArg", TRUE, {"begun"}, Call("ParseExprPrimary"),
             {"begun", "eaten", "changed"})
        /\ Closed({"begun", "eaten", "changed"})
    BY <2>1, CallPathSaved DEF Eaters, EatsFirst, LeavesAt, Closed, Tokens, Words
  <2> QED BY <2>2, Fits1, Zenon DEF Saved
<1>4. Fits("ParseTemplateArg",
        Saved(<<Token("X"), Call("ParseExpression"), Token("E")>>))
  <2>1. Ready("ParseTemplateArg", {"begun", "eaten"}, "ParseExpression")
    BY DEF Ready, ParseFunctions, Productions, Readers, Rank
  <2>2. /\ Path("ParseTemplateArg", TRUE, {"begun"}, Token("X"), {"begun", "eaten"})
        /\ Path("ParseTemplateArg", TRUE, {"begun", "eaten"},
             Call("ParseExpression"), {"begun", "eaten", "changed"})
        /\ Path("ParseTemplateArg", TRUE, {"begun", "eaten", "changed"}, Token("E"),
             {"begun", "eaten", "changed"})
        /\ Closed({"begun", "eaten", "changed"})
    BY <2>1, CallPathSaved, TokenPathSaved
         DEF Eaters, EatsFirst, LeavesAt, Closed, Tokens, Words
  <2> QED BY <2>2, Fits3, Zenon DEF Saved
<1>5. "ParseTemplateArg" \notin EatsFirst
  BY DEF EatsFirst
<1> QED BY <1>1, <1>2, <1>3, <1>4, <1>5, AllFit4, Zenon DEF ParseTemplateArg

(* The alternatives of ParseExpression. *)
LEMMA ParseExpressionFits == AllFit("ParseExpression", ParseExpression)
<1>1. Fits("ParseExpression", Plain(<<Call("ParseTemplateParam")>>))
  <2>1. Ready("ParseExpression", {"begun"}, "ParseTemplateParam")
    BY DEF Ready, ParseFunctions, Productions, Readers, Rank
  <2>2. /\ Path("ParseExpression", FALSE, {"begun"}, Call("ParseTemplateParam"),
             {"begun", "eaten", "changed"})
        /\ Closed({"begun", "eaten", "changed"})
    BY <2>1, CallPathPlain DEF Eaters, EatsFirst, LeavesAt, Closed, Tokens, Words
  <2> QED BY <2>2, Fits1, Zenon DEF Plain
<1>2. Fits("ParseExpression", Plain(<<Call("ParseExprPrimary")>>))
  <2>1. Ready("ParseExpression", {"begun"}, "ParseExprPrimary")
    BY DEF Ready, ParseFunctions, Productions, Readers, Rank
  <2>2. /\ Path("ParseExpression", FALSE, {"begun"}, Call("ParseExprPrimary"),
             {"begun", "eaten", "changed"})
        /\ Closed({"begun", "eaten", "changed"})
    BY <2>1, CallPathPlain DEF Eaters, EatsFirst, LeavesAt, Closed, Tokens, Words
  <2> QED BY <2>2, Fits1, Zenon DEF Plain
<1>3. Fits("ParseExpression",
        Saved(<<Call("ParseOperatorName"), Call("ParseExpression"),
          Call("ParseExpression"), Call("ParseExpression")>>))
  <2>1. /\ Ready("ParseExpression", {"begun"}, "ParseOperatorName")
        /\ Ready("ParseExpression", {"begun", "eaten", "changed"},
             "ParseExpression")
    BY DEF Ready, ParseFunctions, Productions, Readers, Rank
  <2>2. /\ Path("ParseExpression", TRUE, {"begun"}, Call("ParseOperatorName"),
             {"begun", "eaten", "changed"})
        /\ Path("ParseExpression", TRUE, {"begun", "eaten", "changed"},
             Call("ParseExpression"), {"begun", "eaten", "changed"})
        /\ Closed({"begun", "eaten", "changed"})
    BY <2>1, CallPathSaved DEF Eaters, EatsFirst, LeavesAt, Closed, Tokens, Words
  <2> QED BY <2>2, Fits4, Zenon DEF Saved
<1>4. Fits("ParseExpression",
        Saved(<<Call("ParseOperatorName"), Call("ParseExpression"),
          Call("ParseExpression")>>))
  <2>1. /\ Ready("ParseExpression", {"begun"}, "ParseOperatorName")
        /\ Ready("ParseExpression", {"begun", "eaten", "changed"},
             "ParseExpression")
    BY DEF Ready, ParseFunctions, Productions, Readers, Rank
  <2>2. /\ Path("ParseExpression", TRUE, {"begun"}, Call("ParseOperatorName"),
             {"begun", "eaten", "changed"})
        /\ Path("ParseExpression", TRUE, {"begun", "eaten", "changed"},
             Call("ParseExpression"), {"begun", "eaten", "changed"})
        /\ Closed({"begun", "eaten", "changed"})
    BY <2>1, CallPathSaved DEF Eaters, EatsFirst, LeavesAt, Closed, Tokens, Words
  <2> QED BY <2>2, Fits3, Zenon DEF Saved
<1>5. Fits("ParseExpression",
        Saved(<<Call("ParseOperatorName"), Call("ParseExpression")>>))
  <2>1. /\ Ready("ParseExpression", {"begun"}, "ParseOperatorName")
        /\ Ready("ParseExpression", {"begun", "eaten", "changed"},
             "ParseExpression")
    BY DEF Ready, ParseFunctions, Productions, Readers, Rank
  <2>2. /\ Path("ParseExpression", TRUE, {"begun"}, Call("ParseOperatorName"),
             {"begun", "eaten", "changed"})
        /\ Path("ParseExpression", TRUE, {"begun", "eaten", "changed"},
             Call("ParseExpression"), {"begun", "eaten", "changed"})
        /\ Closed({"begun", "eaten", "changed"})
    BY <2>1, CallPathSaved DEF Eaters, EatsFirst, LeavesAt, Closed, Tokens, Words
  <2> QED BY <2>2, Fits2, Zenon DEF Saved
<1>6. Fits("ParseExpression", Saved(<<Token("st"), Call("ParseType")>>))
  <2>1. Ready("ParseExpression", {"begun", "eaten"}, "ParseType")
    BY DEF Ready, ParseFunctions, Productions, Readers, Rank
  <2>2. /\ Path("ParseExpression", TRUE, {"begun"}, Token("st"), {"begun", "eaten"})
        /\ Path("ParseExpression", TRUE, {"begun", "eaten"}, Call("ParseType"),
             {"begun", "eaten", "changed"})
        /\ Closed({"begun", "eaten", "changed"})
    BY <2>1, CallPathSaved, TokenPathSaved
         DEF Eaters, EatsFirst, LeavesAt, Closed, Tokens, Words
  <2> QED BY <2>2, Fits2, Zenon DEF Saved
<1>7. Fits("ParseExpression",
        Saved(<<Token("sr"), Call("ParseType"), Call("ParseUnqualifiedName"),
          Call("ParseTemplateArgs")>>))
  <2>1. /\ Ready("ParseExpression", {"begun", "eaten"}, "ParseType")
        /\ Ready("ParseExpression", {"begun", "eaten", "changed"},
             "ParseUnqualifiedName")
        /\ Ready("ParseExpression", {"begun", "eaten", "changed"},
             "ParseTemplateArgs")
    BY DEF Ready, ParseFunctions, Productions, Readers, Rank
  <2>2. /\ Path("ParseExpression", TRUE, {"begun"}, Token("sr"), {"begun", "eaten"})
        /\ Path("ParseExpression", TRUE, {"begun", "eaten"}, Call("ParseType"),
             {"begun", "eaten", "changed"})
        /\ Path("ParseExpression", TRUE, {"begun", "eaten", "changed"},
             Call("ParseUnqualifiedName"), {"begun", "eaten", "changed"})
        /\ Path("ParseExpression", TRUE, {"begun", "eaten", "changed"},
             Call("ParseTemplateArgs"), {"begun", "eaten", "changed"})
        /\ Closed({"begun", "eaten", "changed"})
    BY <2>1, CallPathSaved, TokenPathSaved
         DEF Eaters, EatsFirst, LeavesAt, Closed, Tokens, Words
  <2> QED BY <2>2, Fits4, Zenon DEF Saved
<1>8. Fits("ParseExpression",
        Saved(<<Token("sr"), Call("ParseType"), Call("ParseUnqualifiedName")>>))
  <2>1. /\ Ready("ParseExpression", {"begun", "eaten"}, "ParseType")
        /\ Ready("ParseExpression", {"begun", "eaten", "changed"},
             "ParseUnqualifiedName")
    BY DEF Ready, ParseFunctions, Productions, Readers, Rank
  <2>2. /\ Path("ParseExpression", TRUE, {"begun"}, Token("sr"), {"begun", "eaten"})
        /\ Path("ParseExpression", TRUE, {"begun", "eaten"}, Call("ParseType"),
             {"begun", "eaten", "changed"})
        /\ Path("ParseExpression", TRUE, {"begun", "eaten", "changed"},
             Call("ParseUnqualifiedName"), {"begun", "eaten", "changed"})
        /\ Closed({"begun", "eaten", "changed"})
    BY <2>1, CallPathSaved, TokenPathSaved
         DEF Eaters, EatsFirst, LeavesAt, Closed, Tokens, Words
  <2> QED BY <2>2, Fits3, Zenon DEF Saved
<1>9. "ParseExpression" \notin EatsFirst
  BY DEF EatsFirst
<1> QED BY <1>1, <1>2, <1>3, <1>4, <1>5, <1>6, <1>7, <1>8, <1>9, AllFit8, Zenon
         DEF ParseExpression

(* The alternatives of ParseExprPrimary. *)
LEMMA ParseExprPrimaryFits == AllFit("ParseExprPrimary", ParseExprPrimary)
<1>1. Fits("ParseExprPrimary",
        Saved(<<Token("L"), Call("ParseType"), Call("ParseNumber"), Token("E")>>))
  <2>1. /\ Ready("ParseExprPrimary", {"begun", "eaten"}, "ParseType")
        /\ Ready("ParseExprPrimary", {"begun", "eaten", "changed"}, "ParseNumber")
    BY DEF Ready, ParseFunctions, Productions, Readers, Rank
  <2>2. /\ Path("ParseExprPrimary", TRUE, {"begun"}, Token("L"), {"begun", "eaten"})
        /\ Path("ParseExprPrimary", TRUE, {"begun", "eaten"}, Call("ParseType"),
             {"begun", "eaten", "changed"})
        /\ Path("ParseExprPrimary", TRUE, {"begun", "eaten", "changed"},
             Call("ParseNumber"), {"begun", "eaten", "changed"})
        /\ Path("ParseExprPrimary", TRUE, {"begun", "eaten", "changed"}, Token("E"),
             {"begun", "eaten", "changed"})
        /\ Closed({"begun", "eaten", "changed"})
    BY <2>1, CallPathSaved, TokenPathSaved
         DEF Eaters, EatsFirst, LeavesAt, Closed, Tokens, Words
  <2> QED BY <2>2, Fits4, Zenon DEF Saved
<1>2. Fits("ParseExprPrimary",
        Saved(<<Token("L"), Call("ParseType"), Call("ParseFloatNumber"),
          Token("E")>>))
  <2>1. /\ Ready("ParseExprPrimary", {"begun", "eaten"}, "ParseType")
        /\ Ready("ParseExprPrimary", {"begun", "eaten", "changed"},
             "ParseFloatNumber")
    BY DEF Ready, ParseFunctions, Productions, Readers, Rank
  <2>2. /\ Path("ParseExprPrimary", TRUE, {"begun"}, Token("L"), {"begun", "eaten"})
        /\ Path("ParseExprPrimary", TRUE, {"begun", "eaten"}, Call("ParseType"),
             {"begun", "eaten", "changed"})
        /\ Path("ParseExprPrimary", TRUE, {"begun", "eaten", "changed"},
             Call("ParseFloatNumber"), {"begun", "eaten", "changed"})
        /\ Path("ParseExprPrimary", TRUE, {"begun", "eaten", "changed"}, Token("E"),
             {"begun", "eaten", "changed"})
        /\ Closed({"begun", "eaten", "changed"})
    BY <2>1, CallPathSaved, TokenPathSaved
         DEF Eaters, EatsFirst, LeavesAt, Closed, Tokens, Words
  <2> QED BY <2>2, Fits4, Zenon DEF Saved
<1>3. Fits("ParseExprPrimary",
        Saved(<<Token("L"), Call("ParseMangledName"), Token("E")>>))
  <2>1. Ready("ParseExprPrimary", {"begun", "eaten"}, "ParseMangledName")
    BY DEF Ready, ParseFunctions, Productions, Readers, Rank
  <2>2. /\ Path("ParseExprPrimary", TRUE, {"begun"}, Token("L"), {"begun", "eaten"})
        /\ Path("ParseExprPrimary", TRUE, {"begun", "eaten"},
             Call("ParseMangledName"), {"begun", "eaten", "changed"})
        /\ Path("ParseExprPrimary", TRUE, {"begun", "eaten", "changed"}, Token("E"),
             {"begun", "eaten", "changed"})
        /\ Closed({"begun", "eaten", "changed"})
    BY <2>1, CallPathSaved, TokenPathSaved
         DEF Eaters, EatsFirst, LeavesAt, Closed, Tokens, Words
  <2> QED BY <2>2, Fits3, Zenon DEF Saved
<1>4. Fits("ParseExprPrimary",
        Saved(<<Token("LZ"), Call("ParseEncoding"), Token("E")>>))
  <2>1. Ready("ParseExprPrimary", {"begun", "eaten"}, "ParseEncoding")
    BY DEF Ready, ParseFunctions, Productions, Readers, Rank
  <2>2. /\ Path("ParseExprPrimary", TRUE, {"begun"}, Token("LZ"),
             {"begun", "eaten"})
        /\ Path("ParseExprPrimary", TRUE, {"begun", "eaten"}, Call("ParseEncoding"),
             {"begun", "eaten", "changed"})
        /\ Path("ParseExprPrimary", TRUE, {"begun", "eaten", "changed"}, Token("E"),
             {"begun", "eaten", "changed"})
        /\ Closed({"begun", "eaten", "changed"})
    BY <2>1, CallPathSaved, TokenPathSaved
         DEF Eaters, EatsFirst, LeavesAt, Closed, Tokens, Words
  <2> QED BY <2>2, Fits3, Zenon DEF Saved
<1>5. "ParseExprPrimary" \notin EatsFirst
  BY DEF EatsFirst
<1> QED BY <1>1, <1>2, <1>3, <1>4, <1>5, AllFit4, Zenon DEF ParseExprPrimary

(* The alternatives of ParseLocalName. *)
LEMMA ParseLocalNameFits == AllFit("ParseLocalName", ParseLocalName)
<1>1. Fits("ParseLocalName",
        Saved(<<Token("Z"), Call("ParseEncoding"), Token("E"), Write("::"),
          Call("ParseName"), Optional(Call("ParseDiscriminator"))>>))
  <2>1. /\ Ready("ParseLocalName", {"begun", "eaten"}, "ParseEncoding")
        /\ Ready("ParseLocalName", {"begun", "eaten", "changed"}, "ParseName")
        /\ Ready("ParseLocalName", {"begun", "eaten", "changed"},
             "ParseDiscriminator")
    BY DEF Ready, ParseFunctions, Productions, Readers, Rank
  <2>2. /\ Path("ParseLocalName", TRUE, {"begun"}, Token("Z"), {"begun", "eaten"})
        /\ Path("ParseLocalName", TRUE, {"begun", "eaten"}, Call("ParseEncoding"),
             {"begun", "eaten", "changed"})
        /\ Path("ParseLocalName", TRUE, {"begun", "eaten", "changed"}, Token("E"),
             {"begun", "eaten", "changed"})
        /\ Path("ParseLocalName", TRUE, {"begun", "eaten", "changed"}, Write("::"),
             {"begun", "eaten", "changed"})
        /\ Path("ParseLocalName", TRUE, {"begun", "eaten", "changed"},
             Call("ParseName"), {"begun", "eaten", "changed"})
        /\ Path("ParseLocalName", TRUE, {"begun", "eaten", "changed"},
             Optional(Call("ParseDiscriminator")), {"begun", "eaten", "changed"})
        /\ Closed({"begun", "eaten", "changed"})
    BY <2>1, CallPathSaved, OptionalPath, TokenPathSaved, WritePath
         DEF Eaters, EatsFirst, LeavesAt, Closed, Tokens, Words
  <2> QED BY <2>2, Fits6, Zenon DEF Saved
<1>2. Fits("ParseLocalName",
        Saved(<<Token("Z"), Call("ParseEncoding"), Token("Es"),
          Optional(Call("ParseDiscriminator"))>>))
  <2>1. /\ Ready("ParseLocalName", {"begun", "eaten"}, "ParseEncoding")
        /\ Ready("ParseLocalName", {"begun", "eaten", "changed"},
             "ParseDiscriminator")
    BY DEF Ready, ParseFunctions, Productions, Readers, Rank
  <2>2. /\ Path("ParseLocalName", TRUE, {"begun"}, Token("Z"), {"begun", "eaten"})
        /\ Path("ParseLocalName", TRUE, {"begun", "eaten"}, Call("ParseEncoding"),
             {"begun", "eaten", "changed"})
        /\ Path("ParseLocalName", TRUE, {"begun", "eaten", "changed"}, Token("Es"),
             {"begun", "eaten", "changed"})
        /\ Path("ParseLocalName", TRUE, {"begun", "eaten", "changed"},
             Optional(Call("ParseDiscriminator")), {"begun", "eaten", "changed"})
        /\ Closed({"begun", "eaten", "changed"})
    BY <2>1, CallPathSaved, OptionalPath, TokenPathSaved
         DEF Eaters, EatsFirst, LeavesAt, Closed, Tokens, Words
  <2> QED BY <2>2, Fits4, Zenon DEF Saved
<1>3. "ParseLocalName" \notin EatsFirst
  BY DEF EatsFirst
<1> QED BY <1>1, <1>2, <1>3, AllFit2, Zenon DEF ParseLocalName

(* The alternatives of ParseDiscriminator. *)
LEMMA ParseDiscriminatorFits == AllFit("ParseDiscriminator", ParseDiscriminator)
<1>1. Fits("ParseDiscriminator", Saved(<<Token("_"), Call("ParseNumber")>>))
  <2>1. Ready("ParseDiscriminator", {"begun", "eaten"}, "ParseNumber")
    BY DEF Ready, ParseFunctions, Productions, Readers, Rank
  <2>2. /\ Path("ParseDiscriminator", TRUE, {"begun"}, Token("_"),
             {"begun", "eaten"})
        /\ Path("ParseDiscriminator", TRUE, {"begun", "eaten"}, Call("ParseNumber"),
             {"begun", "eaten", "changed"})
        /\ Closed({"begun", "eaten", "changed"})
    BY <2>1, CallPathSaved, TokenPathSaved
         DEF Eaters, EatsFirst, LeavesAt, Closed, Tokens, Words
  <2> QED BY <2>2, Fits2, Zenon DEF Saved
<1> QED BY <1>1, AllFit1, Zenon DEF ParseDiscriminator

(* The alternatives of ParseSubstitution. *)
LEMMA ParseSubstitutionFits == AllFit("ParseSubstitution", ParseSubstitution)
<1>1. Fits("ParseSubstitution", Plain(<<Token("S_"), Write("?")>>))
  <2>1. /\ Path("ParseSubstitution", FALSE, {"begun"}, Token("S_"),
             {"begun", "eaten"})
        /\ Path("ParseSubstitution", FALSE, {"begun", "eaten"}, Write("?"),
             {"begun", "eaten", "changed"})
        /\ Closed({"begun", "eaten", "changed"})
    BY TokenPathPlain, WritePath
         DEF Eaters, EatsFirst, LeavesAt, Closed, Tokens, Words
  <2> QED BY <2>1, Fits2, Zenon DEF Plain
<1>2. Fits("ParseSubstitution",
        Saved(<<Token("S"), Call("ParseSeqId"), Token("_"), Write("?")>>))
  <2>1. Ready("ParseSubstitution", {"begun", "eaten"}, "ParseSeqId")
    BY DEF Ready, ParseFunctions, Productions, Readers, Rank
  <2>2. /\ Path("ParseSubstitution", TRUE, {"begun"}, Token("S"),
             {"begun", "eaten"})
        /\ Path("ParseSubstitution", TRUE, {"begun", "eaten"}, Call("ParseSeqId"),
             {"begun", "eaten", "changed"})
        /\ Path("ParseSubstitution", TRUE, {"begun", "eaten", "changed"},
             Token("_"), {"begun", "eaten", "changed"})
        /\ Path("ParseSubstitution", TRUE, {"begun", "eaten", "changed"},
             Write("?"), {"begun", "eaten", "changed"})
        /\ Closed({"begun", "eaten", "changed"})
    BY <2>1, CallPathSaved, TokenPathSaved, WritePath
         DEF Eaters, EatsFirst, LeavesAt, Closed, Tokens, Words
  <2> QED BY <2>2, Fits4, Zenon DEF Saved
<1>3. Fits("ParseSubstitution", Saved(<<Token("S"), Call("SubstitutionFromList")>>))
  <2>1. Ready("ParseSubstitution", {"begun", "eaten"}, "SubstitutionFromList")
    BY DEF Ready, ParseFunctions, Productions, Readers, Rank
  <2>2. /\ Path("ParseSubstitution", TRUE, {"begun"}, Token("S"),
             {"begun", "eaten"})
        /\ Path("ParseSubstitution", TRUE, {"begun", "eaten"},
             Call("SubstitutionFromList"), {"begun", "eaten", "changed"})
        /\ Closed({"begun", "eaten", "changed"})
    BY <2>1, CallPathSaved, TokenPathSaved
         DEF Eaters, EatsFirst, LeavesAt, Closed, Tokens, Words
  <2> QED BY <2>2, Fits2, Zenon DEF Saved
<1>4. "ParseSubstitution" \notin EatsFirst
  BY DEF EatsFirst
<1> QED BY <1>1, <1>2, <1>3, <1>4, AllFit3, Zenon DEF ParseSubstitution

(* Every function of the grammar. *)
LEMMA GrammarFits == \A f \in DOMAIN Productions : AllFit(f, Productions[f])
<1> SUFFICES ASSUME NEW f \in DOMAIN Productions PROVE AllFit(f, Productions[f])
  OBVIOUS
<1>0. f \in {"ParseMangledName", "ParseEncoding", "ParseName",
            "ParseUnscopedName", "ParseUnscopedTemplateName", "ParseNestedName",
            "PrefixPart", "ParseUnqualifiedName", "ParseLocalSourceName",
            "ParseAbiTags", "ParseAbiTag", "ParseOperatorName",
            "ParseSpecialName", "ParseCallOffset", "ParseNVOffset",
            "ParseVOffset", "ParseCtorDtorName", "ParseType",
            "ParseBuiltinType", "ParseFunctionType", "ParseBareFunctionType",
            "ParseClassEnumType", "ParseArrayType", "ParsePointerToMemberType",
            "ParseTemplateParam", "ParseTemplateTemplateParam", "ParseTemplateArgs",
            "ParseTemplateArg", "ParseExpression", "ParseExprPrimary",
            "ParseLocalName", "ParseDiscriminator", "ParseSubstitution"}
  BY DEF Productions
<1>1. CASE f = "ParseMangledName"
  BY <1>1, ParseMangledNameFits DEF Productions
<1>2. CASE f = "ParseEncoding"
  BY <1>2, ParseEncodingFits DEF Productions
<1>3. CASE f = "ParseName"
  BY <1>3, ParseNameFits DEF Productions
<1>4. CASE f = "ParseUnscopedName"
  BY <1>4, ParseUnscopedNameFits DEF Productions
<1>5. CASE f = "ParseUnscopedTemplateName"
  BY <1>5, ParseUnscopedTemplateNameFits DEF Productions
<1>6. CASE f = "ParseNestedName"
  BY <1>6, ParseNestedNameFits DEF Productions
<1>7. CASE f = "PrefixPart"
  BY <1>7, PrefixPartFits DEF Productions
<1>8. CASE f = "ParseUnqualifiedName"
  BY <1>8, ParseUnqualifiedNameFits DEF Productions
<1>9. CASE f = "ParseLocalSourceName"
  BY <1>9, ParseLocalSourceNameFits DEF Productions
<1>10. CASE f = "ParseAbiTags"
  BY <1>10, ParseAbiTagsFits DEF Productions
<1>11. CASE f = "ParseAbiTag"
  BY <1>11, ParseAbiTagFits DEF Productions
<1>12. CASE f = "ParseOperatorName"
  BY <1>12, ParseOperatorNameFits DEF Productions
<1>13. CASE f = "ParseSpecialName"
  BY <1>13, ParseSpecialNameFits DEF Productions
<1>14. CASE f = "ParseCallOffset"
  BY <1>14, ParseCallOffsetFits DEF Productions
<1>15. CASE f = "ParseNVOffset"
  BY <1>15, ParseNVOffsetFits DEF Productions
<1>16. CASE f = "ParseVOffset"
  BY <1>16, ParseVOffsetFits DEF Productions
<1>17. CASE f = "ParseCtorDtorName"
  BY <1>17, ParseCtorDtorNameFits DEF Productions
<1>18. CASE f = "ParseType"
  BY <1>18, ParseTypeFits DEF Productions
<1>19. CASE f = "ParseBuiltinType"
  BY <1>19, ParseBuiltinTypeFits DEF Productions
<1>20. CASE f = "ParseFunctionType"
  BY <1>20, ParseFunctionTypeFits DEF Productions
<1>21. CASE f = "ParseBareFunctionType"
  BY <1>21, ParseBareFunctionTypeFits DEF Productions
<1>22. CASE f = "ParseClassEnumType"
  BY <1>22, ParseClassEnumTypeFits DEF Productions
<1>23. CASE f = "ParseArrayType"
  BY <1>23, ParseArrayTypeFits DEF Productions
<1>24. CASE f = "ParsePointerToMemberType"
  BY <1>24, ParsePointerToMemberTypeFits DEF Productions
<1>25. CASE f = "ParseTemplateParam"
  BY <1>25, ParseTemplateParamFits DEF Productions
<1>26. CASE f = "ParseTemplateTemplateParam"
  BY <1>26, ParseTemplateTemplateParamFits DEF Productions
<1>27. CASE f = "ParseTemplateArgs"
  BY <1>27, ParseTemplateArgsFits DEF Productions
<1>28. CASE f = "ParseTemplateArg"
  BY <1>28, ParseTemplateArgFits DEF Productions
<1>29. CASE f = "ParseExpression"
  BY <1>29, ParseExpressionFits DEF Productions
<1>30. CASE f = "ParseExprPrimary"
  BY <1>30, ParseExprPrimaryFits DEF Productions
<1>31. CASE f = "ParseLocalName"
  BY <1>31, ParseLocalNameFits DEF Productions
<1>32. CASE f = "ParseDiscriminator"
  BY <1>32, ParseDiscriminatorFits DEF Productions
<1>33. CASE f = "ParseSubstitution"
  BY <1>33, ParseSubstitutionFits DEF Productions
<1> QED BY <1>0, <1>1, <1>2, <1>3, <1>4, <1>5, <1>6, <1>7, <1>8,
           <1>9, <1>10, <1>11, <1>12, <1>13, <1>14, <1>15, <1>16, <1>17,
           <1>18, <1>19, <1>20, <1>21, <1>22, <1>23, <1>24, <1>25, <1>26,
           <1>27, <1>28, <1>29, <1>30, <1>31, <1>32, <1>33

----------------------------------------------------------------------------
(* The states of a parser of a text whose cursor is in it, or behind it.   *)
At(text) == {s \in State(text) : s.cur \in 1..(Len(text) + 1)}

(* r is s but for its cursor and ok. *)
Same(s, r) ==
  /\ r.text = s.text /\ r.out = s.out /\ r.size = s.size
  /\ r.prev_name = s.prev_name /\ r.prev_name_length = s.prev_name_length
  /\ r.nest_level = s.nest_level /\ r.append = s.append
  /\ r.overflowed = s.overflowed

(* r is s but for what it has written. *)
Writes(s, r) ==
  /\ r.cur = s.cur /\ r.nest_level = s.nest_level /\ r.append = s.append
  /\ r.ok = s.ok

(* The fields of a state. *)
LEMMA Fields ==
  ASSUME NEW text, NEW s \in State(text)
  PROVE  /\ s.text = text /\ s.cur \in Nat /\ s.out \in Seq(STRING)
           /\ s.size \in Nat
         /\ s.prev_name \in Nat /\ s.prev_name_length \in Int
              /\ s.nest_level \in Int
         /\ s.append \in BOOLEAN /\ s.overflowed \in BOOLEAN /\ s.ok \in BOOLEAN
BY DEF State

(* return true: nothing but ok. *)
LEMMA SucceedFacts ==
  ASSUME NEW text, NEW s \in At(text)
  PROVE  Succeed(s) \in At(text) /\ Succeed(s).ok = TRUE /\ Same(s, Succeed(s))
           /\ Succeed(s).cur = s.cur
BY DEF At, State, Succeed, Same

(* return false: nothing but ok. *)
LEMMA FailFacts ==
  ASSUME NEW text, NEW s \in At(text)
  PROVE  Fail(s) \in At(text) /\ Fail(s).ok = FALSE /\ Same(s, Fail(s))
           /\ Fail(s).cur = s.cur
BY DEF At, State, Fail, Same

(* The cursor put elsewhere in the text. *)
LEMMA PlaceFacts ==
  ASSUME NEW text, NEW s \in At(text), NEW c \in Nat, c \in 1..(Len(text) + 1)
  PROVE  [s EXCEPT !.cur = c] \in At(text) /\ Same(s, [s EXCEPT !.cur = c])
         /\ [s EXCEPT !.cur = c].cur = c
BY DEF At, State, Same

(* n characters consumed, where there are as many. *)
LEMMA AdvanceFacts ==
  ASSUME NEW text, text \in Seq(STRING), NEW s \in At(text), NEW n \in Nat,
           s.cur + n <= Len(text) + 1
  PROVE  Advance(s, n) \in At(text) /\ Advance(s, n).ok = TRUE
           /\ Same(s, Advance(s, n)) /\ Advance(s, n).cur = s.cur + n
<1> DEFINE r == [s EXCEPT !.cur = s.cur + n]
<1>0. s.cur + n \in Nat /\ s.cur + n \in 1..(Len(text) + 1)
  BY DEF At, State
<1>1. r \in At(text) /\ Same(s, r) /\ r.cur = s.cur + n
  BY <1>0, PlaceFacts
<1>2. Advance(s, n) = Succeed(r)
  BY DEF Advance, Succeed, At, State
<1>3. Succeed(r) \in At(text) /\ Succeed(r).ok = TRUE /\ Same(r, Succeed(r))
        /\ Succeed(r).cur = r.cur
  BY <1>1, SucceedFacts
<1> QED BY <1>1, <1>2, <1>3 DEF Same

WithOut(s, out, over) == [s EXCEPT !.out = out, !.overflowed = over]

WithName(s, n, length) == [s EXCEPT !.prev_name = n, !.prev_name_length = length]

(* Other output. *)
LEMMA OutFacts ==
  ASSUME NEW text, NEW s \in At(text), NEW out \in Seq(STRING), NEW over \in BOOLEAN
  PROVE  WithOut(s, out, over) \in At(text) /\ Writes(s, WithOut(s, out, over))
BY DEF WithOut, At, State, Writes

(* Another last name. *)
LEMMA NameFacts ==
  ASSUME NEW text, NEW s \in At(text), NEW n \in Nat, NEW length \in Int
  PROVE  WithName(s, n, length) \in At(text) /\ Writes(s, WithName(s, n, length))
BY DEF WithName, At, State, Writes

(* The smaller of two numbers. *)
LEMMA MinOfTwo ==
  ASSUME NEW a \in Int, NEW b \in Int
  PROVE  Min({a, b}) \in Int /\ Min({a, b}) = (IF a <= b THEN a ELSE b)
BY DEF Min

(* The larger of two numbers. *)
LEMMA MaxOfTwo ==
  ASSUME NEW a \in Int, NEW b \in Int
  PROVE  Max({a, b}) \in Int /\ Max({a, b}) = (IF a >= b THEN a ELSE b)
BY DEF Max

(* Writing twice is writing. *)
LEMMA WritesOn ==
  ASSUME NEW a, NEW b, NEW c, Writes(a, b), Writes(b, c)
  PROVE  Writes(a, c)
BY DEF Writes

(* What is appended is output only, whatever the room. *)
LEMMA AppendOutFacts ==
  ASSUME NEW text, NEW s \in At(text), NEW str \in Seq(STRING)
  PROVE  AppendOut(s, str) \in At(text) /\ Writes(s, AppendOut(s, str))
<1> DEFINE room == s.size - 1 - Len(s.out)
           left == Max({0, room})
           n == Min({Len(str), left})
<1>1. s.size \in Nat /\ s.out \in Seq(STRING) /\ s.overflowed \in BOOLEAN
  BY Fields DEF At
<1>2. Len(str) \in Nat /\ room \in Int
  BY <1>1
<1>3. left \in Nat
  BY <1>2, MaxOfTwo
<1> HIDE DEF left
<1>4. n \in Nat /\ n <= Len(str)
  BY <1>2, <1>3, MinOfTwo
<1> HIDE DEF n
<1>5. s.out \o SubSeq(str, 1, n) \in Seq(STRING)
  BY <1>1, <1>2, <1>4
<1>6. (s.overflowed \/ n < Len(str)) \in BOOLEAN
  OBVIOUS
<1> DEFINE out == s.out \o SubSeq(str, 1, n)
           over == s.overflowed \/ n < Len(str)
<1>7. AppendOut(s, str) = WithOut(s, out, over)
  BY DEF WithOut, AppendOut, Copied, n, left
<1>8. out \in Seq(STRING) /\ over \in BOOLEAN
  BY <1>5, <1>6
<1> HIDE DEF out, over
<1> QED BY <1>7, <1>8, OutFacts

(* So is what MaybeAppendWithLength writes, and remembers. *)
LEMMA MaybeAppendWithLengthFacts ==
  ASSUME NEW text, NEW s \in At(text), NEW str \in Seq(STRING), NEW length \in Int
  PROVE  MaybeAppendWithLength(s, str, length) \in At(text)
           /\ Writes(s, MaybeAppendWithLength(s, str, length))
<1> DEFINE a == AvoidTripleLess(s, str)
           b == RememberName(a, str, length)
<1>1. a \in At(text) /\ Writes(s, a)
  <2>1. Text(" ") \in Seq(STRING)
    BY TextsAssumption DEF Words
  <2>2. a = AppendOut(s, Text(" ")) \/ a = s
    BY DEF AvoidTripleLess
  <2>3. Writes(s, s)
    BY DEF Writes
  <2> QED BY <2>1, <2>2, <2>3, AppendOutFacts
<1> HIDE DEF a
<1>2. b \in At(text) /\ Writes(a, b)
  <2> DEFINE n == Len(a.out) + 1
  <2>1. n \in Nat
    BY <1>1, Fields DEF At
  <2>2. b = WithName(a, n, length) \/ b = a
    BY DEF WithName, RememberName
  <2> HIDE DEF n
  <2>3. Writes(a, a)
    BY DEF Writes
  <2> QED BY <1>1, <2>1, <2>2, <2>3, NameFacts
<1> HIDE DEF b
<1>3. AppendOut(b, str) \in At(text) /\ Writes(b, AppendOut(b, str))
  BY <1>2, AppendOutFacts
<1>4. MaybeAppendWithLength(s, str, length) = AppendOut(b, str)
        \/ MaybeAppendWithLength(s, str, length) = s
  BY DEF MaybeAppendWithLength, a, b
<1>5. Writes(s, s)
  BY DEF Writes
<1> QED BY <1>1, <1>2, <1>3, <1>4, <1>5, WritesOn

(* MaybeAppend writes. *)
LEMMA MaybeAppendFacts ==
  ASSUME NEW text, NEW s \in At(text), NEW str \in Seq(STRING)
  PROVE  MaybeAppend(s, str) \in At(text) /\ Writes(s, MaybeAppend(s, str))
<1>1. Len(str) \in Int
  OBVIOUS
<1> QED BY <1>1, MaybeAppendWithLengthFacts DEF MaybeAppend

(* MaybeAppendPrevName writes. *)
LEMMA MaybeAppendPrevNameFacts ==
  ASSUME NEW text, NEW s \in At(text)
  PROVE  MaybeAppendPrevName(s) \in At(text) /\ Writes(s, MaybeAppendPrevName(s))
<1> DEFINE last == Min({Len(s.out), s.prev_name + s.prev_name_length - 1})
<1>1. /\ s.out \in Seq(STRING) /\ s.prev_name \in Nat /\ s.prev_name_length \in Int
      /\ Len(s.out) \in Nat
  BY Fields DEF At
<1>2. Writes(s, s)
  BY DEF Writes
<1>3. CASE s.prev_name = 0 \/ last < s.prev_name
  <2>1. MaybeAppendPrevName(s) = s
    BY <1>3 DEF MaybeAppendPrevName
  <2> QED BY <1>2, <2>1
<1>4. CASE ~(s.prev_name = 0 \/ last < s.prev_name)
  <2> DEFINE end == s.prev_name + s.prev_name_length - 1
             size == Len(s.out)
  <2>0. end \in Int /\ size \in Int
    BY <1>1
  <2>1. last \in Int /\ last <= Len(s.out)
    <3> HIDE DEF end, size
    <3>1. Min({size, end}) \in Int /\ Min({size, end}) <= size
      BY <2>0, MinOfTwo
    <3> QED BY <3>1 DEF end, size
  <2>2. MaybeAppendPrevName(s) = MaybeAppendWithLength(s,
          SubSeq(s.out, s.prev_name, last), s.prev_name_length)
    BY <1>4 DEF MaybeAppendPrevName
  <2> HIDE DEF last
  <2>3. SubSeq(s.out, s.prev_name, last) \in Seq(STRING)
    BY <1>1, <1>4, <2>1
  <2> QED BY <1>1, <2>2, <2>3, MaybeAppendWithLengthFacts
<1> QED BY <1>3, <1>4

(* MaybeAppendSeparator writes. *)
LEMMA SeparatorFacts ==
  ASSUME NEW text, NEW s \in At(text)
  PROVE  MaybeAppendSeparator(s) \in At(text) /\ Writes(s, MaybeAppendSeparator(s))
<1>1. Text("::") \in Seq(STRING)
  BY TextsAssumption DEF Words
<1>2. Writes(s, s)
  BY DEF Writes
<1>3. MaybeAppendSeparator(s) = MaybeAppend(s, Text("::"))
        \/ MaybeAppendSeparator(s) = s
  BY DEF MaybeAppendSeparator
<1> QED BY <1>1, <1>2, <1>3, MaybeAppendFacts

(* MaybeCancelLastSeparator takes back output. *)
LEMMA CancelFacts ==
  ASSUME NEW text, NEW s \in At(text)
  PROVE  MaybeCancelLastSeparator(s) \in At(text)
           /\ Writes(s, MaybeCancelLastSeparator(s))
<1> DEFINE out == SubSeq(s.out, 1, Len(s.out) - 2)
<1>1. Writes(s, s)
  BY DEF Writes
<1>2. s.out \in Seq(STRING)
  BY Fields DEF At
<1>3. CASE s.nest_level >= 1 /\ s.append /\ Len(s.out) >= 2
  <2>1. out \in Seq(STRING)
    BY <1>2, <1>3
  <2>2. MaybeCancelLastSeparator(s) = [s EXCEPT !.out = out]
    BY <1>3 DEF MaybeCancelLastSeparator
  <2> HIDE DEF out
  <2> QED BY <2>1, <2>2 DEF At, State, Writes
<1>4. CASE ~(s.nest_level >= 1 /\ s.append /\ Len(s.out) >= 2)
  <2>1. MaybeCancelLastSeparator(s) = s
    BY <1>4 DEF MaybeCancelLastSeparator
  <2> QED BY <1>1, <2>1
<1> QED BY <1>3, <1>4

(* MaybeIncreaseNestLevel leaves cursor and append mode. *)
LEMMA IncreaseFacts ==
  ASSUME NEW text, NEW s \in At(text)
  PROVE  /\ MaybeIncreaseNestLevel(s) \in At(text)
           /\ MaybeIncreaseNestLevel(s).cur = s.cur
         /\ MaybeIncreaseNestLevel(s).append = s.append
<1> DEFINE level == AsShort(s.nest_level + 1)
<1>1. level \in Int
  BY Fields DEF At, AsShort
<1>2. MaybeIncreaseNestLevel(s) = [s EXCEPT !.nest_level = level]
        \/ MaybeIncreaseNestLevel(s) = s
  BY DEF MaybeIncreaseNestLevel
<1> HIDE DEF level
<1> QED BY <1>1, <1>2 DEF At, State

----------------------------------------------------------------------------
(* What a parsing function f promises its caller: s is the state at the    *)
(* call, r the one it returns.                                             *)
Meets(f, s, r) ==
  /\ r.ok => r.nest_level = s.nest_level /\ r.append = s.append /\ s.cur < r.cur
  /\ ~r.ok => Same(s, r) /\ s.cur <= r.cur /\ (f \in Eaters \/ r.cur = s.cur)

(* No number of the text is negative. *)
Unsigned(text) ==
  \A i \in 1..(Len(text) - 1) : ~(text[i] = "n" /\ text[i + 1] \in DigitChars)

(* A number of digits is not negative. *)
LEMMA DecimalNat ==
  ASSUME NEW C, NEW digits \in Seq(C), \A i \in 1..Len(digits) : IsDigit(digits[i])
  PROVE  DecimalValue(digits) \in Nat
<1> DEFINE n == Len(digits)
<1>1. n \in Nat
  OBVIOUS
<1>2. PICK v \in [0..n -> Int] :
         /\ DecimalValue(digits) = v[0] /\ v[n] = 0
         /\ \A k \in 0..(n - 1) : v[k] = 10 * v[k + 1] + DigitValue(digits[n - k])
  BY DecimalTable
<1>3. ASSUME NEW k \in 0..(n - 1) PROVE DigitValue(digits[n - k]) \in Nat
  <2>1. n - k \in 1..n
    BY <1>1
  <2>2. IsDigit(digits[n - k])
    BY <2>1
  <2>3. DOMAIN Digits = 1..10
    BY DEF Digits
  <2> DEFINE j == CHOOSE i \in DOMAIN Digits : Digits[i] = digits[n - k]
  <2>4. j \in DOMAIN Digits
    BY <2>2, Zenon DEF IsDigit
  <2>5. DigitValue(digits[n - k]) = j - 1
    BY Zenon DEF DigitValue
  <2> HIDE DEF j
  <2> QED BY <2>3, <2>4, <2>5
<1> DEFINE T == {k \in 0..n : v[k] \in Nat}
<1> HIDE DEF n
<1>4. n \in T
  BY <1>1, <1>2
<1>5. ASSUME NEW k \in 0..(n - 1), k + 1 \in T PROVE k \in T
  <2>1. k \in 0..n /\ v[k + 1] \in Nat
    BY <1>1, <1>5
  <2>2. v[k] = 10 * v[k + 1] + DigitValue(digits[n - k])
    BY <1>2
  <2> QED BY <1>3, <2>1, <2>2
<1>6. 0..n \subseteq T
  <2> HIDE DEF T
  <2> QED BY <1>1, <1>4, <1>5, DownInduction
<1>7. 0 \in T
  BY <1>1, <1>6
<1> QED BY <1>2, <1>7

(* The run of a class ends at the first character that is not of it. *)
LEMMA RunFacts ==
  ASSUME NEW text \in Seq(STRING), NEW cur \in 1..(Len(text) + 1), NEW class
  PROVE  /\ RunFrom(text, cur, class) \in Nat
         /\ cur + RunFrom(text, cur, class) <= Len(text) + 1
         /\ \A k \in cur..(cur + RunFrom(text, cur, class) - 1) : text[k] \in class
<1> DEFINE stops == {k \in cur..Len(text) : text[k] \notin class}
<1>1. Len(text) \in Nat /\ stops \subseteq Nat
  OBVIOUS
<1>2. CASE stops = {}
  <2>1. RunFrom(text, cur, class) = Len(text) + 1 - cur
    BY <1>2 DEF RunFrom
  <2> QED BY <1>1, <1>2, <2>1
<1>3. CASE stops # {}
  <2> DEFINE stop == Min(stops)
  <2>1. RunFrom(text, cur, class) = stop - cur
    BY <1>3 DEF RunFrom
  <2>2. stop \in stops /\ \A y \in stops : stop <= y
    <3> HIDE DEF stops
    <3> QED BY <1>1, <1>3, MinFacts
  <2> HIDE DEF stop
  <2>3. stop \in cur..Len(text)
    BY <2>2
  <2>4. ASSUME NEW k \in cur..(stop - 1) PROVE text[k] \in class
    <3>1. k \in cur..Len(text) /\ ~(stop <= k)
      BY <2>3
    <3> QED BY <2>2, <3>1
  <2> QED BY <1>1, <2>1, <2>3, <2>4
<1> QED BY <1>2, <1>3

(* A run from the cursor on. *)
LEMMA SpanFacts ==
  ASSUME NEW text \in Seq(STRING), NEW s \in At(text), NEW class
  PROVE  /\ Span(s, class) \in Nat /\ s.cur + Span(s, class) <= Len(text) + 1
         /\ \A k \in s.cur..(s.cur + Span(s, class) - 1) : text[k] \in class
<1>1. s.text = text /\ s.cur \in 1..(Len(text) + 1)
  BY DEF At, State
<1> QED BY <1>1, RunFacts DEF Span

(* There is a character at the cursor. *)
LEMMA NextFacts ==
  ASSUME NEW text \in Seq(STRING), NEW s \in At(text), NEW class, NextIn(s, class)
  PROVE  s.cur + 1 <= Len(text) + 1 /\ text[s.cur] \in class
<1>1. s.text = text /\ s.cur \in 1..(Len(text) + 1) /\ Len(text) \in Nat
  BY DEF At, State
<1> QED BY <1>1 DEF NextIn, AtLeastNumCharsRemaining

(* There are n characters at the cursor. *)
LEMMA RemainingFacts ==
  ASSUME NEW text \in Seq(STRING), NEW s \in At(text), NEW n \in Nat,
           AtLeastNumCharsRemaining(s, n)
  PROVE  s.cur + n <= Len(text) + 1
<1>1. s.text = text /\ s.cur \in 1..(Len(text) + 1) /\ Len(text) \in Nat
  BY DEF At, State
<1> QED BY <1>1 DEF AtLeastNumCharsRemaining

(* What a failure that changes nothing, and a success, amount to. *)
LEMMA FailMeets ==
  ASSUME NEW text, NEW s \in At(text), NEW f
  PROVE  Fail(s) \in At(text) /\ Meets(f, s, Fail(s))
<1>1. s.cur \in Nat
  BY DEF At, State
<1> DEFINE r == Fail(s)
<1>2. r \in At(text) /\ ~r.ok /\ Same(s, r) /\ r.cur = s.cur
  BY FailFacts
<1> HIDE DEF r
<1>3. Meets(f, s, r)
  BY <1>1, <1>2 DEF Meets
<1> QED BY <1>2, <1>3 DEF r

(* A reader that has written and consumes n characters. *)
LEMMA AdvanceMeets ==
  ASSUME NEW text \in Seq(STRING), NEW s \in At(text), NEW t \in At(text),
           Writes(s, t),
         NEW n \in Nat \ {0}, s.cur + n <= Len(text) + 1, NEW f
  PROVE  Advance(t, n) \in At(text) /\ Meets(f, s, Advance(t, n))
           /\ Advance(t, n).ok
         /\ Advance(t, n).cur = s.cur + n
<1>1. s.cur \in Nat /\ t.cur = s.cur
  BY DEF At, State, Writes
<1>2. /\ Advance(t, n) \in At(text) /\ Advance(t, n).ok = TRUE
      /\ Same(t, Advance(t, n)) /\ Advance(t, n).cur = s.cur + n
  BY <1>1, AdvanceFacts
<1> QED BY <1>1, <1>2 DEF Meets, Same, Writes

(* ParseNumber, and the number it reads. *)
LEMMA NumberFacts ==
  ASSUME NEW text \in Seq(STRING), Unsigned(text), NEW s \in At(text)
  PROVE  /\ ParseNumber(s) \in At(text) /\ Meets("ParseNumber", s, ParseNumber(s))
         /\ ParseNumber(s).ok => NumberOut(s) \in Nat
<1> DEFINE p == IF NextIn(s, {"n"}) THEN Advance(s, 1) ELSE s
           n == Span(p, DigitChars)
           r == ParseNumber(s)
<1>1. s.cur \in Nat /\ s.cur \in 1..(Len(text) + 1) /\ s.text = text
        /\ Len(text) \in Nat
  BY DEF At, State
<1>2. /\ p \in At(text) /\ Same(s, p) /\ s.cur <= p.cur /\ p.cur \in Nat
           /\ p.text = text
      /\ p.cur \in 1..(Len(text) + 1)
      /\ NextIn(s, {"n"}) => p.cur = s.cur + 1 /\ text[s.cur] = "n"
  <2>1. CASE NextIn(s, {"n"})
    <3>1. s.cur + 1 <= Len(text) + 1 /\ text[s.cur] = "n"
      BY <2>1, NextFacts
    <3>2. 1 \in Nat /\ p = Advance(s, 1)
      BY <2>1
    <3>3. p \in At(text) /\ Same(s, p) /\ p.cur = s.cur + 1
      BY <3>1, <3>2, AdvanceFacts
    <3> HIDE DEF p
    <3> QED BY <1>1, <3>1, <3>3 DEF Same, At
  <2>2. CASE ~NextIn(s, {"n"})
    <3>1. p = s
      BY <2>2
    <3> HIDE DEF p
    <3> QED BY <1>1, <2>2, <3>1 DEF Same
  <2> QED BY <2>1, <2>2
<1> HIDE DEF p
<1>3. /\ n \in Nat /\ p.cur + n <= Len(text) + 1
      /\ \A k \in p.cur..(p.cur + n - 1) : text[k] \in DigitChars
  BY <1>2, SpanFacts
<1>4. r = IF n > 0 THEN Advance(p, n) ELSE Fail(p)
  BY DEF ParseNumber, p
<1> HIDE DEF n, r
<1>5. CASE n > 0
  <2>1. r \in At(text) /\ r.ok = TRUE /\ Same(p, r) /\ r.cur = p.cur + n
    BY <1>2, <1>3, <1>4, <1>5, AdvanceFacts
  <2>2. Meets("ParseNumber", s, r)
    BY <1>1, <1>2, <1>3, <1>5, <2>1 DEF Meets, Same
  <2>3. ~NextIn(s, {"n"})
    <3> SUFFICES ASSUME NextIn(s, {"n"}) PROVE FALSE
      OBVIOUS
    <3>1. text[p.cur] \in DigitChars
      <4>1. p.cur \in p.cur..(p.cur + n - 1)
        BY <1>2, <1>3, <1>5
      <4> QED BY <1>3, <4>1
    <3>2. s.cur \in 1..(Len(text) - 1) /\ p.cur = s.cur + 1 /\ text[s.cur] = "n"
      BY <1>1, <1>2, <1>3, <1>5
    <3> QED BY <3>1, <3>2 DEF Unsigned
  <2>4. p = s
    BY <2>3 DEF p
  <2>5. NumberOut(s) = DecimalValue(Ahead(s, n))
    BY <2>3, <2>4 DEF NumberOut, n
  <2> DEFINE digits == Ahead(s, n)
  <2>6. digits = SubSeq(text, s.cur, s.cur + n - 1)
    <3>1. s.text = text
      BY <1>1
    <3>2. s.cur + n - 1 <= Len(text)
      BY <1>1, <1>3, <2>4
    <3> QED BY ONLY <3>1, <3>2, Zenon DEF Ahead, AtLeastNumCharsRemaining, digits
  <2>7. /\ digits \in Seq(STRING) /\ Len(digits) = n
        /\ \A i \in 1..n : digits[i] = text[s.cur + i - 1]
    <3>1. /\ s.cur \in 1..(Len(text) + 1) /\ s.cur + n - 1 \in 0..Len(text)
          /\ (s.cur + n - 1) - s.cur + 1 = n
      BY <1>1, <1>3, <2>4
    <3> DEFINE last == s.cur + n - 1
    <3>2. s.cur \in Int /\ last \in Int /\ \A i \in s.cur..last : text[i] \in STRING
      BY <1>1, <3>1
    <3>3. /\ SubSeq(text, s.cur, last) \in Seq(STRING)
          /\ Len(SubSeq(text, s.cur, last)) = IF s.cur <= last THEN last - s.cur + 1 ELSE 0
          /\ \A i \in 1..(last - s.cur + 1) : SubSeq(text, s.cur, last)[i] = text[s.cur + i - 1]
      <4> HIDE DEF last
      <4> QED BY ONLY <3>2, SubSeqProperties
    <3>4. last - s.cur + 1 = n /\ s.cur <= last
      BY <1>1, <1>3, <1>5, <3>1
    <3> HIDE DEF digits, last
    <3> QED BY ONLY <2>6, <3>3, <3>4 DEF last
  <2>8. ASSUME NEW i \in 1..Len(digits) PROVE IsDigit(digits[i])
    <3>1. s.cur + i - 1 \in p.cur..(p.cur + n - 1)
      BY <1>1, <1>3, <2>4, <2>7
    <3>2. digits[i] \in DigitChars
      BY <1>3, <2>7, <3>1
    <3> HIDE DEF digits
    <3> QED BY <3>2 DEF DigitChars, IsDigit
  <2>9. DecimalValue(digits) \in Nat
    <3> HIDE DEF digits
    <3> QED BY <2>7, <2>8, DecimalNat
  <2> QED BY <2>1, <2>2, <2>5, <2>9 DEF r
<1>6. CASE ~(n > 0)
  <2>1. r = Fail(p)
    BY <1>4, <1>6
  <2>2. r \in At(text) /\ r.ok = FALSE /\ Same(p, r) /\ r.cur = p.cur
    BY <1>2, <2>1, FailFacts
  <2>3. Meets("ParseNumber", s, r)
    BY <1>1, <1>2, <2>2 DEF Meets, Same, Eaters
  <2> QED BY <2>2, <2>3 DEF r
<1> QED BY <1>3, <1>5, <1>6

(* ParseIdentifier consumes the length it is given. *)
LEMMA IdentifierFacts ==
  ASSUME NEW text \in Seq(STRING), NEW s \in At(text), NEW length \in Nat
  PROVE  /\ ParseIdentifier(s, length) \in At(text)
         /\ ParseIdentifier(s, length).ok =>
              /\ ParseIdentifier(s, length).nest_level = s.nest_level
              /\ ParseIdentifier(s, length).append = s.append
              /\ ParseIdentifier(s, length).cur = s.cur + length
<1> DEFINE r == ParseIdentifier(s, length)
           t == IF IdentifierIsAnonymousNamespace(s, length)
                THEN MaybeAppend(s, Text("(anonymous namespace)"))
                ELSE MaybeAppendWithLength(s, Ahead(s, length), length)
<1>1. s.text = text /\ s.cur \in 1..(Len(text) + 1) /\ Len(text) \in Nat
  BY DEF At, State
<1>2. Text("(anonymous namespace)") \in Seq(STRING)
  BY TextsAssumption DEF Words
<1>3. Ahead(s, length) \in Seq(STRING)
  <2>1. \A end \in Int : end <= Len(text) =>
          SubSeq(text, s.cur, end) \in Seq(STRING)
    BY <1>1
  <2>2. CASE AtLeastNumCharsRemaining(s, length)
    <3> DEFINE end == s.cur + length - 1
    <3>1. end \in Int /\ end <= Len(text)
            /\ Ahead(s, length) = SubSeq(text, s.cur, end)
      BY <1>1, <2>2 DEF Ahead, AtLeastNumCharsRemaining
    <3> HIDE DEF end
    <3> QED BY <2>1, <3>1
  <2>3. CASE ~AtLeastNumCharsRemaining(s, length)
    <3>1. Ahead(s, length) = SubSeq(text, s.cur, Len(text)) /\ Len(text) \in Int
      BY <1>1, <2>3 DEF Ahead
    <3> QED BY <1>1, <2>1, <3>1
  <2> QED BY <2>2, <2>3
<1>4. t \in At(text) /\ Writes(s, t)
  <2>1. /\ MaybeAppend(s, Text("(anonymous namespace)")) \in At(text)
        /\ Writes(s, MaybeAppend(s, Text("(anonymous namespace)")))
    BY <1>2, MaybeAppendFacts
  <2>2. length \in Int
    OBVIOUS
  <2>3. /\ MaybeAppendWithLength(s, Ahead(s, length), length) \in At(text)
        /\ Writes(s, MaybeAppendWithLength(s, Ahead(s, length), length))
    BY <1>3, <2>2, MaybeAppendWithLengthFacts
  <2> QED BY <2>1, <2>3
<1> HIDE DEF t
<1>5. CASE length = -1 \/ ~AtLeastNumCharsRemaining(s, length)
  <2>1. r = Fail(s)
    BY <1>5 DEF ParseIdentifier
  <2> HIDE DEF r
  <2>2. r \in At(text) /\ r.ok = FALSE
    BY <2>1, FailFacts
  <2> QED BY <2>2 DEF r
<1>6. CASE ~(length = -1 \/ ~AtLeastNumCharsRemaining(s, length))
  <2>1. r = Advance(t, length)
    BY <1>6 DEF ParseIdentifier, t
  <2>2. s.cur + length <= Len(text) + 1
    BY <1>6, RemainingFacts
  <2> HIDE DEF r
  <2>3. t.cur = s.cur /\ t.nest_level = s.nest_level /\ t.append = s.append
    BY <1>4 DEF Writes
  <2>4. r \in At(text) /\ Same(t, r) /\ r.cur = t.cur + length
    BY <1>4, <2>1, <2>2, <2>3, AdvanceFacts
  <2> QED BY <2>3, <2>4 DEF Same, r
<1> QED BY <1>5, <1>6

(* ParseSourceName keeps its promise. *)
LEMMA SourceNameFacts ==
  ASSUME NEW text \in Seq(STRING), Unsigned(text), NEW s \in At(text)
  PROVE  ParseSourceName(s) \in At(text)
           /\ Meets("ParseSourceName", s, ParseSourceName(s))
<1> DEFINE number == ParseNumber(s)
           name == ParseIdentifier(number, NumberOut(s))
           r == ParseSourceName(s)
<1>1. CASE number.ok /\ name.ok
  <2>1. r = name
    BY <1>1 DEF ParseSourceName
  <2>2. number \in At(text) /\ Meets("ParseNumber", s, number)
          /\ NumberOut(s) \in Nat
    BY <1>1, NumberFacts
  <2> HIDE DEF number
  <2>3. /\ name \in At(text) /\ name.nest_level = number.nest_level
        /\ name.append = number.append /\ name.cur = number.cur + NumberOut(s)
    BY <1>1, <2>2, IdentifierFacts
  <2>4. s.cur \in Nat /\ number.cur \in Nat
    BY <2>2 DEF At, State
  <2> HIDE DEF name, r
  <2>5. Meets("ParseSourceName", s, r)
    BY <1>1, <2>1, <2>2, <2>3, <2>4 DEF Meets
  <2> QED BY <2>1, <2>3, <2>5 DEF r
<1>2. CASE ~(number.ok /\ name.ok)
  <2>1. r = Fail(s)
    BY <1>2 DEF ParseSourceName
  <2> QED BY <2>1, FailMeets DEF r
<1> QED BY <1>1, <1>2

(* The two runs of characters. *)
LEMMA RunMeets ==
  ASSUME NEW text \in Seq(STRING), NEW s \in At(text), NEW class, NEW f, NEW r,
         r = IF Span(s, class) > 0 THEN Advance(s, Span(s, class)) ELSE Fail(s)
  PROVE  r \in At(text) /\ Meets(f, s, r)
<1> DEFINE n == Span(s, class)
<1>1. n \in Nat /\ s.cur + n <= Len(text) + 1
  BY SpanFacts
<1> HIDE DEF n
<1>2. Writes(s, s)
  BY DEF Writes
<1>3. CASE n > 0
  <2>1. n \in Nat \ {0} /\ r = Advance(s, n)
    BY <1>1, <1>3 DEF n
  <2> QED BY <1>1, <1>2, <2>1, AdvanceMeets
<1>4. CASE ~(n > 0)
  <2>1. r = Fail(s)
    BY <1>4 DEF n
  <2> QED BY <2>1, FailMeets
<1> QED BY <1>1, <1>3, <1>4

(* A table look-up: n characters are consumed, and t is written. *)
LEMMA ListMeets ==
  ASSUME NEW text \in Seq(STRING), NEW s \in At(text), NEW t \in At(text),
           Writes(s, t),
         NEW n \in Nat \ {0}, AtLeastNumCharsRemaining(s, n), NEW f
  PROVE  Advance(t, n) \in At(text) /\ Meets(f, s, Advance(t, n))
<1>1. s.cur + n <= Len(text) + 1
  BY RemainingFacts
<1> QED BY <1>1, AdvanceMeets

(* The list of operators. *)
LEMMA OperatorMeets ==
  ASSUME NEW text \in Seq(STRING), NEW s \in At(text)
  PROVE  OperatorFromList(s) \in At(text)
           /\ Meets("OperatorFromList", s, OperatorFromList(s))
<1> DEFINE abbrev == s.text[s.cur] \o s.text[s.cur + 1]
           name   == Text(kOperatorList[abbrev])
           operator == MaybeAppend(s, Text("operator"))
           spaced == IF StartsWith(name, LowerChars) THEN MaybeAppend(operator,
             Text(" "))
                     ELSE operator
<1>1. CASE AtLeastNumCharsRemaining(s, 2) /\ abbrev \in DOMAIN kOperatorList
  <2>1. kOperatorList[abbrev] \in Words
    <3> HIDE DEF abbrev
    <3> QED BY <1>1 DEF Words, Range
  <2>2. name \in Seq(STRING) /\ Text("operator") \in Seq(STRING)
          /\ Text(" ") \in Seq(STRING)
    <3>1. "operator" \in Words /\ " " \in Words
      BY DEF Words
    <3> HIDE DEF abbrev
    <3> QED BY <2>1, <3>1, TextsAssumption
  <2>3. OperatorFromList(s) = Advance(MaybeAppend(spaced, name), 2)
    BY <1>1 DEF OperatorFromList
  <2> HIDE DEF name
  <2>4. operator \in At(text) /\ Writes(s, operator)
    BY <2>2, MaybeAppendFacts
  <2> HIDE DEF operator
  <2>5. spaced \in At(text) /\ Writes(s, spaced)
    BY <2>2, <2>4, MaybeAppendFacts, WritesOn
  <2> HIDE DEF spaced
  <2>6. MaybeAppend(spaced, name) \in At(text)
          /\ Writes(s, MaybeAppend(spaced, name))
    BY <2>2, <2>5, MaybeAppendFacts, WritesOn
  <2>7. 2 \in Nat \ {0}
    OBVIOUS
  <2> QED BY <1>1, <2>3, <2>6, <2>7, ListMeets
<1>2. CASE ~(AtLeastNumCharsRemaining(s, 2) /\ abbrev \in DOMAIN kOperatorList)
  <2>1. OperatorFromList(s) = Fail(s)
    BY <1>2 DEF OperatorFromList
  <2> QED BY <2>1, FailMeets
<1> QED BY <1>1, <1>2

(* The list of built-in types. *)
LEMMA BuiltinMeets ==
  ASSUME NEW text \in Seq(STRING), NEW s \in At(text)
  PROVE  BuiltinFromList(s) \in At(text)
           /\ Meets("BuiltinFromList", s, BuiltinFromList(s))
<1> DEFINE name == Text(kBuiltinTypeList[s.text[s.cur]])
<1>1. CASE NextIn(s, DOMAIN kBuiltinTypeList)
  <2>1. AtLeastNumCharsRemaining(s, 1) /\ s.text[s.cur] \in DOMAIN kBuiltinTypeList
    BY <1>1 DEF NextIn
  <2>2. kBuiltinTypeList[s.text[s.cur]] \in Words
    BY <2>1 DEF Words, Range
  <2>3. name \in Seq(STRING)
    BY <2>2, TextsAssumption
  <2>4. BuiltinFromList(s) = Advance(MaybeAppend(s, name), 1)
    BY <1>1 DEF BuiltinFromList
  <2> HIDE DEF name
  <2>5. MaybeAppend(s, name) \in At(text) /\ Writes(s, MaybeAppend(s, name))
    BY <2>3, MaybeAppendFacts
  <2>6. 1 \in Nat \ {0}
    OBVIOUS
  <2> QED BY <2>1, <2>4, <2>5, <2>6, ListMeets
<1>2. CASE ~NextIn(s, DOMAIN kBuiltinTypeList)
  <2>1. BuiltinFromList(s) = Fail(s)
    BY <1>2 DEF BuiltinFromList
  <2> QED BY <2>1, FailMeets
<1> QED BY <1>1, <1>2

(* The list of substitutions. *)
LEMMA SubstitutionMeets ==
  ASSUME NEW text \in Seq(STRING), NEW s \in At(text)
  PROVE  /\ SubstitutionFromList(s) \in At(text)
         /\ Meets("SubstitutionFromList", s, SubstitutionFromList(s))
<1> DEFINE name == Text(kSubstitutionList[s.text[s.cur]])
           std == MaybeAppend(s, Text("std"))
           scope == MaybeAppend(std, Text("::"))
           t == IF name = <<>> THEN std ELSE MaybeAppend(scope, name)
<1>1. CASE NextIn(s, DOMAIN kSubstitutionList)
  <2>1. AtLeastNumCharsRemaining(s, 1) /\ s.text[s.cur] \in DOMAIN kSubstitutionList
    BY <1>1 DEF NextIn
  <2>2. kSubstitutionList[s.text[s.cur]] \in Words
    BY <2>1 DEF Words, Range
  <2>3. name \in Seq(STRING) /\ Text("std") \in Seq(STRING)
          /\ Text("::") \in Seq(STRING)
    <3>1. "std" \in Words /\ "::" \in Words
      BY DEF Words
    <3> QED BY <2>2, <3>1, TextsAssumption
  <2>4. SubstitutionFromList(s) = Advance(t, 1)
    BY <1>1 DEF SubstitutionFromList
  <2> HIDE DEF name
  <2>5. std \in At(text) /\ Writes(s, std)
    BY <2>3, MaybeAppendFacts
  <2> HIDE DEF std
  <2>6. scope \in At(text) /\ Writes(s, scope)
    BY <2>3, <2>5, MaybeAppendFacts, WritesOn
  <2> HIDE DEF scope
  <2>7. t \in At(text) /\ Writes(s, t)
    BY <2>3, <2>5, <2>6, MaybeAppendFacts, WritesOn
  <2> HIDE DEF t
  <2>8. 1 \in Nat \ {0}
    OBVIOUS
  <2> QED BY <2>1, <2>4, <2>7, <2>8, ListMeets
<1>2. CASE ~NextIn(s, DOMAIN kSubstitutionList)
  <2>1. SubstitutionFromList(s) = Fail(s)
    BY <1>2 DEF SubstitutionFromList
  <2> QED BY <2>1, FailMeets
<1> QED BY <1>1, <1>2

(* A qualifier skipped, if it is there. *)
LEMMA SkipFacts ==
  ASSUME NEW text \in Seq(STRING), NEW s \in At(text), NEW t, NEW c,
         t = IF NextIn(s, {c}) THEN Advance(s, 1) ELSE s
  PROVE  t \in At(text) /\ Same(s, t) /\ s.cur <= t.cur
<1>1. s.cur \in Nat
  BY DEF At, State
<1>2. CASE NextIn(s, {c})
  <2>1. s.cur + 1 <= Len(text) + 1 /\ 1 \in Nat /\ t = Advance(s, 1)
    BY <1>2, NextFacts
  <2> DEFINE u == Advance(s, 1)
  <2>2. u \in At(text) /\ Same(s, u) /\ u.cur = s.cur + 1
    BY <2>1, AdvanceFacts
  <2>3. t = u
    BY <2>1
  <2> HIDE DEF u
  <2> QED BY <1>1, <2>2, <2>3
<1>3. CASE ~NextIn(s, {c})
  BY <1>1, <1>3 DEF Same
<1> QED BY <1>2, <1>3

(* ParseCVQualifiers keeps its promise. *)
LEMMA QualifiersMeet ==
  ASSUME NEW text \in Seq(STRING), NEW s \in At(text)
  PROVE  ParseCVQualifiers(s) \in At(text)
           /\ Meets("ParseCVQualifiers", s, ParseCVQualifiers(s))
<1> DEFINE skip(t, c) == IF NextIn(t, {c}) THEN Advance(t, 1) ELSE t
           a == skip(s, "r")
           b == skip(a, "V")
           r == skip(b, "K")
<1>1. a \in At(text) /\ Same(s, a) /\ s.cur <= a.cur
  BY SkipFacts
<1>2. ParseCVQualifiers(s) = IF r.cur > s.cur THEN Succeed(r) ELSE Fail(s)
  BY DEF ParseCVQualifiers
<1> HIDE DEF a
<1>3. b \in At(text) /\ Same(a, b) /\ a.cur <= b.cur
  BY <1>1, SkipFacts
<1> HIDE DEF b
<1>4. r \in At(text) /\ Same(b, r) /\ b.cur <= r.cur
  BY <1>3, SkipFacts
<1> HIDE DEF r
<1>5. Same(s, r)
  BY <1>1, <1>3, <1>4 DEF Same
<1>6. CASE r.cur > s.cur
  <2> DEFINE t == Succeed(r)
  <2>1. t \in At(text) /\ t.ok = TRUE /\ Same(r, t) /\ t.cur = r.cur
    BY <1>4, SucceedFacts
  <2> HIDE DEF t
  <2>2. Meets("ParseCVQualifiers", s, t)
    BY <1>5, <1>6, <2>1 DEF Meets, Same
  <2> QED BY <1>2, <1>6, <2>1, <2>2 DEF t
<1>7. CASE ~(r.cur > s.cur)
  BY <1>2, <1>7, FailMeets
<1> QED BY <1>6, <1>7

(* Every function that reads the text itself keeps its promise. *)
LEMMA ReadersMeet ==
  ASSUME NEW text \in Seq(STRING), Unsigned(text), NEW s \in At(text),
           NEW f \in Readers
  PROVE  ReadBy(f, s) \in At(text) /\ Meets(f, s, ReadBy(f, s))
<1>1. CASE f = "ParseSourceName"
  BY <1>1, SourceNameFacts DEF ReadBy
<1>2. CASE f = "ParseNumber"
  BY <1>2, NumberFacts DEF ReadBy
<1>3. CASE f = "ParseFloatNumber"
  <2>1. ReadBy(f, s) = ParseFloatNumber(s)
    BY <1>3 DEF ReadBy
  <2> QED BY <2>1, RunMeets DEF ParseFloatNumber
<1>4. CASE f = "ParseSeqId"
  <2>1. ReadBy(f, s) = ParseSeqId(s)
    BY <1>4 DEF ReadBy
  <2> QED BY <2>1, RunMeets DEF ParseSeqId
<1>5. CASE f = "ParseCVQualifiers"
  BY <1>5, QualifiersMeet DEF ReadBy
<1>6. CASE f = "OperatorFromList"
  BY <1>6, OperatorMeets DEF ReadBy
<1>7. CASE f = "BuiltinFromList"
  BY <1>7, BuiltinMeets DEF ReadBy
<1>8. CASE f = "SubstitutionFromList"
  BY <1>8, SubstitutionMeets DEF ReadBy
<1> QED BY <1>1, <1>2, <1>3, <1>4, <1>5, <1>6, <1>7, <1>8 DEF Readers

----------------------------------------------------------------------------
(* What a task may cost: how many tasks, one within the other, it can take.*)
(* Each character left counts for 10000.                                   *)
Left(text, s) == 10000 * (Len(text) + 1 - s.cur)

CallCost(text, f, s) == Left(text, s) + 200 * Rank(f) + 199

TryCost(text, f, i, copy) == Left(text, copy) + 200 * Rank(f) + 10 * (14 - i) + 9

GoCost(text, f, i, j, copy) == Left(text,
  copy) + 200 * Rank(f) + 10 * (14 - i) + (8 - j)

RepeatCost(text, s) == Left(text, s) + 9999

PrefixCost(text, s) == Left(text, s) + 200 * Rank("ParsePrefix") + 150

(* There are nine ranks. *)
LEMMA RankFacts == \A f : Rank(f) \in 0..8
BY DEF Rank

(* A part of a task at the same place costs less. *)
LEMMA CostFacts ==
  ASSUME NEW text \in Seq(STRING), NEW s \in At(text), NEW f, NEW i \in 1..14,
           NEW j \in 1..8
  PROVE  /\ CallCost(text, f, s) \in Int /\ TryCost(text, f, i, s) \in Int
         /\ GoCost(text, f, i, j, s) \in Int /\ RepeatCost(text, s) \in Int
         /\ PrefixCost(text, s) \in Int
         /\ TryCost(text, f, 1, s) < CallCost(text, f, s)
         /\ GoCost(text, f, i, 1, s) < TryCost(text, f, i, s)
         /\ TryCost(text, f, i + 1, s) < TryCost(text, f, i, s)
         /\ GoCost(text, f, i, j + 1, s) < GoCost(text, f, i, j, s)
         /\ PrefixCost(text, s) < CallCost(text, "ParsePrefix", s)
         /\ CallCost(text, f, s) < RepeatCost(text, s)
         /\ CallCost(text, "PrefixPart", s) < PrefixCost(text, s)
         /\ CallCost(text, "ParseTemplateArgs", s) < PrefixCost(text, s)
<1>1. s.cur \in Nat /\ Len(text) \in Nat
  BY DEF At, State
<1>2. Rank(f) \in 0..8 /\ Rank("ParsePrefix") = 5 /\ Rank("PrefixPart") = 4
        /\ Rank("ParseTemplateArgs") = 0
  BY RankFacts DEF Rank
<1> DEFINE a == Left(text, s)
           p == Rank(f)
           q == Rank("ParsePrefix")
           u == Rank("PrefixPart")
           v == Rank("ParseTemplateArgs")
<1>3. /\ CallCost(text, f, s) = a + 200 * p + 199
      /\ TryCost(text, f, i, s) = a + 200 * p + 10 * (14 - i) + 9
      /\ TryCost(text, f, 1, s) = a + 200 * p + 10 * (14 - 1) + 9
      /\ TryCost(text, f, i + 1, s) = a + 200 * p + 10 * (14 - (i + 1)) + 9
      /\ GoCost(text, f, i, j, s) = a + 200 * p + 10 * (14 - i) + (8 - j)
      /\ GoCost(text, f, i, j + 1, s) = a + 200 * p + 10 * (14 - i) + (8 - (j + 1))
      /\ GoCost(text, f, i, 1, s) = a + 200 * p + 10 * (14 - i) + (8 - 1)
      /\ RepeatCost(text, s) = a + 9999
      /\ PrefixCost(text, s) = a + 200 * q + 150
      /\ CallCost(text, "ParsePrefix", s) = a + 200 * q + 199
      /\ CallCost(text, "PrefixPart", s) = a + 200 * u + 199
      /\ CallCost(text, "ParseTemplateArgs", s) = a + 200 * v + 199
  BY Zenon DEF CallCost, TryCost, GoCost, RepeatCost, PrefixCost
<1>4. a \in Int
  BY <1>1 DEF Left
<1> HIDE DEF a, p, q, u, v
<1>5. p \in Int /\ p >= 0 /\ p <= 8 /\ q = 5 /\ u = 4 /\ v = 0
  BY <1>2 DEF p, q, u, v
<1>6. CallCost(text, f, s) \in Int
  BY <1>3, <1>4, <1>5
<1>7. TryCost(text, f, i, s) \in Int
  BY <1>3, <1>4, <1>5
<1>8. GoCost(text, f, i, j, s) \in Int
  BY <1>3, <1>4, <1>5
<1>9. RepeatCost(text, s) \in Int
  BY <1>3, <1>4, <1>5
<1>10. PrefixCost(text, s) \in Int
  BY <1>3, <1>4, <1>5
<1>11. TryCost(text, f, 1, s) < CallCost(text, f, s)
  BY <1>3, <1>4, <1>5
<1>12. GoCost(text, f, i, 1, s) < TryCost(text, f, i, s)
  BY <1>3, <1>4, <1>5
<1>13. TryCost(text, f, i + 1, s) < TryCost(text, f, i, s)
  BY <1>3, <1>4, <1>5
<1>14. GoCost(text, f, i, j + 1, s) < GoCost(text, f, i, j, s)
  BY <1>3, <1>4, <1>5
<1>15. PrefixCost(text, s) < CallCost(text, "ParsePrefix", s)
  BY <1>3, <1>4, <1>5
<1>16. CallCost(text, f, s) < RepeatCost(text, s)
  BY <1>3, <1>4, <1>5
<1>17. CallCost(text, "PrefixPart", s) < PrefixCost(text, s)
  BY <1>3, <1>4, <1>5
<1>18. CallCost(text, "ParseTemplateArgs", s) < PrefixCost(text, s)
  BY <1>3, <1>4, <1>5
<1> QED BY <1>6, <1>7, <1>8, <1>9, <1>10, <1>11, <1>12, <1>13, <1>14, <1>15, <1>16,
         <1>17, <1>18

(* Every task further on costs less. *)
LEMMA LaterCosts ==
  ASSUME NEW text \in Seq(STRING), NEW s \in At(text), NEW r \in At(text),
           s.cur < r.cur,
         NEW f, NEW g, NEW i \in 1..13, NEW j \in 1..8
  PROVE  /\ CallCost(text, g, r) < GoCost(text, f, i, j, s)
         /\ RepeatCost(text, r) < GoCost(text, f, i, j, s)
         /\ RepeatCost(text, r) < RepeatCost(text, s)
         /\ PrefixCost(text, r) < PrefixCost(text, s)
<1>1. s.cur \in Nat /\ r.cur \in Nat /\ Len(text) \in Nat
  BY DEF At, State
<1>2. Rank(f) \in 0..8 /\ Rank(g) \in 0..8 /\ Rank("ParsePrefix") \in 0..8
  BY ONLY RankFacts
<1>3. Left(text, r) + 10000 <= Left(text, s) /\ Left(text, r) \in Int
        /\ Left(text, s) \in Int
  <2> DEFINE n == Len(text)
             x == s.cur
             y == r.cur
  <2>1. Left(text, s) = 10000 * (n + 1 - x) /\ Left(text, r) = 10000 * (n + 1 - y)
    BY Zenon DEF Left
  <2>2. n \in Nat /\ x \in Nat /\ y \in Nat /\ x < y
    BY <1>1
  <2> HIDE DEF n, x, y
  <2> QED BY ONLY <2>1, <2>2
<1> DEFINE a == Left(text, s)
           b == Left(text, r)
           p == Rank(f)
           q == Rank(g)
           u == Rank("ParsePrefix")
<1>4. /\ CallCost(text, g, r) = b + 200 * q + 199
      /\ GoCost(text, f, i, j, s) = a + 200 * p + 10 * (14 - i) + (8 - j)
      /\ RepeatCost(text, s) = a + 9999 /\ RepeatCost(text, r) = b + 9999
      /\ PrefixCost(text, s) = a + 200 * u + 150
           /\ PrefixCost(text, r) = b + 200 * u + 150
  BY Zenon DEF CallCost, GoCost, RepeatCost, PrefixCost
<1> HIDE DEF a, b, p, q, u
<1>5. /\ a \in Int /\ b \in Int /\ b + 10000 <= a
      /\ p \in Int /\ p >= 0 /\ p <= 8 /\ q \in Int /\ q >= 0 /\ q <= 8 /\ u \in Int
  BY <1>2, <1>3 DEF a, b, p, q, u
<1>6. CallCost(text, g, r) < GoCost(text, f, i, j, s)
  BY <1>4, <1>5
<1>7. RepeatCost(text, r) < GoCost(text, f, i, j, s)
  BY <1>4, <1>5
<1>8. RepeatCost(text, r) < RepeatCost(text, s)
  BY <1>4, <1>5
<1>9. PrefixCost(text, r) < PrefixCost(text, s)
  BY <1>4, <1>5
<1> QED BY <1>6, <1>7, <1>8, <1>9

(* So does a call of lower rank. *)
LEMMA LowerCosts ==
  ASSUME NEW text \in Seq(STRING), NEW s \in At(text), NEW r \in At(text),
           s.cur <= r.cur,
         NEW f, NEW g, Rank(g) < Rank(f), NEW i \in 1..13, NEW j \in 1..8
  PROVE  CallCost(text, g, r) < GoCost(text, f, i, j, s)
<1>1. s.cur \in Nat /\ r.cur \in Nat /\ Len(text) \in Nat
  BY DEF At, State
<1>2. Rank(f) \in 0..8 /\ Rank(g) \in 0..8
  BY ONLY RankFacts
<1>3. Left(text, r) <= Left(text, s) /\ Left(text, r) \in Int
        /\ Left(text, s) \in Int
  BY <1>1 DEF Left
<1>4. ASSUME NEW a \in Int, NEW b \in Int, b <= a, NEW p \in 0..8, NEW q \in 0..8,
               q < p
      PROVE  b + 200 * q + 199 < a + 200 * p + 10 * (14 - i) + (8 - j)
  BY <1>4
<1> QED BY <1>2, <1>3, <1>4 DEF CallCost, GoCost

(* Only the cursor of a state matters to the cost. *)
LEMMA ReplacedCosts ==
  ASSUME NEW text, NEW s, NEW r, s.cur = r.cur, NEW f
  PROVE  CallCost(text, f, r) = CallCost(text, f, s)
BY DEF CallCost, Left

(* A part of a task that costs at most n costs less than n. *)
LEMMA CostLess ==
  ASSUME NEW n \in Int, NEW a \in Int, NEW b \in Int, a < b, b < n + 1
  PROVE  a < n
OBVIOUS

----------------------------------------------------------------------------
(* What each kind of task promises; r is the state it leaves.              *)
Goes(s, r) == r.ok /\ r.append = s.append /\ s.cur <= r.cur

Repeats(s, r) ==
  r.ok /\ r.nest_level = s.nest_level /\ r.append = s.append /\ s.cur <= r.cur

\* A state between two alternatives of f.
Between(f, i, copy, s) ==
  /\ Same(copy, s) /\ copy.cur <= s.cur
  /\ f \notin EatsFirst \/ i = 1 => s.cur = copy.cur

\* A state between two steps of an alternative.
Marked(m, copy, s) ==
  /\ s.ok
  /\ copy.cur <= s.cur /\ ("eaten" \in m => copy.cur < s.cur)
  /\ "nest" \notin m => s.nest_level = copy.nest_level
  /\ "muted" \notin m => s.append = copy.append
  /\ "changed" \notin m => Same(copy, s)
  /\ "changed" \notin m /\ "eaten" \notin m => s.cur = copy.cur

Ends(f, restore, copy, r) ==
  /\ r.ok =>
       r.nest_level = copy.nest_level /\ r.append = copy.append /\ copy.cur < r.cur
  /\ ~r.ok /\ ~restore => /\ Same(copy, r) /\ copy.cur <= r.cur
                          /\ f \in EatsFirst \/ r.cur = copy.cur

(* A task that costs less than n keeps its promise; done holds the states  *)
(* that tasks leave.                                                       *)
CallsKept(text, done, n) ==
  \A f \in ParseFunctions \ {"ParsePrefix"},
    s \in At(text) : CallCost(text, f, s) < n =>
    done[Calling(f, s)] \in At(text) /\ Meets(f, s, done[Calling(f, s)])

PrefixCallsKept(text, done, n) ==
  \A s \in At(text) : CallCost(text, "ParsePrefix", s) < n =>
    done[Calling("ParsePrefix", s)] \in At(text)
      /\ Goes(s, done[Calling("ParsePrefix", s)])

TriesKept(text, done, n) ==
  \A f \in DOMAIN Productions : \A i \in 1..(Len(Productions[f]) + 1), s,
    copy \in At(text) :
    Between(f, i, copy, s) /\ TryCost(text, f, i, copy) < n =>
      done[Trying(f, i, s, copy)] \in At(text)
        /\ Meets(f, copy, done[Trying(f, i, s, copy)])

GoesKept(text, done, n) ==
  \A f \in DOMAIN Productions : \A i \in 1..Len(Productions[f]) :
    \A marks : \A j \in 1..(Len(Productions[f][i].steps) + 1), s,
      copy \in At(text) :
      (Along(f, Productions[f][i], marks) /\ Marked(marks[j], copy, s)
         /\ GoCost(text, f, i, j, copy) < n) =>
        /\ done[Going(f, i, j, s, copy)] \in At(text)
        /\ Ends(f, Productions[f][i].restore, copy, done[Going(f, i, j, s, copy)])

RepeatsKept(text, done, n) ==
  \A f \in ParseFunctions \ {"ParsePrefix"},
    s \in At(text) : RepeatCost(text, s) < n =>
    done[Repeating(f, s)] \in At(text) /\ Repeats(s, done[Repeating(f, s)])

PrefixesKept(text, done, n) ==
  \A s \in At(text) : PrefixCost(text, s) < n =>
    /\ done[Prefixing(s)] \in At(text) /\ Goes(s, done[Prefixing(s)])
    /\ done[PrefixingOn(s)] \in At(text) /\ Goes(s, done[PrefixingOn(s)])

AllKept(text, done, n) ==
  /\ CallsKept(text, done, n) /\ PrefixCallsKept(text, done, n)
  /\ TriesKept(text, done, n) /\ GoesKept(text, done, n)
  /\ RepeatsKept(text, done, n) /\ PrefixesKept(text, done, n)

(* while (parse_func(state)). *)
LEMMA RepeatDone ==
  ASSUME NEW text \in Seq(STRING), NEW n \in Int, NEW done, AllKept(text, done, n),
         NEW f \in ParseFunctions \ {"ParsePrefix"}, NEW s \in At(text),
         RepeatCost(text, s) < n + 1
  PROVE  Repeat(done, f, s) \in At(text) /\ Repeats(s, Repeat(done, f, s))
<1> DEFINE q == done[Calling(f, s)]
           r == MoreOf(done, f, q)
           t == Repeat(done, f, s)
<1>1. CallCost(text, f, s) < n
  <2>1. 1 \in 1..14 /\ 1 \in 1..8
    OBVIOUS
  <2>2. CallCost(text, f, s) \in Int /\ RepeatCost(text, s) \in Int
          /\ CallCost(text, f, s) < RepeatCost(text, s)
    BY <2>1, CostFacts
  <2> QED BY <2>2, CostLess
<1>2. q \in At(text) /\ Meets(f, s, q)
  BY <1>1 DEF AllKept, CallsKept
<1> HIDE DEF q
<1>3. s.cur \in Int /\ q.cur \in Int
  BY <1>2 DEF At, State
<1>4. r \in At(text) /\ r.nest_level = s.nest_level /\ r.append = s.append
        /\ s.cur <= r.cur
  <2>1. CASE q.ok
    <3>1. s.cur < q.cur
      BY <1>2, <2>1 DEF Meets
    <3>2. RepeatCost(text, q) < n
      <4>1. 1 \in 1..13 /\ 1 \in 1..14 /\ 1 \in 1..8
        OBVIOUS
      <4>2. RepeatCost(text, q) < RepeatCost(text, s)
        BY <1>2, <3>1, <4>1, LaterCosts
      <4>3. RepeatCost(text, q) \in Int /\ RepeatCost(text, s) \in Int
        BY <1>2, <4>1, CostFacts
      <4> QED BY <4>2, <4>3, CostLess
    <3>3. r = done[Repeating(f, q)]
      BY <2>1 DEF MoreOf
    <3>4. r \in At(text) /\ Repeats(q, r)
      BY <1>2, <3>2, <3>3 DEF AllKept, RepeatsKept
    <3> HIDE DEF r
    <3>5. r.cur \in Int
      BY <3>4 DEF At, State
    <3> QED BY <1>2, <1>3, <2>1, <3>1, <3>4, <3>5 DEF Meets, Repeats
  <2>2. CASE ~q.ok
    <3>1. r = q
      BY <2>2 DEF MoreOf
    <3> HIDE DEF r
    <3> QED BY <1>2, <2>2, <3>1 DEF Meets, Same
  <2> QED BY <2>1, <2>2
<1>5. t = Succeed(r)
  BY DEF Repeat, q
<1> HIDE DEF r, t
<1>6. t \in At(text) /\ t.ok = TRUE /\ Same(r, t) /\ t.cur = r.cur
  BY <1>4, <1>5, SucceedFacts
<1>7. t.ok /\ t.nest_level = s.nest_level /\ t.append = s.append /\ s.cur <= t.cur
  BY <1>4, <1>6 DEF Same
<1> QED BY <1>6, <1>7 DEF Repeats, t

\* What a step makes of the state, where m is known after it.
Stepped(text, f, restore, m, copy, q) ==
  /\ q \in At(text) /\ (q.ok =>
       Marked(m, copy, q)) /\ (~q.ok => Ends(f, restore, copy, q))

(* States that differ in cursor and ok only. *)
LEMMA SameTwice ==
  ASSUME NEW a, NEW b, NEW c, Same(a, b), Same(b, c)
  PROVE  Same(a, c)
BY DEF Same

(* A state is like itself. *)
LEMMA SameSelf == \A a : Same(a, a)
BY DEF Same

(* The cursor is a number. *)
LEMMA CursorInt ==
  ASSUME NEW text, NEW s \in At(text)
  PROVE  s.cur \in Int
BY DEF At, State

(* A failure where an alternative may be left. *)
LEMMA LeavesEnds ==
  ASSUME NEW text, NEW f, NEW restore, NEW m, NEW copy \in At(text),
           NEW s \in At(text),
         Marked(m, copy, s), NEW r \in At(text), ~r.ok, Same(s, r), s.cur <= r.cur,
         restore \/ LeavesAt(f, restore, m),
         restore \/ f \in EatsFirst \/ r.cur = s.cur
  PROVE  Ends(f, restore, copy, r)
<1>1. copy.cur \in Int /\ s.cur \in Int /\ r.cur \in Int
  BY CursorInt
<1>2. CASE restore
  BY <1>2 DEF Ends
<1>3. CASE ~restore
  <2>1. "changed" \notin m /\ ("eaten" \notin m \/ f \in EatsFirst)
    BY <1>3 DEF LeavesAt
  <2>2. Same(copy, s) /\ copy.cur <= s.cur /\ ("eaten" \notin m => s.cur = copy.cur)
    BY <2>1 DEF Marked
  <2>3. Same(copy, r)
    BY <2>2, SameTwice
  <2>4. copy.cur <= r.cur /\ (f \in EatsFirst \/ r.cur = copy.cur)
    BY <1>1, <1>3, <2>1, <2>2
  <2> QED BY <2>3, <2>4 DEF Ends
<1> QED BY <1>2, <1>3

(* A call within an alternative costs less than what is left of it. *)
LEMMA ReadyCost ==
  ASSUME NEW text \in Seq(STRING), NEW n \in Int, NEW f, NEW i \in 1..13,
           NEW j \in 1..8,
         NEW m, NEW g, Ready(f, m, g), NEW copy \in At(text), NEW s \in At(text),
         Marked(m, copy, s), GoCost(text, f, i, j, copy) < n + 1
  PROVE  CallCost(text, g, s) < n
<1>1. i \in 1..14 /\ 1 \in 1..14 /\ 1 \in 1..8
  OBVIOUS
<1>2. CallCost(text, g, s) \in Int /\ GoCost(text, f, i, j, copy) \in Int
  BY <1>1, CostFacts
<1>3. CallCost(text, g, s) < GoCost(text, f, i, j, copy)
  <2>1. CASE "eaten" \in m
    <3>1. copy.cur < s.cur
      BY <2>1 DEF Marked
    <3> QED BY <3>1, LaterCosts
  <2>2. CASE Rank(g) < Rank(f)
    <3>1. copy.cur <= s.cur
      BY DEF Marked
    <3> QED BY <2>2, <3>1, LowerCosts
  <2> QED BY <2>1, <2>2 DEF Ready
<1> QED BY <1>2, <1>3, CostLess

(* A call within an alternative keeps its promise. *)
LEMMA CallKept ==
  ASSUME NEW text \in Seq(STRING), NEW n \in Int, NEW done, AllKept(text, done, n),
         NEW f, NEW i \in 1..13, NEW j \in 1..8,
         NEW m, NEW g, Ready(f, m, g), NEW copy \in At(text), NEW s \in At(text),
         Marked(m, copy, s), GoCost(text, f, i, j, copy) < n + 1
  PROVE  done[Calling(g, s)] \in At(text) /\ Meets(g, s, done[Calling(g, s)])
<1>1. CallCost(text, g, s) < n
  BY ReadyCost
<1>2. g \in ParseFunctions \ {"ParsePrefix"}
  BY DEF Ready
<1> QED BY <1>1, <1>2 DEF AllKept, CallsKept

(* What is known after a step that gains what it gains. *)
LEMMA MarkedAfter ==
  ASSUME NEW text, NEW f, NEW restore, NEW m, NEW step, NEW p,
           Path(f, restore, m, step, p),
         NEW copy \in At(text), NEW s \in At(text), Marked(m, copy, s),
         NEW r \in At(text), r.ok, r.nest_level = s.nest_level, r.append = s.append,
         s.cur <= r.cur, "changed" \in Gains(step), Loses(step) = {},
         "eaten" \in Gains(step) => s.cur < r.cur
  PROVE  Marked(p, copy, r)
<1>1. copy.cur \in Int /\ s.cur \in Int /\ r.cur \in Int
  BY CursorInt
<1>2. /\ copy.cur <= s.cur /\ ("eaten" \in m => copy.cur < s.cur)
      /\ "nest" \notin m => s.nest_level = copy.nest_level
      /\ "muted" \notin m => s.append = copy.append
  BY DEF Marked
<1>3. /\ m \subseteq p /\ "changed" \in p
      /\ "eaten" \in p => "eaten" \in m \/ "eaten" \in Gains(step)
  BY DEF Path
<1>4. copy.cur <= r.cur /\ ("eaten" \in p => copy.cur < r.cur)
  BY <1>1, <1>2, <1>3
<1> QED BY <1>2, <1>3, <1>4 DEF Marked

(* The step that calls a function. *)
LEMMA CallStepped ==
  ASSUME NEW text \in Seq(STRING), NEW n \in Int, NEW done, AllKept(text, done, n),
         NEW f, NEW restore, NEW i \in 1..13, NEW j \in 1..8,
         NEW m, NEW step, NEW p, Path(f, restore, m, step, p), step.op = "call",
         NEW copy \in At(text), NEW s \in At(text),
         Marked(m, copy, s), GoCost(text, f, i, j, copy) < n + 1
  PROVE  Stepped(text, f, restore, p, copy, RunStep(done, step, s, copy))
<1> DEFINE q == done[Calling(step.f, s)]
<1>1. RunStep(done, step, s, copy) = q
  BY DEF RunStep, SimpleStep
<1>2. CallFits(f, restore, m, step.f)
  BY DEF Path, StepFits
<1>3. s.cur \in Int /\ copy.cur \in Int /\ Loses(step) = {}
  BY CursorInt DEF Loses
<1>4. CASE step.f # "ParsePrefix"
  <2>1. /\ Ready(f, m, step.f) /\ LeavesAt(f, restore, m)
        /\ restore \/ f \in EatsFirst \/ step.f \notin Eaters
    BY <1>2, <1>4 DEF CallFits
  <2>2. q \in At(text) /\ Meets(step.f, s, q)
    BY <2>1, CallKept
  <2> HIDE DEF q
  <2>3. ASSUME q.ok PROVE Marked(p, copy, q)
    <3>1. q.nest_level = s.nest_level /\ q.append = s.append /\ s.cur < q.cur
      BY <2>2, <2>3 DEF Meets
    <3>2. Gains(step) = {"eaten", "changed"}
      BY <1>4 DEF Gains
    <3>3. s.cur <= q.cur
      BY <1>3, <2>2, <3>1, CursorInt
    <3> QED BY <1>3, <2>2, <2>3, <3>1, <3>2, <3>3, MarkedAfter
  <2>4. ASSUME ~q.ok PROVE Ends(f, restore, copy, q)
    <3>1. Same(s, q) /\ s.cur <= q.cur /\ (step.f \in Eaters \/ q.cur = s.cur)
      BY <2>2, <2>4 DEF Meets
    <3> QED BY <2>1, <2>2, <2>4, <3>1, LeavesEnds
  <2> QED BY <1>1, <2>2, <2>3, <2>4 DEF Stepped
<1>5. CASE step.f = "ParsePrefix"
  <2>1. "eaten" \in m /\ "nest" \in m
    BY <1>2, <1>5 DEF CallFits, Ready
  <2>2. copy.cur < s.cur
    BY <2>1 DEF Marked
  <2>3. CallCost(text, "ParsePrefix", s) < n
    <3>1. i \in 1..14 /\ 1 \in 1..14 /\ 1 \in 1..8
      OBVIOUS
    <3>2. CallCost(text, "ParsePrefix", s) \in Int
            /\ GoCost(text, f, i, j, copy) \in Int
      BY <3>1, CostFacts
    <3>3. CallCost(text, "ParsePrefix", s) < GoCost(text, f, i, j, copy)
      BY <2>2, LaterCosts
    <3> QED BY <3>2, <3>3, CostLess
  <2>4. q \in At(text) /\ Goes(s, q)
    BY <1>5, <2>3 DEF AllKept, PrefixCallsKept
  <2> HIDE DEF q
  <2>5. Gains(step) = {"changed"}
    BY <1>5 DEF Gains
  <2>6. "nest" \in p /\ "changed" \in p /\ ("muted" \notin p => "muted" \notin m)
    BY <1>3, <2>1, <2>5 DEF Path
  <2>7. q.ok /\ q.append = s.append /\ s.cur <= q.cur /\ q.cur \in Int
    BY <2>4, CursorInt DEF Goes
  <2>8. copy.cur <= q.cur /\ copy.cur < q.cur
    BY <1>3, <2>2, <2>7
  <2>9. "muted" \notin m => s.append = copy.append
    BY DEF Marked
  <2>10. Marked(p, copy, q)
    BY <2>6, <2>7, <2>8, <2>9 DEF Marked
  <2> QED BY <1>1, <2>4, <2>7, <2>10 DEF Stepped
<1> QED BY <1>4, <1>5

(* A step that reads n characters, or fails. *)
LEMMA ReadStepped ==
  ASSUME NEW text \in Seq(STRING), NEW f, NEW restore, NEW m, NEW step, NEW p,
         Path(f, restore, m, step, p), step.op \in {"token", "class"},
         NEW copy \in At(text), NEW s \in At(text), Marked(m, copy, s),
         NEW n \in Nat \ {0}, NEW q,
         q = Fail(s) \/ (q = Advance(s, n) /\ s.cur + n <= Len(text) + 1)
  PROVE  Stepped(text, f, restore, p, copy, q)
<1>1. LeavesAt(f, restore, m)
  BY DEF Path, StepFits
<1>2. Gains(step) = {"eaten"} /\ Loses(step) = {}
  BY DEF Gains, Loses
<1>3. s.cur \in Int /\ copy.cur \in Int
  BY CursorInt
<1>4. CASE q = Fail(s)
  <2>1. q \in At(text) /\ q.ok = FALSE /\ Same(s, q) /\ q.cur = s.cur
    BY <1>4, FailFacts
  <2>2. ~q.ok /\ s.cur <= q.cur
    BY <1>3, <2>1
  <2>3. Ends(f, restore, copy, q)
    BY <1>1, <2>1, <2>2, LeavesEnds
  <2> QED BY <2>1, <2>2, <2>3 DEF Stepped
<1>5. CASE q = Advance(s, n) /\ s.cur + n <= Len(text) + 1
  <2>1. q \in At(text) /\ q.ok = TRUE /\ Same(s, q) /\ q.cur = s.cur + n
    BY <1>5, AdvanceFacts
  <2>2. q.ok /\ copy.cur < q.cur /\ copy.cur <= q.cur
    BY <1>3, <2>1 DEF Marked
  <2>3. q.nest_level = s.nest_level /\ q.append = s.append
    BY <2>1 DEF Same
  <2>4. "eaten" \in p /\ m \subseteq p
    BY <1>2 DEF Path
  <2>5. /\ "nest" \notin p => q.nest_level = copy.nest_level
        /\ "muted" \notin p => q.append = copy.append
    BY <2>3, <2>4 DEF Marked
  <2>6. "changed" \notin p => Same(copy, q)
    <3>1. "changed" \notin p => Same(copy, s)
      BY <2>4 DEF Marked
    <3> QED BY <2>1, <3>1, SameTwice
  <2>7. Marked(p, copy, q)
    BY <2>2, <2>4, <2>5, <2>6 DEF Marked
  <2> QED BY <2>1, <2>2, <2>7 DEF Stepped
<1> QED BY <1>4, <1>5

(* A token found is a token there. *)
LEMMA PrefixReads ==
  ASSUME NEW text \in Seq(STRING), NEW s \in At(text), NEW str \in Seq(STRING),
           StrPrefix(s, str)
  PROVE  s.cur + Len(str) <= Len(text) + 1
<1>1. s.text = text /\ s.cur \in 1..(Len(text) + 1) /\ Len(text) \in Nat
        /\ Len(str) \in Nat
  BY DEF At, State
<1>2. CASE AtLeastNumCharsRemaining(s, Len(str))
  BY <1>2, RemainingFacts, <1>1
<1>3. CASE ~AtLeastNumCharsRemaining(s, Len(str))
  <2>1. str = SubSeq(text, s.cur, Len(text))
    BY <1>1, <1>3 DEF StrPrefix, Ahead
  <2>2. Len(SubSeq(text, s.cur, Len(text))) = Len(text) + 1 - s.cur
    BY <1>1
  <2> QED BY <1>1, <2>1, <2>2
<1> QED BY <1>2, <1>3

(* ParseOneCharToken and ParseTwoCharToken. *)
LEMMA TokenStepped ==
  ASSUME NEW text \in Seq(STRING), NEW done, NEW f, NEW restore, NEW m, NEW step,
           NEW p,
         Path(f, restore, m, step, p), step.op = "token",
         NEW copy \in At(text), NEW s \in At(text), Marked(m, copy, s)
  PROVE  Stepped(text, f, restore, p, copy, RunStep(done, step, s, copy))
<1> DEFINE q == IF StrPrefix(s, step.str) THEN Advance(s,
      Len(step.str)) ELSE Fail(s)
<1>1. RunStep(done, step, s, copy) = q
  BY DEF RunStep, SimpleStep
<1>2. step.str \in Seq(STRING) \ {<<>>}
  BY DEF Path, StepFits
<1>3. Len(step.str) \in Nat \ {0}
  BY <1>2
<1>4. q = Fail(s)
        \/ (q = Advance(s, Len(step.str)) /\ s.cur + Len(step.str) <= Len(text) + 1)
  BY <1>2, PrefixReads
<1> HIDE DEF q
<1> QED BY <1>1, <1>3, <1>4, ReadStepped

(* ParseCharClass. *)
LEMMA ClassStepped ==
  ASSUME NEW text \in Seq(STRING), NEW done, NEW f, NEW restore, NEW m, NEW step,
           NEW p,
         Path(f, restore, m, step, p), step.op = "class",
         NEW copy \in At(text), NEW s \in At(text), Marked(m, copy, s)
  PROVE  Stepped(text, f, restore, p, copy, RunStep(done, step, s, copy))
<1> DEFINE q == IF NextIn(s, step.class) THEN Advance(s, 1) ELSE Fail(s)
<1>1. RunStep(done, step, s, copy) = q
  BY DEF RunStep, SimpleStep
<1>2. 1 \in Nat \ {0}
  OBVIOUS
<1>3. q = Fail(s) \/ (q = Advance(s, 1) /\ s.cur + 1 <= Len(text) + 1)
  BY NextFacts
<1> HIDE DEF q
<1> QED BY <1>1, <1>2, <1>3, ReadStepped

(* A step after which the nest level and the append mode are as before. *)
LEMMA QuietStepped ==
  ASSUME NEW text, NEW f, NEW restore, NEW m, NEW step, NEW p,
           Path(f, restore, m, step, p),
         NEW copy \in At(text), NEW s \in At(text), Marked(m, copy, s),
         NEW r \in At(text), r.ok, r.nest_level = s.nest_level, r.append = s.append,
         s.cur <= r.cur, Gains(step) = {"changed"}, Loses(step) = {}
  PROVE  Stepped(text, f, restore, p, copy, r)
<1>1. "changed" \in Gains(step) /\ "eaten" \notin Gains(step)
  OBVIOUS
<1>2. Marked(p, copy, r)
  BY <1>1, MarkedAfter
<1> QED BY <1>2 DEF Stepped

(* An optional step never fails. *)
LEMMA OptionStepped ==
  ASSUME NEW text \in Seq(STRING), NEW n \in Int, NEW done, AllKept(text, done, n),
         NEW f, NEW restore, NEW i \in 1..13, NEW j \in 1..8,
         NEW m, NEW step, NEW p, Path(f, restore, m, step, p), step.op = "optional",
         NEW copy \in At(text), NEW s \in At(text),
         Marked(m, copy, s), GoCost(text, f, i, j, copy) < n + 1
  PROVE  Stepped(text, f, restore, p, copy, RunStep(done, step, s, copy))
<1> DEFINE q == SimpleStep(done, step.step, s, copy)
           r == Succeed(q)
<1>1. RunStep(done, step, s, copy) = r
  BY DEF RunStep
<1>2. OptionFits(f, m, step.step)
  BY DEF Path, StepFits
<1>3. Gains(step) = {"changed"} /\ Loses(step) = {} /\ s.cur \in Int
  BY CursorInt DEF Gains, Loses
<1>4. q \in At(text) /\ q.nest_level = s.nest_level /\ q.append = s.append
        /\ s.cur <= q.cur
  <2>1. CASE step.step.op = "call" /\ Ready(f, m, step.step.f)
    <3> DEFINE g == step.step.f
    <3>1. q = done[Calling(g, s)]
      BY <2>1 DEF SimpleStep
    <3> HIDE DEF g, q
    <3>2. q \in At(text) /\ Meets(g, s, q)
      <4>1. Ready(f, m, g)
        BY <2>1 DEF g
      <4> QED BY <3>1, <4>1, CallKept
    <3>3. q.cur \in Int /\ q.ok \in BOOLEAN
      BY <3>2 DEF At, State
    <3>4. CASE q.ok
      BY <1>3, <3>2, <3>3, <3>4 DEF Meets
    <3>5. CASE ~q.ok
      BY <3>2, <3>5 DEF Meets, Same
    <3> QED BY <3>4, <3>5
  <2>2. CASE step.step.op = "token" /\ step.step.str \in Seq(STRING) \ {<<>>}
    <3>1. q = IF StrPrefix(s, step.step.str) THEN Advance(s,
            Len(step.step.str)) ELSE Fail(s)
      BY <2>2 DEF SimpleStep
    <3>2. Len(step.step.str) \in Nat
      BY <2>2
    <3> HIDE DEF q
    <3>3. CASE StrPrefix(s, step.step.str)
      <4>1. s.cur + Len(step.step.str) <= Len(text) + 1
        BY <2>2, <3>3, PrefixReads
      <4>2. q \in At(text) /\ Same(s, q) /\ q.cur = s.cur + Len(step.step.str)
        BY <3>1, <3>2, <3>3, <4>1, AdvanceFacts
      <4> QED BY <1>3, <3>2, <4>2 DEF Same
    <3>4. CASE ~StrPrefix(s, step.step.str)
      <4>1. q \in At(text) /\ Same(s, q) /\ q.cur = s.cur
        BY <3>1, <3>4, FailFacts
      <4> QED BY <1>3, <4>1 DEF Same
    <3> QED BY <3>3, <3>4
  <2> QED BY <1>2, <2>1, <2>2 DEF OptionFits
<1> HIDE DEF q
<1>5. r \in At(text) /\ r.ok = TRUE /\ Same(q, r) /\ r.cur = q.cur
  BY <1>4, SucceedFacts
<1> HIDE DEF r
<1>6. r.ok /\ r.nest_level = s.nest_level /\ r.append = s.append /\ s.cur <= r.cur
  BY <1>4, <1>5 DEF Same
<1>7. Stepped(text, f, restore, p, copy, r)
  BY <1>3, <1>5, <1>6, QuietStepped
<1> QED BY <1>1, <1>7

(* parse_func as often as it succeeds, and once at least. *)
LEMMA OneOrMoreStepped ==
  ASSUME NEW text \in Seq(STRING), NEW n \in Int, NEW done, AllKept(text, done, n),
         NEW f, NEW restore, NEW i \in 1..13, NEW j \in 1..8,
         NEW m, NEW step, NEW p, Path(f, restore, m, step, p),
           step.op = "oneOrMore",
         NEW copy \in At(text), NEW s \in At(text),
         Marked(m, copy, s), GoCost(text, f, i, j, copy) < n + 1
  PROVE  Stepped(text, f, restore, p, copy, RunStep(done, step, s, copy))
<1> DEFINE q == done[Calling(step.f, s)]
           r == MoreOf(done, step.f, q)
<1>1. RunStep(done, step, s, copy) = r
  BY DEF RunStep, SimpleStep
<1>2. Ready(f, m, step.f) /\ restore
  BY DEF Path, StepFits
<1>3. Gains(step) = {"eaten", "changed"} /\ Loses(step) = {}
  BY DEF Gains, Loses
<1>4. copy.cur \in Int /\ s.cur \in Int
  BY CursorInt
<1>5. q \in At(text) /\ Meets(step.f, s, q)
  BY <1>2, CallKept
<1> HIDE DEF q
<1>6. q.cur \in Int
  BY <1>5, CursorInt
<1>7. CASE q.ok
  <2>1. q.nest_level = s.nest_level /\ q.append = s.append /\ s.cur < q.cur
    BY <1>5, <1>7 DEF Meets
  <2>2. copy.cur < q.cur
    BY <1>4, <1>6, <2>1 DEF Marked
  <2>3. RepeatCost(text, q) < n
    <3>1. i \in 1..14 /\ 1 \in 1..14 /\ 1 \in 1..8
      OBVIOUS
    <3>2. RepeatCost(text, q) \in Int /\ GoCost(text, f, i, j, copy) \in Int
      BY <1>5, <3>1, CostFacts
    <3>3. RepeatCost(text, q) < GoCost(text, f, i, j, copy)
      BY <1>5, <2>2, LaterCosts
    <3> QED BY <3>2, <3>3, CostLess
  <2>4. r = done[Repeating(step.f, q)]
    BY <1>7 DEF MoreOf
  <2>5. step.f \in ParseFunctions \ {"ParsePrefix"}
    BY <1>2 DEF Ready
  <2>6. r \in At(text) /\ Repeats(q, r)
    BY <1>5, <2>3, <2>4, <2>5 DEF AllKept, RepeatsKept
  <2> HIDE DEF r
  <2>7. r.cur \in Int
    BY <2>6, CursorInt
  <2>8. /\ r.ok /\ r.nest_level = s.nest_level /\ r.append = s.append
        /\ s.cur < r.cur /\ s.cur <= r.cur
    BY <1>4, <1>6, <2>1, <2>6, <2>7 DEF Repeats
  <2>9. Marked(p, copy, r)
    <3>1. "changed" \in Gains(step)
      BY <1>3
    <3> QED BY <1>3, <2>6, <2>8, <3>1, MarkedAfter
  <2>10. Stepped(text, f, restore, p, copy, r)
    BY <2>6, <2>8, <2>9 DEF Stepped
  <2> QED BY <1>1, <2>10
<1>8. CASE ~q.ok
  <2>1. r = q
    BY <1>8 DEF MoreOf
  <2>2. Ends(f, restore, copy, q)
    BY <1>2, <1>8 DEF Ends
  <2>3. Stepped(text, f, restore, p, copy, q)
    BY <1>5, <1>8, <2>2 DEF Stepped
  <2> QED BY <1>1, <2>1, <2>3
<1> QED BY <1>7, <1>8

(* ZeroOrMore. *)
LEMMA ZeroOrMoreStepped ==
  ASSUME NEW text \in Seq(STRING), NEW n \in Int, NEW done, AllKept(text, done, n),
         NEW f, NEW restore, NEW i \in 1..13, NEW j \in 1..8,
         NEW m, NEW step, NEW p, Path(f, restore, m, step, p),
           step.op = "zeroOrMore",
         NEW copy \in At(text), NEW s \in At(text),
         Marked(m, copy, s), GoCost(text, f, i, j, copy) < n + 1
  PROVE  Stepped(text, f, restore, p, copy, RunStep(done, step, s, copy))
<1> DEFINE r == done[Repeating(step.f, s)]
<1>1. RunStep(done, step, s, copy) = r
  BY DEF RunStep, SimpleStep
<1>2. Ready(f, m, step.f) /\ "eaten" \in m
  BY DEF Path, StepFits
<1>3. Gains(step) = {"changed"} /\ Loses(step) = {}
  BY DEF Gains, Loses
<1>4. copy.cur < s.cur
  BY <1>2 DEF Marked
<1>5. RepeatCost(text, s) < n
  <2>1. i \in 1..14 /\ 1 \in 1..14 /\ 1 \in 1..8
    OBVIOUS
  <2>2. RepeatCost(text, s) \in Int /\ GoCost(text, f, i, j, copy) \in Int
    BY <2>1, CostFacts
  <2>3. RepeatCost(text, s) < GoCost(text, f, i, j, copy)
    BY <1>4, LaterCosts
  <2> QED BY <2>2, <2>3, CostLess
<1>6. step.f \in ParseFunctions \ {"ParsePrefix"}
  BY <1>2 DEF Ready
<1>7. r \in At(text) /\ Repeats(s, r)
  BY <1>5, <1>6 DEF AllKept, RepeatsKept
<1> HIDE DEF r
<1>8. r.ok /\ r.nest_level = s.nest_level /\ r.append = s.append /\ s.cur <= r.cur
  BY <1>7 DEF Repeats
<1>9. Stepped(text, f, restore, p, copy, r)
  BY <1>3, <1>7, <1>8, QuietStepped
<1> QED BY <1>1, <1>9

(* The steps that write. *)
LEMMA WriteStepped ==
  ASSUME NEW text \in Seq(STRING), NEW done, NEW f, NEW restore, NEW m, NEW step,
           NEW p,
         Path(f, restore, m, step, p), step.op \in {"write", "writePrevName"},
         NEW copy \in At(text), NEW s \in At(text), Marked(m, copy, s)
  PROVE  Stepped(text, f, restore, p, copy, RunStep(done, step, s, copy))
<1> DEFINE r == RunStep(done, step, s, copy)
<1>1. Gains(step) = {"changed"} /\ Loses(step) = {}
  BY DEF Gains, Loses
<1>2. r \in At(text) /\ Writes(s, r)
  <2>1. CASE step.op = "write"
    <3>1. step.str \in Seq(STRING)
      BY <2>1 DEF Path, StepFits
    <3>2. r = MaybeAppend(s, step.str)
      BY <2>1 DEF RunStep, SimpleStep
    <3> QED BY <3>1, <3>2, MaybeAppendFacts
  <2>2. CASE step.op = "writePrevName"
    <3>1. r = MaybeAppendPrevName(s)
      BY <2>2 DEF RunStep, SimpleStep
    <3> QED BY <3>1, MaybeAppendPrevNameFacts
  <2> QED BY <2>1, <2>2
<1> HIDE DEF r
<1>3. s.ok /\ s.cur \in Int
  BY CursorInt DEF Marked
<1>4. r.ok /\ r.nest_level = s.nest_level /\ r.append = s.append /\ s.cur <= r.cur
  BY <1>2, <1>3 DEF Writes
<1>5. Stepped(text, f, restore, p, copy, r)
  BY <1>1, <1>2, <1>4, QuietStepped
<1> QED BY <1>5 DEF r

(* Another nest level. *)
LEMMA NestFacts ==
  ASSUME NEW text, NEW s \in At(text), NEW level \in Int
  PROVE  /\ [s EXCEPT !.nest_level = level] \in At(text)
         /\ [s EXCEPT !.nest_level = level].nest_level = level
         /\ [s EXCEPT !.nest_level = level].append = s.append
         /\ [s EXCEPT !.nest_level = level].cur = s.cur
         /\ [s EXCEPT !.nest_level = level].ok = s.ok
BY DEF At, State

(* Another append mode. *)
LEMMA ModeFacts ==
  ASSUME NEW text, NEW s \in At(text), NEW mode \in BOOLEAN
  PROVE  /\ [s EXCEPT !.append = mode] \in At(text)
         /\ [s EXCEPT !.append = mode].append = mode
         /\ [s EXCEPT !.append = mode].nest_level = s.nest_level
         /\ [s EXCEPT !.append = mode].cur = s.cur
         /\ [s EXCEPT !.append = mode].ok = s.ok
BY DEF At, State

(* Entering and leaving a nested name, and switching the append mode. *)
LEMMA NestStepped ==
  ASSUME NEW text \in Seq(STRING), NEW done, NEW f, NEW restore, NEW m, NEW step,
           NEW p,
         Path(f, restore, m, step, p), step.op \in {"enter", "leave"},
         NEW copy \in At(text), NEW s \in At(text), Marked(m, copy, s)
  PROVE  Stepped(text, f, restore, p, copy, RunStep(done, step, s, copy))
<1> DEFINE level == IF step.op = "enter" THEN 0 ELSE copy.nest_level
           r == [s EXCEPT !.nest_level = level]
<1>1. RunStep(done, step, s, copy) = r
  BY DEF RunStep, SimpleStep
<1>2. level \in Int
  BY Fields DEF At
<1>3. level = copy.nest_level \/ "nest" \in p
  BY DEF Path, Gains
<1>4. "changed" \in p /\ m \subseteq p \cup {"nest"} /\ ("eaten" \in p =>
        "eaten" \in m)
  BY DEF Path, Gains, Loses
<1> HIDE DEF level
<1>5. r \in At(text) /\ r.nest_level = level /\ r.append = s.append
        /\ r.cur = s.cur /\ r.ok = s.ok
  BY <1>2, NestFacts
<1> HIDE DEF r
<1>6. Marked(p, copy, r)
  BY <1>3, <1>4, <1>5 DEF Marked
<1>7. Stepped(text, f, restore, p, copy, r)
  BY <1>5, <1>6 DEF Stepped, Marked
<1> QED BY <1>1, <1>7

(* DisableAppend and RestoreAppend. *)
LEMMA ModeStepped ==
  ASSUME NEW text \in Seq(STRING), NEW done, NEW f, NEW restore, NEW m, NEW step,
           NEW p,
         Path(f, restore, m, step, p), step.op \in {"disable", "restore"},
         NEW copy \in At(text), NEW s \in At(text), Marked(m, copy, s)
  PROVE  Stepped(text, f, restore, p, copy, RunStep(done, step, s, copy))
<1> DEFINE mode == IF step.op = "disable" THEN FALSE ELSE copy.append
           r == [s EXCEPT !.append = mode]
<1>1. RunStep(done, step, s, copy) = r
  <2>1. CASE step.op = "disable"
    BY <2>1 DEF RunStep, SimpleStep
  <2>2. CASE step.op = "restore"
    BY <2>2 DEF RunStep, SimpleStep
  <2> QED BY <2>1, <2>2
<1>2. mode \in BOOLEAN
  BY Fields DEF At
<1>3. mode = copy.append \/ "muted" \in p
  BY DEF Path, Gains
<1>4. "changed" \in p /\ m \subseteq p \cup {"muted"} /\ ("eaten" \in p =>
        "eaten" \in m)
  BY DEF Path, Gains, Loses
<1> HIDE DEF mode
<1>5. r \in At(text) /\ r.append = mode /\ r.nest_level = s.nest_level
        /\ r.cur = s.cur /\ r.ok = s.ok
  BY <1>2, ModeFacts
<1> HIDE DEF r
<1>6. Marked(p, copy, r)
  BY <1>3, <1>4, <1>5 DEF Marked
<1>7. Stepped(text, f, restore, p, copy, r)
  BY <1>5, <1>6 DEF Stepped, Marked
<1> QED BY <1>1, <1>7

(* Every step of an alternative. *)
LEMMA StepDone ==
  ASSUME NEW text \in Seq(STRING), NEW n \in Int, NEW done, AllKept(text, done, n),
         NEW f, NEW restore, NEW i \in 1..13, NEW j \in 1..8,
         NEW m, NEW step, NEW p, Path(f, restore, m, step, p),
         NEW copy \in At(text), NEW s \in At(text),
         Marked(m, copy, s), GoCost(text, f, i, j, copy) < n + 1
  PROVE  Stepped(text, f, restore, p, copy, RunStep(done, step, s, copy))
<1>1. step.op \in {"call", "token", "class", "optional", "oneOrMore", "zeroOrMore",
        "write",
                   "writePrevName", "enter", "leave", "disable", "restore"}
  BY DEF Path, StepFits
<1>2. CASE step.op = "call"
  BY <1>2, CallStepped
<1>3. CASE step.op = "token"
  BY <1>3, TokenStepped
<1>4. CASE step.op = "class"
  BY <1>4, ClassStepped
<1>5. CASE step.op = "optional"
  BY <1>5, OptionStepped
<1>6. CASE step.op = "oneOrMore"
  BY <1>6, OneOrMoreStepped
<1>7. CASE step.op = "zeroOrMore"
  BY <1>7, ZeroOrMoreStepped
<1>8. CASE step.op \in {"write", "writePrevName"}
  BY <1>8, WriteStepped
<1>9. CASE step.op \in {"enter", "leave"}
  BY <1>9, NestStepped
<1>10. CASE step.op \in {"disable", "restore"}
  BY <1>10, ModeStepped
<1> QED BY <1>1, <1>2, <1>3, <1>4, <1>5, <1>6, <1>7, <1>8, <1>9, <1>10

(* Where a step is among those of an alternative.                          *)
LEMMA PlaceInSteps ==
  ASSUME NEW last \in 1..7, NEW size \in 1..13, NEW i \in 1..size, NEW j \in 1..(last + 1)
  PROVE  /\ j \in 1..8 /\ i \in 1..13 /\ i \in 1..14
         /\ j > last => j = last + 1
         /\ ~(j > last) => j \in 1..last /\ j + 1 \in 1..8 /\ j + 1 \in 1..(last + 1)
OBVIOUS

(* The rest of an alternative, from any step of it on. *)
LEMMA GoDone ==
  ASSUME NEW text \in Seq(STRING), NEW n \in Int, NEW done, AllKept(text, done, n),
         NEW f \in DOMAIN Productions, AllFit(f, Productions[f]),
         NEW i \in 1..Len(Productions[f]),
           NEW j \in 1..(Len(Productions[f][i].steps) + 1),
         NEW marks, Along(f, Productions[f][i], marks),
         NEW s \in At(text), NEW copy \in At(text), Marked(marks[j], copy, s),
         GoCost(text, f, i, j, copy) < n + 1
  PROVE  /\ Chain(done, f, i, j, s, copy) \in At(text)
         /\ Ends(f, Productions[f][i].restore, copy, Chain(done, f, i, j, s, copy))
<1> DEFINE steps == Productions[f][i].steps
           restore == Productions[f][i].restore
           q == RunStep(done, steps[j], s, copy)
           r == Chain(done, f, i, j, s, copy)
           last == Len(steps)
           size == Len(Productions[f])
<1>1. last \in 1..7 /\ size \in 1..13 /\ i \in 1..size /\ j \in 1..(last + 1)
  BY DEF AllFit, Fits
<1>2. j \in 1..8 /\ i \in 1..13 /\ i \in 1..14 /\ (j > last =>
        j = last + 1) /\ (~(j > last) =>
          j \in 1..last /\ j + 1 \in 1..8 /\ j + 1 \in 1..(last + 1))
  <2> HIDE DEF last, size
  <2> QED BY <1>1, PlaceInSteps, Zenon
<1>3. /\ j > Len(steps) => r = Succeed(s)
      /\ ~(j > Len(steps)) => r = IF q.ok THEN done[Going(f, i, j + 1, q, copy)] ELSE q
  <2> DEFINE t == Succeed(s)
             on == done[Going(f, i, j + 1, q, copy)]
  <2>1. r = CASE j > last -> t [] j <= last /\ q.ok -> on [] OTHER -> q
    BY Zenon DEF Chain
  <2>2. j \in Int /\ last \in Int
    BY <1>1
  <2> HIDE DEF last, q, r, t, on
  <2>3. /\ j > last => r = t
        /\ ~(j > last) => r = IF q.ok THEN on ELSE q
    BY ONLY <2>1, <2>2
  <2> QED BY ONLY <2>3 DEF last, q, r, t, on
<1>4. /\ \A k \in 1..Len(steps) : Path(f, restore, marks[k], steps[k], marks[k + 1])
      /\ Closed(marks[Len(steps) + 1])
  BY DEF Along
<1> HIDE DEF r
<1>6. CASE j > Len(steps)
  <2>1. j = Len(steps) + 1
    BY <1>2, <1>6
  <2>2. Closed(marks[j])
    BY <1>4, <2>1
  <2>3. s.nest_level = copy.nest_level /\ s.append = copy.append /\ copy.cur < s.cur
    BY <2>2 DEF Closed, Marked
  <2>4. r = Succeed(s)
    BY <1>3, <1>6
  <2>5. r \in At(text) /\ r.ok = TRUE /\ Same(s, r) /\ r.cur = s.cur
    BY <2>4, SucceedFacts
  <2>6. Ends(f, restore, copy, r)
    BY <2>3, <2>5 DEF Ends, Same
  <2> QED BY <2>5, <2>6 DEF r
<1>7. CASE ~(j > Len(steps))
  <2>1. j \in 1..Len(steps)
    BY <1>2, <1>7
  <2>2. Path(f, restore, marks[j], steps[j], marks[j + 1])
    BY <1>4, <2>1
  <2>3. Stepped(text, f, restore, marks[j + 1], copy, q)
    <3> HIDE DEF steps, restore
    <3> QED BY <1>2, <2>2, StepDone DEF q
  <2>4. r = IF q.ok THEN done[Going(f, i, j + 1, q, copy)] ELSE q
    BY <1>3, <1>7
  <2> HIDE DEF q
  <2>5. CASE q.ok
    <3>1. q \in At(text) /\ Marked(marks[j + 1], copy, q)
      BY <2>3, <2>5 DEF Stepped
    <3>2. r = done[Going(f, i, j + 1, q, copy)]
      BY <2>4, <2>5
    <3>3. j + 1 \in 1..8 /\ j + 1 \in 1..(Len(steps) + 1)
      BY <1>2, <1>7
    <3>4. GoCost(text, f, i, j + 1, copy) < n
      <4>1. GoCost(text, f, i, j + 1, copy) \in Int
        BY <1>2, <3>3, CostFacts
      <4>2. GoCost(text, f, i, j, copy) \in Int
              /\ GoCost(text, f, i, j + 1, copy) < GoCost(text, f, i, j, copy)
        BY <1>2, CostFacts
      <4> QED BY <4>1, <4>2, CostLess
    <3>5. r \in At(text) /\ Ends(f, restore, copy, r)
      BY <3>1, <3>2, <3>3, <3>4 DEF AllKept, GoesKept
    <3> QED BY <3>5 DEF r
  <2>6. CASE ~q.ok
    <3>1. r = q
      BY <2>4, <2>6
    <3>2. r \in At(text) /\ Ends(f, restore, copy, r)
      BY <2>3, <2>6, <3>1 DEF Stepped
    <3> QED BY <3>2 DEF r
  <2> QED BY <2>5, <2>6
<1> QED BY <1>6, <1>7

(* The alternatives of a function, from any one on. *)
LEMMA TryDone ==
  ASSUME NEW text \in Seq(STRING), NEW n \in Int, NEW done, AllKept(text, done, n),
         NEW f \in DOMAIN Productions, AllFit(f, Productions[f]),
         NEW i \in 1..(Len(Productions[f]) + 1),
         NEW s \in At(text), NEW copy \in At(text), Between(f, i, copy, s),
         TryCost(text, f, i, copy) < n + 1
  PROVE  Try(done, f, i, s, copy) \in At(text)
           /\ Meets(f, copy, Try(done, f, i, s, copy))
<1> DEFINE t == Succeed(s)
           q == done[Going(f, i, 1, t, copy)]
           r == Try(done, f, i, s, copy)
           restore == Productions[f][i].restore
           size == Len(Productions[f])
<1>1. size \in 1..13 /\ (f \in EatsFirst => size = 1) /\ i \in 1..(size + 1)
  BY DEF AllFit
<1>2. /\ i \in 1..14
      /\ ~(i > size) => /\ i \in 1..size /\ (size = 1 => i = 1) /\ i + 1 # 1
                       /\ i + 1 \in 1..14 /\ i + 1 \in 1..(size + 1)
  <2> HIDE DEF size
  <2> QED BY <1>1
<1> DEFINE u == IF restore THEN copy ELSE q
<1>3. /\ i > size => r = Fail(s)
      /\ ~(i > size) => r = IF q.ok THEN q ELSE done[Trying(f, i + 1, u, copy)]
  <2> DEFINE no == Fail(s)
             on == done[Trying(f, i + 1, u, copy)]
  <2>1. r = CASE i > size -> no [] i <= size /\ q.ok -> q [] OTHER -> on
    BY Zenon DEF Try
  <2>2. i \in Int /\ size \in Int
    BY <1>1
  <2> HIDE DEF size, q, u, r, no, on
  <2>3. /\ i > size => r = no
        /\ ~(i > size) => r = IF q.ok THEN q ELSE on
    BY ONLY <2>1, <2>2
  <2> QED BY ONLY <2>3 DEF size, q, u, r, no, on
<1>4. copy.cur \in Int /\ s.cur \in Int
  BY CursorInt
<1> HIDE DEF r
<1>5. CASE i > size
  <2>1. r = Fail(s)
    BY <1>3, <1>5
  <2>2. r \in At(text) /\ r.ok = FALSE /\ Same(s, r) /\ r.cur = s.cur
    BY <2>1, FailFacts
  <2>3. Same(copy, r)
    BY <2>2, SameTwice DEF Between
  <2>4. copy.cur <= r.cur /\ (f \in Eaters \/ r.cur = copy.cur)
    BY <1>4, <2>2 DEF Between, Eaters
  <2>5. Meets(f, copy, r)
    BY <2>2, <2>3, <2>4 DEF Meets
  <2> QED BY <2>2, <2>5 DEF r
<1>6. CASE ~(i > size)
  <2>1. i \in 1..size
    BY <1>2, <1>6
  <2>2. PICK marks : Along(f, Productions[f][i], marks)
    BY <2>1 DEF AllFit, Fits
  <2>3. Len(Productions[f][i].steps) \in 1..7 /\ restore \in BOOLEAN
    BY <2>1 DEF AllFit, Fits
  <2>4. t \in At(text) /\ t.ok = TRUE /\ Same(s, t) /\ t.cur = s.cur
    BY SucceedFacts
  <2> HIDE DEF t
  <2>5. Marked(marks[1], copy, t)
    <3>1. marks[1] = {"begun"}
      BY <2>2 DEF Along
    <3>2. f \in EatsFirst => i = 1
      BY <1>1, <1>2, <1>6
    <3>3. t.cur = copy.cur /\ Same(copy, t)
      BY <2>4, <3>2, SameTwice DEF Between
    <3>4. t.nest_level = copy.nest_level /\ t.append = copy.append
      BY <3>3 DEF Same
    <3>5. "eaten" \notin marks[1]
      BY <3>1
    <3> QED BY <1>4, <2>4, <3>3, <3>4, <3>5 DEF Marked
  <2>6. GoCost(text, f, i, 1, copy) < n
    <3>1. 1 \in 1..8
      OBVIOUS
    <3>2. /\ GoCost(text, f, i, 1, copy) \in Int
               /\ TryCost(text, f, i, copy) \in Int
      BY <1>2, <3>1, CostFacts
    <3>3. GoCost(text, f, i, 1, copy) < TryCost(text, f, i, copy)
      BY <1>2, <3>1, CostFacts
    <3> QED BY <3>2, <3>3, CostLess
  <2>7. q \in At(text) /\ Ends(f, restore, copy, q)
    <3>1. 1 \in 1..(Len(Productions[f][i].steps) + 1)
      BY <2>3
    <3> QED BY <2>1, <2>2, <2>4, <2>5, <2>6, <3>1 DEF AllKept, GoesKept
  <2>8. r = IF q.ok THEN q ELSE done[Trying(f, i + 1, u, copy)]
    BY <1>3, <1>6
  <2> HIDE DEF q
  <2>9. CASE q.ok
    <3>1. r = q
      BY <2>8, <2>9
    <3>2. Meets(f, copy, r)
      BY <2>7, <2>9, <3>1 DEF Ends, Meets
    <3> QED BY <2>7, <3>1, <3>2 DEF r
  <2>10. CASE ~q.ok
    <3>1. r = done[Trying(f, i + 1, u, copy)]
      BY <2>8, <2>10
    <3>2. u \in At(text) /\ Between(f, i + 1, copy, u)
      <4>1. i + 1 # 1
        BY <1>2, <1>6
      <4>2. CASE restore
        <5>1. u = copy
          BY <4>2
        <5> HIDE DEF u
        <5> QED BY <1>4, <5>1, SameSelf DEF Between
      <4>3. CASE ~restore
        <5>1. u = q
          BY <4>3
        <5> HIDE DEF u
        <5> QED BY <2>7, <2>10, <4>1, <4>3, <5>1 DEF Between, Ends
      <4> QED BY <4>2, <4>3
    <3> HIDE DEF u
    <3>3. TryCost(text, f, i + 1, copy) < n
      <4>1. 1 \in 1..8 /\ i + 1 \in 1..14
        BY <1>2, <1>6
      <4>2. TryCost(text, f, i + 1, copy) \in Int
        BY <4>1, CostFacts
      <4>3. TryCost(text, f, i, copy) \in Int
        BY <1>2, <4>1, CostFacts
      <4>4. TryCost(text, f, i + 1, copy) < TryCost(text, f, i, copy)
        BY <1>2, <4>1, CostFacts
      <4> QED BY <4>2, <4>3, <4>4, CostLess
    <3>4. i + 1 \in 1..(Len(Productions[f]) + 1)
      BY <1>2, <1>6
    <3>5. r \in At(text) /\ Meets(f, copy, r)
      BY <3>1, <3>2, <3>3, <3>4 DEF AllKept, TriesKept
    <3> QED BY <3>5 DEF r
  <2> QED BY <2>9, <2>10
<1> QED BY <1>5, <1>6

(* The call of a parsing function. *)
LEMMA CallDone ==
  ASSUME NEW text \in Seq(STRING), Unsigned(text), NEW n \in Int, NEW done,
           AllKept(text, done, n),
         NEW f \in ParseFunctions \ {"ParsePrefix"},
         f \in DOMAIN Productions => AllFit(f, Productions[f]),
         NEW s \in At(text), CallCost(text, f, s) < n + 1
  PROVE  CallTo(done, f, s) \in At(text) /\ Meets(f, s, CallTo(done, f, s))
<1>1. CASE f \in Readers
  <2>1. CallTo(done, f, s) = ReadBy(f, s)
    BY <1>1 DEF CallTo
  <2> QED BY <1>1, <2>1, ReadersMeet
<1>2. CASE f \notin Readers
  <2>1. f \in DOMAIN Productions
    BY <1>2 DEF ParseFunctions
  <2>2. CallTo(done, f, s) = done[Trying(f, 1, s, s)]
    BY <1>2 DEF CallTo
  <2>3. Between(f, 1, s, s)
    BY CursorInt, SameSelf DEF Between
  <2>4. 1 \in 1..(Len(Productions[f]) + 1)
    BY <2>1 DEF AllFit
  <2>5. TryCost(text, f, 1, s) < n
    <3>1. 1 \in 1..14 /\ 1 \in 1..8
      OBVIOUS
    <3>2. /\ TryCost(text, f, 1, s) \in Int /\ CallCost(text, f, s) \in Int
          /\ TryCost(text, f, 1, s) < CallCost(text, f, s)
      BY <3>1, CostFacts
    <3> QED BY <3>2, CostLess
  <2> QED BY <2>1, <2>2, <2>3, <2>4, <2>5 DEF AllKept, TriesKept
<1> QED BY <1>1, <1>2

(* The call of ParsePrefix. *)
LEMMA PrefixCallDone ==
  ASSUME NEW text \in Seq(STRING), NEW n \in Int, NEW done, AllKept(text, done, n),
         NEW s \in At(text), CallCost(text, "ParsePrefix", s) < n + 1
  PROVE  CallTo(done, "ParsePrefix", s) \in At(text)
           /\ Goes(s, CallTo(done, "ParsePrefix", s))
<1>1. CallTo(done, "ParsePrefix", s) = done[Prefixing(s)]
  BY DEF CallTo, Readers
<1>2. PrefixCost(text, s) < n
  <2>1. 1 \in 1..14 /\ 1 \in 1..8
    OBVIOUS
  <2>2. /\ PrefixCost(text, s) \in Int /\ CallCost(text, "ParsePrefix", s) \in Int
        /\ PrefixCost(text, s) < CallCost(text, "ParsePrefix", s)
    BY <2>1, CostFacts
  <2> QED BY <2>2, CostLess
<1> QED BY <1>1, <1>2 DEF AllKept, PrefixesKept

(* A loop that goes on from a later state. *)
LEMMA GoesOn ==
  ASSUME NEW text, NEW s \in At(text), NEW t \in At(text), NEW r \in At(text),
         s.cur <= t.cur, t.append = s.append, Goes(t, r)
  PROVE  Goes(s, r)
<1>1. s.cur \in Int /\ t.cur \in Int /\ r.cur \in Int
  BY CursorInt
<1> QED BY <1>1 DEF Goes

(* The loop of ParsePrefix, from its beginning or from a later round on. *)
LEMMA PrefixDone ==
  ASSUME NEW text \in Seq(STRING), NEW n \in Int, NEW done, AllKept(text, done, n),
         NEW s \in At(text), PrefixCost(text, s) < n + 1, NEW has_something
  PROVE  /\ ParsePrefix(done, s, has_something) \in At(text)
         /\ Goes(s, ParsePrefix(done, s, has_something))
<1> DEFINE t == MaybeAppendSeparator(s)
           part == done[Calling("PrefixPart", t)]
           u == MaybeCancelLastSeparator(part)
           v == MaybeIncreaseNestLevel(part)
           args == done[Calling("ParseTemplateArgs", u)]
           r == ParsePrefix(done, s, has_something)
<1>1. "PrefixPart" \in ParseFunctions \ {"ParsePrefix"}
        /\ "ParseTemplateArgs" \in ParseFunctions \ {"ParsePrefix"}
  BY DEF ParseFunctions, Productions
<1>2. 1 \in 1..14 /\ 1 \in 1..8 /\ 1 \in 1..13
  OBVIOUS
<1>3. r = PrefixRound(done, part, has_something)
  BY Zenon DEF ParsePrefix
<1>4. s.cur \in Int /\ PrefixCost(text, s) \in Int
  BY <1>2, CursorInt, CostFacts
<1>5. t \in At(text) /\ t.cur = s.cur /\ t.append = s.append
  BY SeparatorFacts DEF Writes
<1> HIDE DEF t
<1>6. part \in At(text) /\ Meets("PrefixPart", t, part)
  <2>1. CallCost(text, "PrefixPart", t) < n
    <3>1. CallCost(text, "PrefixPart", t) = CallCost(text, "PrefixPart", s)
      BY <1>5, ReplacedCosts
    <3>2. CallCost(text, "PrefixPart", s) < PrefixCost(text, s)
            /\ CallCost(text, "PrefixPart", s) \in Int
      BY <1>2, CostFacts
    <3> QED BY <1>4, <3>1, <3>2, CostLess
  <2> QED BY <1>1, <1>5, <2>1 DEF AllKept, CallsKept
<1> HIDE DEF part, r
<1>7. part.cur \in Int
  BY <1>6, CursorInt
<1>8. CASE part.ok
  <2>1. part.append = s.append /\ s.cur < part.cur
    BY <1>5, <1>6, <1>8 DEF Meets
  <2>2. v \in At(text) /\ v.cur = part.cur /\ v.append = part.append
    BY <1>6, IncreaseFacts
  <2>3. r = done[PrefixingOn(v)]
    BY <1>3, <1>8 DEF PrefixRound
  <2> HIDE DEF v
  <2>4. s.cur < v.cur /\ s.cur <= v.cur /\ v.append = s.append
    BY <1>4, <1>7, <2>1, <2>2
  <2>5. PrefixCost(text, v) < n
    <3>1. PrefixCost(text, v) < PrefixCost(text, s)
      BY <1>2, <2>2, <2>4, LaterCosts
    <3>2. PrefixCost(text, v) \in Int
      BY <1>2, <2>2, CostFacts
    <3> QED BY <1>4, <3>1, <3>2, CostLess
  <2>6. r \in At(text) /\ Goes(v, r)
    BY <2>2, <2>3, <2>5 DEF AllKept, PrefixesKept
  <2>7. Goes(s, r)
    BY <2>2, <2>4, <2>6, GoesOn
  <2> QED BY <2>6, <2>7 DEF r
<1>9. CASE ~part.ok
  <2>1. part.append = s.append /\ part.cur = s.cur
    BY <1>5, <1>6, <1>9 DEF Meets, Same, Eaters, EatsFirst
  <2>2. u \in At(text) /\ u.cur = s.cur /\ u.append = s.append
    BY <1>6, <2>1, CancelFacts DEF Writes
  <2>3. r = AfterArgs(done, args) \/ r = Succeed(u)
    BY <1>3, <1>9 DEF PrefixRound
  <2> HIDE DEF u
  <2>4. CASE r = AfterArgs(done, args)
    <3>1. CallCost(text, "ParseTemplateArgs", u) < n
      <4>1. CallCost(text, "ParseTemplateArgs", u) = CallCost(text,
              "ParseTemplateArgs", s)
        BY <2>2, ReplacedCosts
      <4>2. /\ CallCost(text, "ParseTemplateArgs", s) < PrefixCost(text, s)
            /\ CallCost(text, "ParseTemplateArgs", s) \in Int
        BY <1>2, CostFacts
      <4> QED BY <1>4, <4>1, <4>2, CostLess
    <3>2. args \in At(text) /\ Meets("ParseTemplateArgs", u, args)
      BY <1>1, <2>2, <3>1 DEF AllKept, CallsKept
    <3> HIDE DEF args
    <3>3. args.cur \in Int
      BY <3>2, CursorInt
    <3>4. CASE args.ok
      <4>1. args.append = s.append /\ s.cur < args.cur
        BY <2>2, <3>2, <3>4 DEF Meets
      <4>2. s.cur <= args.cur
        BY <1>4, <3>3, <4>1
      <4>3. PrefixCost(text, args) < n
        <5>1. PrefixCost(text, args) < PrefixCost(text, s)
          BY <1>2, <3>2, <4>1, LaterCosts
        <5>2. PrefixCost(text, args) \in Int
          BY <1>2, <3>2, CostFacts
        <5> QED BY <1>4, <5>1, <5>2, CostLess
      <4>4. r = done[Prefixing(args)]
        BY <2>4, <3>4 DEF AfterArgs
      <4>5. r \in At(text) /\ Goes(args, r)
        BY <3>2, <4>3, <4>4 DEF AllKept, PrefixesKept
      <4>6. Goes(s, r)
        BY <3>2, <4>1, <4>2, <4>5, GoesOn
      <4> QED BY <4>5, <4>6 DEF r
    <3>5. CASE ~args.ok
      <4>1. args.append = s.append /\ s.cur <= args.cur
        BY <2>2, <3>2, <3>5 DEF Meets, Same
      <4>2. r = Succeed(args)
        BY <2>4, <3>5 DEF AfterArgs
      <4>3. r \in At(text) /\ r.ok = TRUE /\ Same(args, r) /\ r.cur = args.cur
        BY <3>2, <4>2, SucceedFacts
      <4>4. Goes(s, r)
        BY <4>1, <4>3 DEF Goes, Same
      <4> QED BY <4>3, <4>4 DEF r
    <3> QED BY <3>4, <3>5
  <2>5. CASE r = Succeed(u)
    <3>1. r \in At(text) /\ r.ok = TRUE /\ Same(u, r) /\ r.cur = u.cur
      BY <2>2, <2>5, SucceedFacts
    <3>2. Goes(s, r)
      BY <1>4, <2>2, <3>1 DEF Goes, Same
    <3> QED BY <3>1, <3>2 DEF r
  <2> QED BY <2>3, <2>4, <2>5
<1> QED BY <1>8, <1>9

----------------------------------------------------------------------------
(* A task is one of those that Parse tabulates. *)
LEMMA TaskIn ==
  ASSUME NEW text, NEW f \in ParseFunctions, NEW i \in Nat, NEW j \in Nat,
         NEW s \in At(text), NEW copy \in At(text),
         NEW do \in {"call", "try", "go", "repeat", "prefix", "prefixOn"}
  PROVE  Task(do, f, i, j, s, copy) \in Tasks(text)
<1>1. s \in State(text) /\ copy \in State(text)
  BY DEF At
<1>2. f \in DOMAIN Productions \cup Readers \cup {"ParsePrefix"}
  BY Zenon DEF ParseFunctions
<1> DEFINE functions == DOMAIN Productions \cup Readers \cup {"ParsePrefix"}
           states == State(text)
<1>3. Tasks(text) = [do: {"call", "try", "go", "repeat", "prefix", "prefixOn"},
                     f: functions, i: Nat, j: Nat, s: states, copy: states]
  BY Zenon DEF Tasks
<1> HIDE DEF functions, states
<1>4. f \in functions /\ s \in states /\ copy \in states
  BY <1>1, <1>2 DEF functions, states
<1> QED BY <1>3, <1>4 DEF Task

(* What is done for each kind of task. *)
LEMMA DoesCall ==
  ASSUME NEW done, NEW f, NEW s
  PROVE  Do(done, Calling(f, s)) = CallTo(done, f, s)
BY DEF Do, Calling, Task

LEMMA DoesTry ==
  ASSUME NEW done, NEW f, NEW i, NEW s, NEW copy
  PROVE  Do(done, Trying(f, i, s, copy)) = Try(done, f, i, s, copy)
BY DEF Do, Trying, Task

LEMMA DoesGo ==
  ASSUME NEW done, NEW f, NEW i, NEW j, NEW s, NEW copy
  PROVE  Do(done, Going(f, i, j, s, copy)) = Chain(done, f, i, j, s, copy)
BY DEF Do, Going, Task

LEMMA DoesRepeat ==
  ASSUME NEW done, NEW f, NEW s
  PROVE  Do(done, Repeating(f, s)) = Repeat(done, f, s)
BY DEF Do, Repeating, Task

LEMMA DoesPrefix ==
  ASSUME NEW done, NEW s
  PROVE  Do(done, Prefixing(s)) = ParsePrefix(done, s, FALSE)
BY DEF Do, Prefixing, Task

LEMMA DoesPrefixOn ==
  ASSUME NEW done, NEW s
  PROVE  Do(done, PrefixingOn(s)) = ParsePrefix(done, s, TRUE)
BY DEF Do, PrefixingOn, Task

\* What one more level of tasks makes of what the tasks within them leave.
Row(text, done) == [t \in Tasks(text) |-> Do(done, t)]

(* A task of one more level. *)
LEMMA RowDoes ==
  ASSUME NEW text, NEW done, NEW t \in Tasks(text)
  PROVE  Row(text, done)[t] = Do(done, t)
BY DEF Row

(* The calls of one more level. *)
LEMMA RowCalls ==
  ASSUME NEW text \in Seq(STRING), Unsigned(text), NEW n \in Int, NEW done,
           AllKept(text, done, n)
  PROVE  CallsKept(text, Row(text, done), n + 1)
<1> SUFFICES ASSUME NEW f \in ParseFunctions \ {"ParsePrefix"}, NEW s \in At(text),
                    CallCost(text, f, s) < n + 1
             PROVE  /\ Row(text, done)[Calling(f, s)] \in At(text)
                    /\ Meets(f, s, Row(text, done)[Calling(f, s)])
  BY Zenon DEF CallsKept
<1>1. Calling(f, s) \in Tasks(text)
  BY TaskIn DEF Calling
<1>2. Row(text, done)[Calling(f, s)] = CallTo(done, f, s)
  <2>1. Row(text, done)[Calling(f, s)] = Do(done, Calling(f, s))
    BY ONLY <1>1, RowDoes
  <2>2. Do(done, Calling(f, s)) = CallTo(done, f, s)
    BY ONLY DoesCall
  <2> QED BY ONLY <2>1, <2>2
<1>3. f \in DOMAIN Productions => AllFit(f, Productions[f])
  BY GrammarFits
<1>4. CallTo(done, f, s) \in At(text) /\ Meets(f, s, CallTo(done, f, s))
  BY <1>3, CallDone
<1> QED BY <1>2, <1>4

(* Those of ParsePrefix. *)
LEMMA RowPrefixCalls ==
  ASSUME NEW text \in Seq(STRING), NEW n \in Int, NEW done, AllKept(text, done, n)
  PROVE  PrefixCallsKept(text, Row(text, done), n + 1)
<1> SUFFICES ASSUME NEW s \in At(text), CallCost(text, "ParsePrefix", s) < n + 1
             PROVE  /\ Row(text, done)[Calling("ParsePrefix", s)] \in At(text)
                    /\ Goes(s, Row(text, done)[Calling("ParsePrefix", s)])
  BY Zenon DEF PrefixCallsKept
<1>1. Calling("ParsePrefix", s) \in Tasks(text)
  BY TaskIn DEF Calling, ParseFunctions
<1>2. Row(text, done)[Calling("ParsePrefix", s)] = CallTo(done, "ParsePrefix", s)
  <2>1. Row(text, done)[Calling("ParsePrefix", s)] = Do(done,
          Calling("ParsePrefix", s))
    BY ONLY <1>1, RowDoes
  <2>2. Do(done, Calling("ParsePrefix", s)) = CallTo(done, "ParsePrefix", s)
    BY ONLY DoesCall
  <2> QED BY ONLY <2>1, <2>2
<1> QED BY <1>2, PrefixCallDone

(* The alternatives of one more level. *)
LEMMA RowTries ==
  ASSUME NEW text \in Seq(STRING), NEW n \in Int, NEW done, AllKept(text, done, n)
  PROVE  TriesKept(text, Row(text, done), n + 1)
<1> SUFFICES ASSUME NEW f \in DOMAIN Productions,
      NEW i \in 1..(Len(Productions[f]) + 1),
                    NEW s \in At(text), NEW copy \in At(text),
                      Between(f, i, copy, s),
                    TryCost(text, f, i, copy) < n + 1
             PROVE  /\ Row(text, done)[Trying(f, i, s, copy)] \in At(text)
                    /\ Meets(f, copy, Row(text, done)[Trying(f, i, s, copy)])
  BY Zenon DEF TriesKept
<1>1. Trying(f, i, s, copy) \in Tasks(text)
  <2>1. f \in ParseFunctions /\ 0 \in Nat /\ i \in Nat
    BY DEF ParseFunctions
  <2> QED BY <2>1, TaskIn DEF Trying
<1>2. Row(text, done)[Trying(f, i, s, copy)] = Try(done, f, i, s, copy)
  <2>1. Row(text, done)[Trying(f, i, s, copy)] = Do(done, Trying(f, i, s, copy))
    BY ONLY <1>1, RowDoes
  <2>2. Do(done, Trying(f, i, s, copy)) = Try(done, f, i, s, copy)
    BY ONLY DoesTry
  <2> QED BY ONLY <2>1, <2>2
<1>3. AllFit(f, Productions[f])
  BY GrammarFits
<1> QED BY <1>2, <1>3, TryDone

(* The rests of alternatives of one more level. *)
LEMMA RowGoes ==
  ASSUME NEW text \in Seq(STRING), NEW n \in Int, NEW done, AllKept(text, done, n)
  PROVE  GoesKept(text, Row(text, done), n + 1)
<1> SUFFICES ASSUME NEW f \in DOMAIN Productions, NEW i \in 1..Len(Productions[f]),
                    NEW j \in 1..(Len(Productions[f][i].steps) + 1),
                    NEW s \in At(text), NEW copy \in At(text), NEW marks,
                    Along(f, Productions[f][i], marks), Marked(marks[j], copy, s),
                    GoCost(text, f, i, j, copy) < n + 1
             PROVE  /\ Row(text, done)[Going(f, i, j, s, copy)] \in At(text)
                    /\ Ends(f, Productions[f][i].restore, copy,
                            Row(text, done)[Going(f, i, j, s, copy)])
  BY DEF GoesKept
<1>1. Going(f, i, j, s, copy) \in Tasks(text)
  <2>1. f \in ParseFunctions /\ i \in Nat /\ j \in Nat
    BY DEF ParseFunctions
  <2> QED BY <2>1, TaskIn DEF Going
<1>2. Row(text, done)[Going(f, i, j, s, copy)] = Chain(done, f, i, j, s, copy)
  <2>1. Row(text, done)[Going(f, i, j, s, copy)] = Do(done, Going(f, i, j, s, copy))
    BY ONLY <1>1, RowDoes
  <2>2. Do(done, Going(f, i, j, s, copy)) = Chain(done, f, i, j, s, copy)
    BY ONLY DoesGo
  <2> QED BY ONLY <2>1, <2>2
<1>3. AllFit(f, Productions[f])
  BY GrammarFits
<1> QED BY <1>2, <1>3, GoDone

(* The loops of one more level. *)
LEMMA RowRepeats ==
  ASSUME NEW text \in Seq(STRING), NEW n \in Int, NEW done, AllKept(text, done, n)
  PROVE  RepeatsKept(text, Row(text, done), n + 1)
<1> SUFFICES ASSUME NEW f \in ParseFunctions \ {"ParsePrefix"}, NEW s \in At(text),
                    RepeatCost(text, s) < n + 1
             PROVE  /\ Row(text, done)[Repeating(f, s)] \in At(text)
                    /\ Repeats(s, Row(text, done)[Repeating(f, s)])
  BY Zenon DEF RepeatsKept
<1>1. Repeating(f, s) \in Tasks(text)
  BY TaskIn DEF Repeating
<1>2. Row(text, done)[Repeating(f, s)] = Repeat(done, f, s)
  <2>1. Row(text, done)[Repeating(f, s)] = Do(done, Repeating(f, s))
    BY ONLY <1>1, RowDoes
  <2>2. Do(done, Repeating(f, s)) = Repeat(done, f, s)
    BY ONLY DoesRepeat
  <2> QED BY ONLY <2>1, <2>2
<1> QED BY <1>2, RepeatDone

(* The rounds of ParsePrefix of one more level. *)
LEMMA RowPrefixes ==
  ASSUME NEW text \in Seq(STRING), NEW n \in Int, NEW done, AllKept(text, done, n)
  PROVE  PrefixesKept(text, Row(text, done), n + 1)
<1> SUFFICES ASSUME NEW s \in At(text), PrefixCost(text, s) < n + 1
             PROVE  /\ Row(text, done)[Prefixing(s)] \in At(text)
                    /\ Goes(s, Row(text, done)[Prefixing(s)])
                    /\ Row(text, done)[PrefixingOn(s)] \in At(text)
                    /\ Goes(s, Row(text, done)[PrefixingOn(s)])
  BY Zenon DEF PrefixesKept
<1>1. Prefixing(s) \in Tasks(text) /\ PrefixingOn(s) \in Tasks(text)
  <2>1. "ParsePrefix" \in ParseFunctions
    BY DEF ParseFunctions
  <2> QED BY <2>1, TaskIn DEF Prefixing, PrefixingOn
<1>2. /\ Row(text, done)[Prefixing(s)] = ParsePrefix(done, s, FALSE)
      /\ Row(text, done)[PrefixingOn(s)] = ParsePrefix(done, s, TRUE)
  <2>1. /\ Row(text, done)[Prefixing(s)] = Do(done, Prefixing(s))
        /\ Row(text, done)[PrefixingOn(s)] = Do(done, PrefixingOn(s))
    BY ONLY <1>1, RowDoes
  <2>2. Do(done, Prefixing(s)) = ParsePrefix(done, s, FALSE)
    BY ONLY DoesPrefix
  <2>3. Do(done, PrefixingOn(s)) = ParsePrefix(done, s, TRUE)
    BY ONLY DoesPrefixOn
  <2> QED BY ONLY <2>1, <2>2, <2>3
<1>3. \A has : ParsePrefix(done, s, has) \in At(text)
        /\ Goes(s, ParsePrefix(done, s, has))
  BY PrefixDone
<1>4. ParsePrefix(done, s, FALSE) \in At(text)
        /\ Goes(s, ParsePrefix(done, s, FALSE))
  BY <1>3, Zenon
<1>5. ParsePrefix(done, s, TRUE) \in At(text) /\ Goes(s, ParsePrefix(done, s, TRUE))
  BY <1>3, Zenon
<1> QED BY <1>2, <1>4, <1>5, Zenon

(* One more level keeps the promises of tasks that cost one more. *)
LEMMA RowKept ==
  ASSUME NEW text \in Seq(STRING), Unsigned(text), NEW n \in Int, NEW done,
           AllKept(text, done, n)
  PROVE  AllKept(text, Row(text, done), n + 1)
BY RowCalls, RowPrefixCalls, RowTries, RowGoes, RowRepeats, RowPrefixes DEF AllKept

(* No task costs nothing. *)
LEMMA CostsBegin ==
  ASSUME NEW text \in Seq(STRING), NEW s \in At(text), NEW f, NEW i \in 1..14,
           NEW j \in 1..8
  PROVE  /\ 0 <= CallCost(text, f, s) /\ 0 <= TryCost(text, f, i, s)
         /\ 0 <= GoCost(text, f, i, j, s) /\ 0 <= RepeatCost(text, s)
         /\ 0 <= PrefixCost(text, s) /\ CallCost(text, f, s) < Deepest(text)
<1>1. s.cur \in 1..(Len(text) + 1) /\ Len(text) \in Nat
  BY DEF At, State
<1>2. Rank(f) \in 0..8 /\ Rank("ParsePrefix") \in 0..8
  BY ONLY RankFacts
<1> DEFINE a == Left(text, s)
           p == Rank(f)
           u == Rank("ParsePrefix")
           d == Deepest(text)
<1>3. a \in Int /\ 0 <= a /\ d \in Int /\ a + 10000 <= d
  BY <1>1 DEF Left, Deepest
<1>4. /\ CallCost(text, f, s) = a + 200 * p + 199
      /\ TryCost(text, f, i, s) = a + 200 * p + 10 * (14 - i) + 9
      /\ GoCost(text, f, i, j, s) = a + 200 * p + 10 * (14 - i) + (8 - j)
      /\ RepeatCost(text, s) = a + 9999
      /\ PrefixCost(text, s) = a + 200 * u + 150
  BY Zenon DEF CallCost, TryCost, GoCost, RepeatCost, PrefixCost
<1>5. p \in Int /\ p >= 0 /\ p <= 8 /\ u \in Int /\ u >= 0
  BY <1>2
<1> HIDE DEF a, p, u, d
<1>6. 0 <= CallCost(text, f, s)
  BY <1>3, <1>4, <1>5
<1>7. 0 <= TryCost(text, f, i, s)
  BY <1>3, <1>4, <1>5
<1>8. 0 <= GoCost(text, f, i, j, s)
  BY <1>3, <1>4, <1>5
<1>9. 0 <= RepeatCost(text, s)
  BY <1>3, <1>4
<1>10. 0 <= PrefixCost(text, s)
  BY <1>3, <1>4, <1>5
<1>11. CallCost(text, f, s) < d
  BY <1>3, <1>4, <1>5
<1> QED BY <1>6, <1>7, <1>8, <1>9, <1>10, <1>11 DEF d

(* So that at the deepest level there is nothing to show. *)
LEMMA NothingCosts ==
  ASSUME NEW text \in Seq(STRING), NEW done
  PROVE  AllKept(text, done, 0)
<1>0. 1 \in 1..14 /\ 1 \in 1..8
  OBVIOUS
<1>1. ASSUME NEW f, NEW s \in At(text) PROVE ~(CallCost(text, f, s) < 0)
  <2>1. 0 <= CallCost(text, f, s) /\ CallCost(text, f, s) \in Int
    BY <1>0, CostsBegin, CostFacts
  <2> QED BY <2>1
<1>2. ASSUME NEW f \in DOMAIN Productions, NEW i \in 1..(Len(Productions[f]) + 1),
               NEW s \in At(text)
      PROVE  ~(TryCost(text, f, i, s) < 0)
  <2> DEFINE size == Len(Productions[f])
  <2>1. size \in 1..13 /\ i \in 1..(size + 1)
    BY GrammarFits DEF AllFit
  <2>2. i \in 1..14
    <3> HIDE DEF size
    <3> QED BY <2>1
  <2>3. 0 <= TryCost(text, f, i, s) /\ TryCost(text, f, i, s) \in Int
    BY <1>0, <2>2, CostsBegin, CostFacts
  <2> QED BY <2>3
<1>3. ASSUME NEW f \in DOMAIN Productions, NEW i \in 1..Len(Productions[f]),
             NEW j \in 1..(Len(Productions[f][i].steps) + 1), NEW s \in At(text)
      PROVE  ~(GoCost(text, f, i, j, s) < 0)
  <2> DEFINE size == Len(Productions[f])
             last == Len(Productions[f][i].steps)
  <2>1. size \in 1..13 /\ i \in 1..size /\ last \in 1..7 /\ j \in 1..(last + 1)
    BY GrammarFits DEF AllFit, Fits
  <2>2. i \in 1..14
    <3> HIDE DEF size
    <3> QED BY <2>1
  <2>3. j \in 1..8
    <3> HIDE DEF last
    <3> QED BY <2>1
  <2>4. 0 <= GoCost(text, f, i, j, s) /\ GoCost(text, f, i, j, s) \in Int
    BY <2>2, <2>3, CostsBegin, CostFacts
  <2> QED BY <2>4
<1>4. ASSUME NEW s \in At(text) PROVE ~(RepeatCost(text, s) < 0)
               /\ ~(PrefixCost(text, s) < 0)
  <2>1. /\ 0 <= RepeatCost(text, s) /\ RepeatCost(text, s) \in Int
        /\ 0 <= PrefixCost(text, s) /\ PrefixCost(text, s) \in Int
    <3>1. 0 <= RepeatCost(text, s) /\ 0 <= PrefixCost(text, s)
      BY <1>0, CostsBegin
    <3>2. RepeatCost(text, s) \in Int /\ PrefixCost(text, s) \in Int
      BY <1>0, CostFacts
    <3> QED BY <3>1, <3>2
  <2> QED BY <2>1
<1>5. CallsKept(text, done, 0) /\ PrefixCallsKept(text, done, 0)
  BY <1>1 DEF CallsKept, PrefixCallsKept
<1>6. TriesKept(text, done, 0)
  BY <1>2 DEF TriesKept
<1>7. GoesKept(text, done, 0)
  BY <1>3 DEF GoesKept
<1>8. RepeatsKept(text, done, 0) /\ PrefixesKept(text, done, 0)
  BY <1>4 DEF RepeatsKept, PrefixesKept
<1> QED BY <1>5, <1>6, <1>7, <1>8 DEF AllKept

\* The levels of tasks, the deepest of which does nothing.
LevelsOf(text, deepest, did) ==
  did = [deep \in 0..deepest |->
           IF deep = deepest THEN [t \in Tasks(text) |-> t.s]
           ELSE [t \in Tasks(text) |-> Do(did[deep + 1], t)]]

(* The levels that Parse speaks of are there. *)
LEMMA LevelsExist ==
  ASSUME NEW text, NEW deepest \in Nat
  PROVE  \E did : LevelsOf(text, deepest, did)
<1> DEFINE last == [t \in Tasks(text) |-> t.s]
           Good(k, g) ==
             \A i \in k..deepest :
               g[i] = IF i = deepest THEN last ELSE Row(text, g[i + 1])
           S == {k \in 0..deepest : \E g : Good(k, g)}
<1>1. deepest \in S
  <2> DEFINE g == [i \in 0..deepest |-> last]
  <2>1. Good(deepest, g)
    OBVIOUS
  <2> HIDE DEF g, Good
  <2> QED BY <2>1
<1>2. ASSUME NEW k \in 0..(deepest - 1), k + 1 \in S PROVE k \in S
  <2>1. PICK g : Good(k + 1, g)
    BY <1>2
  <2> DEFINE h == [i \in 0..deepest |-> IF i = k THEN Row(text, g[k + 1]) ELSE g[i]]
  <2>2. /\ h[k] = Row(text, g[k + 1])
        /\ \A i \in (k + 1)..deepest : h[i] = g[i]
    OBVIOUS
  <2> HIDE DEF h, last
  <2>3. ASSUME NEW i \in k..deepest
        PROVE  h[i] = IF i = deepest THEN last ELSE Row(text, h[i + 1])
    <3>1. CASE i = k
      <4>1. k + 1 \in (k + 1)..deepest /\ i # deepest
        BY <3>1
      <4>2. h[k + 1] = g[k + 1]
        BY <2>2, <4>1
      <4> QED BY <2>2, <3>1, <4>1, <4>2
    <3>2. CASE i # k
      <4>1. i \in (k + 1)..deepest
        BY <3>2
      <4>2. h[i] = g[i] /\ g[i] = IF i = deepest THEN last ELSE Row(text, g[i + 1])
        BY <2>1, <2>2, <4>1
      <4>3. CASE i = deepest
        BY <4>2, <4>3
      <4>4. CASE i # deepest
        <5>1. i + 1 \in (k + 1)..deepest
          BY <4>1, <4>4
        <5>2. h[i + 1] = g[i + 1]
          BY <2>2, <5>1
        <5> QED BY <4>2, <4>4, <5>2
      <4> QED BY <4>3, <4>4
    <3> QED BY <3>1, <3>2
  <2>4. Good(k, h)
    BY <2>3
  <2>5. k \in 0..deepest
    OBVIOUS
  <2> HIDE DEF Good
  <2> QED BY <2>4, <2>5
<1>3. 0..deepest \subseteq S
  <2> HIDE DEF S
  <2> QED BY <1>1, <1>2, DownInduction
<1>4. PICK g : Good(0, g)
  <2>1. 0 \in 0..deepest
    OBVIOUS
  <2>2. 0 \in S
    <3> HIDE DEF S
    <3> QED BY <1>3, <2>1
  <2> HIDE DEF Good
  <2> QED BY <2>2
<1> DEFINE did == [deep \in 0..deepest |-> g[deep]]
           R(deep) == IF deep = deepest THEN [t \in Tasks(text) |-> t.s]
                      ELSE [t \in Tasks(text) |-> Do(did[deep + 1], t)]
<1>5. ASSUME NEW deep \in 0..deepest PROVE did[deep] = R(deep)
  <2>1. did[deep] = g[deep]
          /\ g[deep] = IF deep = deepest THEN last ELSE Row(text, g[deep + 1])
    BY <1>4
  <2>2. CASE deep = deepest
    <3>1. R(deep) = last
      BY <2>2
    <3> HIDE DEF R, last, did
    <3> QED BY <2>1, <2>2, <3>1
  <2>3. CASE deep # deepest
    <3>1. deep + 1 \in 0..deepest
      BY <2>3
    <3>2. did[deep + 1] = g[deep + 1]
      BY <3>1
    <3> HIDE DEF did
    <3>3. R(deep) = Row(text, g[deep + 1])
      BY <2>3, <3>2 DEF Row
    <3> HIDE DEF R, last
    <3> QED BY <2>1, <2>3, <3>3
  <2> QED BY <2>2, <2>3
<1>6. did = [deep \in 0..deepest |-> R(deep)]
  <2> HIDE DEF R
  <2>1. did = [deep \in 0..deepest |-> did[deep]]
    OBVIOUS
  <2> HIDE DEF did
  <2> QED BY <1>5, <2>1
<1>7. LevelsOf(text, deepest, did)
  <2> HIDE DEF did
  <2> QED BY <1>6 DEF LevelsOf
<1> QED BY <1>7

(* Every parsing function keeps its promise, wherever it is called. *)
THEOREM ParseMeets ==
  ASSUME NEW text \in Seq(STRING), Unsigned(text), NEW s \in At(text),
         NEW f \in ParseFunctions \ {"ParsePrefix"}
  PROVE  Parse(f, s) \in At(text) /\ Meets(f, s, Parse(f, s))
<1> DEFINE deepest == Deepest(text)
           did == CHOOSE d : LevelsOf(text, deepest, d)
<1>1. s.text = text
  BY DEF At, State
<1>2. deepest \in Nat
  BY DEF Deepest
<1>3. Parse(f, s) = did[0][Calling(f, s)]
  BY <1>1, Zenon DEF Parse, LevelsOf
<1> HIDE DEF deepest
<1>4. LevelsOf(text, deepest, did)
  <2>1. \E d : LevelsOf(text, deepest, d)
    BY <1>2, LevelsExist
  <2> QED BY <2>1, Zenon
<1> HIDE DEF did
<1>5. ASSUME NEW k \in 0..(deepest - 1) PROVE did[k] = Row(text, did[k + 1])
  <2>1. k \in 0..deepest /\ k # deepest
    BY <1>2
  <2>2. did[k] = IF k = deepest THEN [t \in Tasks(text) |-> t.s]
                 ELSE [t \in Tasks(text) |-> Do(did[k + 1], t)]
    BY <1>4, <2>1 DEF LevelsOf
  <2> QED BY <2>1, <2>2 DEF Row
<1> DEFINE S == {k \in 0..deepest : AllKept(text, did[k], deepest - k)}
<1>6. deepest \in S
  <2>1. deepest - deepest = 0 /\ deepest \in 0..deepest
    BY <1>2
  <2>2. AllKept(text, did[deepest], 0)
    BY NothingCosts
  <2> QED BY <2>1, <2>2
<1>7. ASSUME NEW k \in 0..(deepest - 1), k + 1 \in S PROVE k \in S
  <2> DEFINE n == deepest - (k + 1)
  <2>1. n \in Int /\ n + 1 = deepest - k /\ k \in 0..deepest
    BY <1>2
  <2>2. AllKept(text, did[k + 1], n)
    BY <1>7
  <2> HIDE DEF n
  <2>3. AllKept(text, Row(text, did[k + 1]), n + 1)
    BY <2>1, <2>2, RowKept
  <2>4. AllKept(text, did[k], deepest - k)
    BY <1>5, <2>1, <2>3
  <2> QED BY <2>1, <2>4
<1>8. 0..deepest \subseteq S
  <2> HIDE DEF S
  <2> QED BY <1>2, <1>6, <1>7, DownInduction
<1>9. AllKept(text, did[0], deepest)
  <2>1. 0 \in S /\ deepest - 0 = deepest
    BY <1>2, <1>8
  <2> QED BY <2>1
<1>10. CallCost(text, f, s) < deepest
  <2>1. 1 \in 1..14 /\ 1 \in 1..8
    OBVIOUS
  <2> QED BY <2>1, CostsBegin DEF deepest
<1> QED BY <1>3, <1>9, <1>10 DEF AllKept, CallsKept

----------------------------------------------------------------------------

(* Two states alike in all are one. *)
LEMMA StateEqual ==
  ASSUME NEW text, NEW a \in State(text), NEW b \in State(text), Same(a, b),
           a.cur = b.cur, a.ok = b.ok
  PROVE  a = b
BY DEF State, Same

(* The promise of every function is what the convention asks of it. *)
LEMMA ConventionMeets ==
  ASSUME NEW f \in DOMAIN Productions, input \in Seq(STRING),
         NEW s \in At(input), s.ok, NEW r \in At(input), Meets(f, s, r)
  PROVE  KeepsConvention(f, s, r)
<1>1. s.ok = TRUE /\ r.cur \in 1..(Len(input) + 1) /\ r.ok \in BOOLEAN
        /\ Len(input) \in Nat
  BY DEF At, State
<1>2. CASE r.ok
  <2>1. r.nest_level = s.nest_level /\ r.append = s.append /\ s.cur < r.cur
          /\ r.cur <= Len(input) + 1
    BY <1>1, <1>2 DEF Meets
  <2> QED BY <1>2, <2>1 DEF KeepsConvention
<1>3. CASE ~r.ok
  <2> DEFINE cur == IF f \in EatsFirst THEN r.cur ELSE s.cur
             a == Succeed(r)
             b == [s EXCEPT !.cur = cur]
  <2>1. f # "ParseNumber"
    BY DEF Productions
  <2>2. Same(s, r) /\ r.cur = cur
    BY <1>3, <2>1 DEF Meets, Eaters
  <2>3. cur \in Nat /\ cur \in 1..(Len(input) + 1)
    BY <1>1, <2>2
  <2> HIDE DEF cur
  <2>4. a \in At(input) /\ a.ok = TRUE /\ Same(r, a) /\ a.cur = cur
    BY <2>2, SucceedFacts
  <2>5. b \in At(input) /\ Same(s, b) /\ b.cur = cur
    BY <2>3, PlaceFacts
  <2>6. b.ok = TRUE
    BY <1>1 DEF At, State
  <2> HIDE DEF a, b
  <2>7. Same(a, b)
    BY <2>2, <2>4, <2>5 DEF Same
  <2>8. a = b
    BY <2>4, <2>5, <2>6, <2>7, StateEqual DEF At
  <2>9. b = [s EXCEPT !.cur = IF f \in EatsFirst THEN r.cur ELSE @]
    BY DEF b, cur
  <2> QED BY <1>3, <2>8, <2>9 DEF KeepsConvention, a
<1> QED BY <1>2, <1>3

(* The states the run starts from. *)
LEMMA AmidFacts ==
  ASSUME input \in Seq(STRING), Len(opening) \in 0..Len(input),
         NEW size \in Nat, NEW nest_level \in Int, NEW mode \in BOOLEAN
  PROVE  Amid(size, nest_level, mode) \in At(input)
           /\ Amid(size, nest_level, mode).ok = TRUE
<1> DEFINE text == input
           cur == Len(opening) + 1
           a == InitState(text, size)
           b == [a EXCEPT !.cur = cur]
           c == MaybeAppend(b, Text("ab"))
           d == [c EXCEPT !.nest_level = nest_level, !.append = mode]
<1>1. Text("ab") \in Seq(STRING)
  BY InputsAssumption
<1>2. cur \in Nat /\ cur \in 1..(Len(text) + 1) /\ text \in Seq(STRING)
        /\ 1 \in 1..(Len(text) + 1)
  OBVIOUS
<1>3. Amid(size, nest_level, mode) = d
  BY Zenon DEF Amid, Written
<1> HIDE DEF text, cur
<1>4. a \in At(text) /\ a.ok = TRUE
  BY <1>2 DEF InitState, At, State
<1> HIDE DEF a
<1>5. b \in At(text) /\ b.ok = TRUE
  BY <1>2, <1>4 DEF At, State
<1> HIDE DEF b
<1>6. c \in At(text) /\ c.ok = TRUE
  BY <1>1, <1>5, MaybeAppendFacts DEF Writes
<1> HIDE DEF c
<1>7. d \in At(text) /\ d.ok = TRUE
  BY <1>6 DEF At, State
<1> QED BY <1>3, <1>7 DEF text

(* The texts the run tries. *)
TextsInv == opening \in Openings \cup {<<>>} /\ tail \in Seq(Alphabet)

(* The texts the run tries. *)
LEMMA TextsTried ==
  ASSUME TextsInv
  PROVE  input \in Seq(STRING) /\ Unsigned(input) /\ Len(opening) \in 0..Len(input)
<1>1. Alphabet \subseteq STRING /\ "n" \notin Alphabet
  BY InputsAssumption
<1>2. opening \in Seq(STRING) /\ "n" \notin Range(opening)
  <2>1. CASE opening \in Openings
    BY <2>1, InputsAssumption
  <2>2. CASE opening = <<>>
    <3>1. "n" \notin Range(<<>>) /\ <<>> \in Seq(STRING)
      BY DEF Range
    <3> QED BY <2>2, <3>1
  <2> QED BY <2>1, <2>2 DEF TextsInv
<1>3. tail \in Seq(STRING) /\ \A i \in 1..Len(tail) : tail[i] # "n"
  <2>1. tail \in Seq(Alphabet)
    BY DEF TextsInv
  <2>2. \A i \in 1..Len(tail) : tail[i] \in Alphabet
    BY <2>1
  <2>3. Len(tail) \in Nat /\ tail = [i \in 1..Len(tail) |-> tail[i]]
    BY <2>1
  <2>4. tail \in Seq(STRING)
    BY <1>1, <2>1, <2>2, <2>3, SeqDef
  <2> QED BY <1>1, <2>2, <2>4
<1>4. \A i \in 1..Len(opening) : opening[i] # "n"
  BY <1>2 DEF Range
<1>5. input \in Seq(STRING) /\ Len(input) = Len(opening) + Len(tail)
  BY <1>2, <1>3 DEF input
<1>6. Len(opening) \in 0..Len(input)
  BY <1>2, <1>3, <1>5
<1>7. ASSUME NEW i \in 1..Len(input) PROVE input[i] # "n"
  <2>1. CASE i <= Len(opening)
    BY <1>2, <1>3, <1>4, <1>5, <2>1 DEF input
  <2>2. CASE ~(i <= Len(opening))
    <3>1. i - Len(opening) \in 1..Len(tail) /\ input[i] = tail[i - Len(opening)]
      BY <1>2, <1>3, <1>5, <2>2 DEF input
    <3> QED BY <1>3, <3>1
  <2> QED BY <2>1, <2>2
<1>8. \A i \in 1..(Len(input) - 1) : i \in 1..Len(input)
  BY <1>5
<1>9. Unsigned(input)
  BY <1>7, <1>8 DEF Unsigned
<1> QED BY <1>5, <1>6, <1>9

(* Every parsing function keeps the convention, on every text. *)
THEOREM ConventionKept == DemangleInit /\ [][DemangleNext]_demangleVars =>
  []ParseConvention
<1>1. DemangleInit => TextsInv
  <2>1. <<>> \in Seq(Alphabet)
    OBVIOUS
  <2> QED BY <2>1 DEF DemangleInit, TextsInv
<1>2. TextsInv /\ [DemangleNext]_demangleVars => TextsInv'
  <2> SUFFICES ASSUME TextsInv, [DemangleNext]_demangleVars PROVE TextsInv'
    OBVIOUS
  <2>1. CASE GrowTail
    BY <2>1 DEF GrowTail, TextsInv
  <2>2. CASE GrowScopes
    BY <2>2 DEF GrowScopes, TextsInv
  <2>3. CASE UNCHANGED demangleVars
    BY <2>3 DEF demangleVars, TextsInv
  <2> QED BY <2>1, <2>2, <2>3 DEF DemangleNext
<1>3. TextsInv => ParseConvention
  <2> SUFFICES ASSUME TextsInv, NEW f \in DOMAIN Productions, NEW s \in Midway
               PROVE  KeepsConvention(f, s, Parse(f, s))
    BY DEF ParseConvention
  <2>1. input \in Seq(STRING) /\ Unsigned(input) /\ Len(opening) \in 0..Len(input)
    BY TextsTried
  <2>2. s \in At(input) /\ s.ok = TRUE
    <3>1. s = Amid(Ample, 1, TRUE) \/ s = Amid(4, -1, TRUE)
            \/ s = Amid(Ample, 0, FALSE)
      BY Zenon DEF Midway
    <3>2. Ample \in Nat /\ 4 \in Nat /\ 1 \in Int /\ -1 \in Int /\ 0 \in Int
      BY DEF Ample
    <3>3. Amid(Ample, 1, TRUE) \in At(input) /\ Amid(Ample, 1, TRUE).ok = TRUE
      BY <2>1, <3>2, AmidFacts
    <3>4. Amid(4, -1, TRUE) \in At(input) /\ Amid(4, -1, TRUE).ok = TRUE
      BY <2>1, <3>2, AmidFacts
    <3>5. Amid(Ample, 0, FALSE) \in At(input) /\ Amid(Ample, 0, FALSE).ok = TRUE
      BY <2>1, <3>2, AmidFacts
    <3> QED BY <3>1, <3>3, <3>4, <3>5
  <2>3. f \in ParseFunctions \ {"ParsePrefix"}
    BY DEF ParseFunctions, Productions
  <2>4. Parse(f, s) \in At(input) /\ Meets(f, s, Parse(f, s))
    BY <2>1, <2>2, <2>3, ParseMeets
  <2> QED BY <2>1, <2>2, <2>4, ConventionMeets
<1> QED BY <1>1, <1>2, <1>3, PTL

=============================================================================
