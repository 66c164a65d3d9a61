----------------------------- MODULE VLogProofs -----------------------------
(***************************************************************************)
(* Proofs about the matcher and the parser behind --vmodule, for texts of  *)
(* any length, and about VLog, for any threads, sites, files, flags,       *)
(* patterns and levels, and any number of calls.                           *)
(***************************************************************************)
EXTENDS VLog, MCVModuleText, TextProofs

-----------------------------------------------------------------------------
(* One row of the matcher's table, from the next. *)
MatchRow(p, s, str, next, i) ==
  LET P == Len(p)
      S == Len(str)
  IN \/ i = P /\ s = S
     \/ i < P /\ s = S /\ OnlyStarLeft(p, i)
     \/ /\ i < P /\ s < S
        /\ IF p[i + 1] \in {str[s + 1], "?"} THEN next[s + 1]
           ELSE /\ p[i + 1] = "*"
                /\ i + 1 = P \/ \E r \in StarStops(s, S) : next[r]

MatchTable(p, str, m) ==
  /\ m \in [0..Len(p) -> [0..Len(str) -> BOOLEAN]]
  /\ \A i \in 0..Len(p), s \in 0..Len(str) : m[i][s] = MatchRow(p, s, str, m[i + 1], i)

(* The matcher's table exists, and its first field is the answer. *)
LEMMA MatcherTable ==
  ASSUME NEW C, NEW p \in Seq(C), NEW str \in Seq(C)
  PROVE  \E m : MatchTable(p, str, m) /\ SafeFNMatch(p, str) = m[0][0]
<1> DEFINE P == Len(p)
           S == Len(str)
           A == [0..S -> BOOLEAN]
           Eq(m) == m = [i \in 0..P |-> [s \in 0..S |->
                           \/ i = P /\ s = S
                           \/ i < P /\ s = S /\ OnlyStarLeft(p, i)
                           \/ /\ i < P /\ s < S
                              /\ IF p[i + 1] \in {str[s + 1], "?"} THEN m[i + 1][s + 1]
                                 ELSE /\ p[i + 1] = "*"
                                      /\ i + 1 = P \/ \E r \in StarStops(s, S) : m[i + 1][r]]]
           step == [i \in 0..P |-> [f \in [0..P -> A] |->
                      [s \in 0..S |->
                           \/ i = P /\ s = S
                           \/ i < P /\ s = S /\ OnlyStarLeft(p, i)
                           \/ /\ i < P /\ s < S
                              /\ IF p[i + 1] \in {str[s + 1], "?"} THEN f[i + 1][s + 1]
                                 ELSE /\ p[i + 1] = "*"
                                      /\ i + 1 = P \/ \E r \in StarStops(s, S) : f[i + 1][r]]]]
<1>1. P \in Nat /\ S \in Nat /\ A # {}
  <2>1. P \in Nat /\ S \in Nat
    OBVIOUS
  <2>2. [s \in 0..S |-> TRUE] \in A
    OBVIOUS
  <2> QED BY <2>1, <2>2
<1>2. \E m : Eq(m)
  <2>1. StepsInto(P, A, step)
    <3>1. ASSUME NEW i \in 0..P, NEW f \in [0..P -> A], NEW s \in 0..S
          PROVE  step[i][f][s] \in BOOLEAN
      BY <1>1, <3>1
    <3> QED BY <3>1 DEF StepsInto
  <2>2. LooksAhead(P, A, step)
    <3> SUFFICES ASSUME NEW i \in 0..P, NEW f \in [0..P -> A], NEW g \in [0..P -> A],
                        \A j \in (i + 1)..P : f[j] = g[j]
                 PROVE  step[i][f] = step[i][g]
      BY DEF LooksAhead
    <3>1. i = P \/ f[i + 1] = g[i + 1]
      BY <1>1
    <3> QED BY <1>1, <3>1
  <2>3. PICK f \in [0..P -> A] : Solves(P, step, f)
    <3>1. P \in Nat /\ A # {}
      BY <1>1
    <3> HIDE DEF P, A, S, Eq, step
    <3> QED BY <3>1, <2>1, <2>2, RecursionFromEnd
  <2>4. Eq(f)
    BY <2>3 DEF Solves
  <2> QED BY <2>4
<1> DEFINE mm == CHOOSE m : Eq(m)
<1>3. Eq(mm)
  <2> HIDE DEF Eq
  <2> QED BY <1>2
<1>4. SafeFNMatch(p, str) = mm[0][0]
  BY Zenon DEF SafeFNMatch
<1> HIDE DEF mm
<1>5. ASSUME NEW i \in 0..P, NEW s \in 0..S
      PROVE  mm[i][s] = MatchRow(p, s, str, mm[i + 1], i)
  <2>1. mm[i] = [j \in 0..S |->
                           \/ i = P /\ j = S
                           \/ i < P /\ j = S /\ OnlyStarLeft(p, i)
                           \/ /\ i < P /\ j < S
                              /\ IF p[i + 1] \in {str[j + 1], "?"} THEN mm[i + 1][j + 1]
                                 ELSE /\ p[i + 1] = "*"
                                      /\ i + 1 = P \/ \E r \in StarStops(j, S) : mm[i + 1][r]]
    BY <1>3
  <2> QED BY <2>1 DEF MatchRow
<1>6. mm \in [0..P -> [0..S -> BOOLEAN]]
  BY <1>3
<1> QED BY <1>4, <1>5, <1>6 DEF MatchTable

(* What Glob says of the texts behind i characters of the pattern and j of *)
(* the string.                                                             *)
Piece(p, s, from, to, i) ==
  IF p[i] = "*" THEN from <= to
  ELSE to = from + 1 /\ p[i] \in {"?", s[to]}

GlobFrom(p, s, i, j) ==
  \E cut \in [i..Len(p) -> 0..Len(s)] :
    /\ cut[i] = j /\ cut[Len(p)] = Len(s)
    /\ \A k \in (i + 1)..Len(p) : Piece(p, s, cut[k - 1], cut[k], k)

\* Behind both texts, and from one character of the pattern to the next.
LEMMA GlobEnd ==
  ASSUME NEW C, NEW p \in Seq(C), NEW s \in Seq(C), NEW j \in 0..Len(s)
  PROVE  GlobFrom(p, s, Len(p), j) <=> j = Len(s)
<1>1. Len(p) \in Nat /\ Len(s) \in Nat
  OBVIOUS
<1>2. ASSUME j = Len(s) PROVE GlobFrom(p, s, Len(p), j)
  <2> DEFINE cut == [i \in Len(p)..Len(p) |-> j]
  <2>1. cut \in [Len(p)..Len(p) -> 0..Len(s)] /\ cut[Len(p)] = j
    BY <1>1
  <2>2. \A k \in (Len(p) + 1)..Len(p) : FALSE
    BY <1>1
  <2> HIDE DEF cut
  <2> QED BY <1>2, <2>1, <2>2 DEF GlobFrom
<1>3. GlobFrom(p, s, Len(p), j) => j = Len(s)
  BY DEF GlobFrom
<1> QED BY <1>2, <1>3

(* What matches a glob from one place on matches, after the part that its  *)
(* first character takes, the rest of the glob.                            *)
LEMMA GlobForwards ==
  ASSUME NEW C, NEW p \in Seq(C), NEW s \in Seq(C), NEW i \in 0..(Len(p) - 1),
         NEW j \in 0..Len(s), GlobFrom(p, s, i, j)
  PROVE  \E r \in 0..Len(s) : Piece(p, s, j, r, i + 1) /\ GlobFrom(p, s, i + 1, r)
<1>1. Len(p) \in Nat /\ Len(s) \in Nat
  OBVIOUS
<1>2. PICK cut \in [i..Len(p) -> 0..Len(s)] :
             /\ cut[i] = j /\ cut[Len(p)] = Len(s)
             /\ \A k \in (i + 1)..Len(p) : Piece(p, s, cut[k - 1], cut[k], k)
  BY DEF GlobFrom
<1> DEFINE rest == [k \in (i + 1)..Len(p) |-> cut[k]]
           r == cut[i + 1]
<1>3. i + 1 \in (i + 1)..Len(p) /\ (i + 1) - 1 = i /\ i + 1 \in i..Len(p)
  BY <1>1
<1>4. r \in 0..Len(s) /\ Piece(p, s, j, r, i + 1)
  BY <1>2, <1>3
<1>5. rest \in [(i + 1)..Len(p) -> 0..Len(s)]
  BY <1>1, <1>2
<1>6. rest[i + 1] = r /\ rest[Len(p)] = Len(s)
  BY <1>1, <1>2
<1>7. ASSUME NEW k \in ((i + 1) + 1)..Len(p) PROVE Piece(p, s, rest[k - 1], rest[k], k)
  <2>1. k - 1 \in (i + 1)..Len(p) /\ k \in (i + 1)..Len(p)
    BY <1>1
  <2>2. rest[k - 1] = cut[k - 1] /\ rest[k] = cut[k]
    BY <2>1
  <2> QED BY <1>2, <2>1, <2>2
<1> HIDE DEF rest, r
<1>8. GlobFrom(p, s, i + 1, r)
  BY <1>5, <1>6, <1>7 DEF GlobFrom
<1> QED BY <1>4, <1>8

(* And back: a part for the first character and a match of the rest make a *)
(* match.                                                                  *)
LEMMA GlobBackwards ==
  ASSUME NEW C, NEW p \in Seq(C), NEW s \in Seq(C), NEW i \in 0..(Len(p) - 1),
         NEW j \in 0..Len(s), NEW r \in 0..Len(s),
         Piece(p, s, j, r, i + 1), GlobFrom(p, s, i + 1, r)
  PROVE  GlobFrom(p, s, i, j)
<1>1. Len(p) \in Nat /\ Len(s) \in Nat
  OBVIOUS
<1>2. PICK rest \in [(i + 1)..Len(p) -> 0..Len(s)] :
             /\ rest[i + 1] = r /\ rest[Len(p)] = Len(s)
             /\ \A k \in ((i + 1) + 1)..Len(p) : Piece(p, s, rest[k - 1], rest[k], k)
  BY DEF GlobFrom
<1> DEFINE cut == [k \in i..Len(p) |-> IF k = i THEN j ELSE rest[k]]
<1>3. cut \in [i..Len(p) -> 0..Len(s)]
  BY <1>1, <1>2
<1>4. cut[i] = j /\ cut[Len(p)] = Len(s) /\ cut[i + 1] = r
  BY <1>1, <1>2
<1>5. ASSUME NEW k \in (i + 1)..Len(p) PROVE Piece(p, s, cut[k - 1], cut[k], k)
  <2>1. CASE k = i + 1
    <3>1. k - 1 = i
      BY <2>1
    <3> HIDE DEF cut
    <3> QED BY <1>4, <2>1, <3>1
  <2>2. CASE k # i + 1
    <3>1. k \in ((i + 1) + 1)..Len(p) /\ k - 1 \in (i + 1)..Len(p) /\ k \in (i + 1)..Len(p)
      BY <1>1, <2>2
    <3>2. cut[k - 1] = rest[k - 1] /\ cut[k] = rest[k]
      BY <3>1
    <3> HIDE DEF cut
    <3> QED BY <1>2, <3>1, <3>2
  <2> QED BY <2>1, <2>2
<1> HIDE DEF cut
<1> QED BY <1>3, <1>4, <1>5 DEF GlobFrom

(* The language of the glob is what matches from both beginnings on.       *)
LEMMA GlobWhole ==
  ASSUME NEW C, NEW p \in Seq(C), NEW s \in Seq(C)
  PROVE  Glob(p, s) <=> GlobFrom(p, s, 0, 0)
<1>1. (0 + 1)..Len(p) = 1..Len(p)
  OBVIOUS
<1> QED BY <1>1 DEF Glob, GlobFrom, Piece

-----------------------------------------------------------------------------
(* SafeFNMatch_ accepts no name outside the language of the glob, whatever *)
(* stars pattern and name hold.                                            *)
THEOREM MatcherSound ==
  ASSUME NEW C, NEW p \in Seq(C), NEW s \in Seq(C), SafeFNMatch(p, s)
  PROVE  Glob(p, s)
<1> DEFINE P == Len(p)
           S == Len(s)
<1>1. P \in Nat /\ S \in Nat
  OBVIOUS
<1>2. PICK m : MatchTable(p, s, m) /\ SafeFNMatch(p, s) = m[0][0]
  BY MatcherTable
<1> USE DEF MatchTable
<1> DEFINE T == {i \in 0..P : \A j \in 0..S : m[i][j] => GlobFrom(p, s, i, j)}
<1>3. P \in T
  <2>1. ASSUME NEW j \in 0..S, m[P][j] PROVE GlobFrom(p, s, P, j)
    <3>1. MatchRow(p, j, s, m[P + 1], P)
      BY <1>1, <1>2, <2>1
    <3>2. j = S
      BY <1>1, <3>1 DEF MatchRow
    <3> QED BY <1>1, <3>2, GlobEnd
  <2> QED BY <1>1, <2>1
<1>4. ASSUME NEW i \in 0..(P - 1), i + 1 \in T PROVE i \in T
  <2>1. ASSUME NEW j \in 0..S, m[i][j] PROVE GlobFrom(p, s, i, j)
    <3>1. i \in 0..P /\ i + 1 \in 0..P /\ i < P
      BY <1>1
    <3>2. MatchRow(p, j, s, m[i + 1], i)
      BY <1>2, <2>1, <3>1
    <3>3. \A r \in 0..S : m[i + 1][r] => GlobFrom(p, s, i + 1, r)
      BY <1>4
    <3>4. CASE i + 1 = P /\ p[i + 1] = "*"
      <4>1. S \in 0..S /\ GlobFrom(p, s, i + 1, S)
        BY <1>1, <3>4, GlobEnd
      <4>2. Piece(p, s, j, S, i + 1)
        BY <3>4 DEF Piece
      <4> QED BY <4>1, <4>2, GlobBackwards
    <3>5. CASE j < S /\ p[i + 1] \in {s[j + 1], "?"} /\ m[i + 1][j + 1]
      <4>1. j + 1 \in 0..S /\ GlobFrom(p, s, i + 1, j + 1)
        BY <1>1, <3>3, <3>5
      <4>2. Piece(p, s, j, j + 1, i + 1)
        BY <3>5 DEF Piece
      <4> QED BY <4>1, <4>2, GlobBackwards
    <3>6. ASSUME NEW r \in j..(S - 1), p[i + 1] = "*", m[i + 1][r] PROVE GlobFrom(p, s, i, j)
      <4>1. r \in 0..S /\ GlobFrom(p, s, i + 1, r)
        BY <1>1, <3>3, <3>6
      <4>2. Piece(p, s, j, r, i + 1)
        BY <3>6 DEF Piece
      <4> QED BY <4>1, <4>2, GlobBackwards
    <3> QED BY <3>1, <3>2, <3>4, <3>5, <3>6 DEF MatchRow, OnlyStarLeft, StarStops
  <2> QED BY <1>1, <2>1
<1>5. 0 \in T
  <2> HIDE DEF T
  <2>1. 0..P \subseteq T
    BY <1>1, <1>3, <1>4, DownInduction
  <2> QED BY <1>1, <2>1
<1>6. 0 \in 0..S /\ m[0][0]
  <2>1. m[0][0]
    BY <1>2, Zenon
  <2> QED BY <1>1, <2>1
<1>7. GlobFrom(p, s, 0, 0)
  BY <1>5, <1>6
<1> QED BY <1>7, GlobWhole

(* It misses none, where the pattern has no two stars in a row and the     *)
(* name no star.                                                           *)
THEOREM MatcherComplete ==
  ASSUME NEW C, NEW p \in Seq(C), NEW s \in Seq(C), Glob(p, s),
         ~StarRun(p), ~Contains(s, "*")
  PROVE  SafeFNMatch(p, s)
<1> DEFINE P == Len(p)
           S == Len(s)
<1>1. P \in Nat /\ S \in Nat
  OBVIOUS
<1>2. PICK m : MatchTable(p, s, m) /\ SafeFNMatch(p, s) = m[0][0]
  BY MatcherTable
<1> USE DEF MatchTable
<1> DEFINE T == {i \in 0..P : \A j \in 0..S : GlobFrom(p, s, i, j) => m[i][j]}
<1>3. P \in T
  <2>1. ASSUME NEW j \in 0..S, GlobFrom(p, s, P, j) PROVE m[P][j]
    <3>1. j = S
      BY <1>1, <2>1, GlobEnd
    <3> QED BY <1>1, <1>2, <3>1 DEF MatchRow
  <2> QED BY <1>1, <2>1
<1>4. ASSUME NEW i \in 0..(P - 1), i + 1 \in T PROVE i \in T
  <2>1. ASSUME NEW j \in 0..S, GlobFrom(p, s, i, j) PROVE m[i][j]
    <3>1. i \in 0..P /\ i + 1 \in 0..P /\ i < P
      BY <1>1
    <3>2. \A r \in 0..S : GlobFrom(p, s, i + 1, r) => m[i + 1][r]
      BY <1>4
    <3>3. PICK r \in 0..S : Piece(p, s, j, r, i + 1) /\ GlobFrom(p, s, i + 1, r)
      BY <2>1, GlobForwards
    <3>4. m[i + 1][r]
      BY <3>2, <3>3
    <3>5. SUFFICES MatchRow(p, j, s, m[i + 1], i)
      BY <1>2, <3>1
    <3>6. CASE p[i + 1] # "*"
      <4>1. r = j + 1 /\ j < S /\ p[i + 1] \in {s[j + 1], "?"}
        BY <1>1, <3>3, <3>6 DEF Piece
      <4> QED BY <3>1, <3>4, <4>1 DEF MatchRow
    <3>7. CASE p[i + 1] = "*" /\ i + 1 = P
      <4>1. j < S => p[i + 1] \notin {s[j + 1], "?"}
        BY <1>1, <3>7 DEF Contains
      <4> QED BY <3>1, <3>7, <4>1 DEF MatchRow, OnlyStarLeft
    <3>8. CASE p[i + 1] = "*" /\ i + 1 # P
      <4>1. p[i + 2] # "*" /\ i + 1 \in 0..(P - 1) /\ (i + 1) + 1 = i + 2
        BY <1>1, <3>8 DEF StarRun
      <4>2. PICK q \in 0..S : Piece(p, s, r, q, i + 2)
        BY <3>3, <4>1, GlobForwards
      <4>3. r < S
        BY <1>1, <4>1, <4>2 DEF Piece
      <4>4. j <= r /\ j < S
        BY <1>1, <3>3, <3>8, <4>3 DEF Piece
      <4>5. r \in StarStops(j, S)
        BY <1>1, <4>3, <4>4 DEF StarStops
      <4>6. p[i + 1] \notin {s[j + 1], "?"}
        BY <1>1, <3>8, <4>4 DEF Contains
      <4> QED BY <3>1, <3>4, <3>8, <4>4, <4>5, <4>6 DEF MatchRow
    <3> QED BY <3>6, <3>7, <3>8
  <2> QED BY <1>1, <2>1
<1>5. 0 \in T
  <2> HIDE DEF T
  <2>1. 0..P \subseteq T
    BY <1>1, <1>3, <1>4, DownInduction
  <2> QED BY <1>1, <2>1
<1> QED BY <1>1, <1>2, <1>5, GlobWhole

(* The largest of a nonempty set of positions.                             *)
LEMMA MaxFacts ==
  ASSUME NEW n \in Nat, NEW S, S \subseteq 1..n, S # {}
  PROVE  Max(S) \in S /\ \A y \in S : Max(S) >= y
<1> DEFINE D == {n - x : x \in S}
<1>1. D \subseteq Nat /\ D # {}
  <2>1. \A x \in S : n - x \in Nat
    OBVIOUS
  <2>2. PICK x \in S : TRUE
    OBVIOUS
  <2>3. n - x \in D
    OBVIOUS
  <2> QED BY <2>1, <2>3
<1> HIDE DEF D
<1>2. Min(D) \in D /\ \A y \in D : Min(D) <= y
  BY <1>1, MinFacts
<1> USE DEF D
<1>3. PICK x \in S : Min(D) = n - x
  BY <1>2
<1>4. ASSUME NEW y \in S PROVE x >= y
  <2>1. n - x <= n - y
    BY <1>2, <1>3
  <2> QED BY <2>1
<1>5. \E z \in S : \A y \in S : z >= y
  BY <1>3, <1>4
<1> QED BY <1>5 DEF Max

(* strchr finds the first of a character, strrchr the last. *)
LEMMA StrchrFirst ==
  ASSUME NEW C, NEW text \in Seq(C), NEW c, NEW i \in 1..Len(text), text[i] = c,
         \A k \in 1..(i - 1) : text[k] # c
  PROVE  strchr(text, c) = i
<1> DEFINE I == {k \in 1..Len(text) : text[k] = c}
<1>1. I \subseteq Nat /\ i \in I
  OBVIOUS
<1>2. Min(I) \in I /\ \A y \in I : Min(I) <= y
  <2> HIDE DEF I
  <2> QED BY <1>1, MinFacts
<1>3. Min(I) = i
  <2>1. Min(I) <= i /\ Min(I) \in 1..Len(text) /\ text[Min(I)] = c
    <3>1. Min(I) <= i
      BY <1>1, <1>2
    <3>2. Min(I) \in I
      BY <1>2
    <3> HIDE DEF I
    <3> QED BY <3>1, <3>2 DEF I
  <2> HIDE DEF I
  <2>2. Len(text) \in Nat
    OBVIOUS
  <2> QED BY <2>1, <2>2
<1>4. I # {}
  BY <1>1
<1>5. strchr(text, c) = IF I # {} THEN Min(I) ELSE 0
  BY DEF strchr, SelectInSeq
<1> QED BY <1>3, <1>4, <1>5

(* strchr gives NULL where the character is not in the text.               *)
LEMMA StrchrNone ==
  ASSUME NEW C, NEW text \in Seq(C), NEW c, \A k \in 1..Len(text) : text[k] # c
  PROVE  strchr(text, c) = 0
<1> DEFINE I == {k \in 1..Len(text) : text[k] = c}
<1>1. I = {}
  OBVIOUS
<1>2. strchr(text, c) = IF I # {} THEN Min(I) ELSE 0
  BY DEF strchr, SelectInSeq
<1> QED BY <1>1, <1>2

(* strrchr gives the last place of the character, or NULL.                 *)
LEMMA StrrchrLast ==
  ASSUME NEW C, NEW text \in Seq(C), NEW c, NEW i \in 0..Len(text),
         i > 0 => text[i] = c, \A k \in (i + 1)..Len(text) : text[k] # c
  PROVE  strrchr(text, c) = i
<1> DEFINE I == {k \in 1..Len(text) : text[k] = c}
<1>0. Len(text) \in Nat
  OBVIOUS
<1>1. strrchr(text, c) = IF I # {} THEN Max(I) ELSE 0
  BY DEF strrchr, SelectLastInSeq
<1>2. \A k \in I : k <= i /\ k \in 1..Len(text)
  BY <1>0
<1>3. CASE i = 0
  <2>1. I = {}
    BY <1>0, <1>3
  <2> QED BY <1>1, <1>3, <2>1
<1>4. CASE i > 0
  <2>1. i \in I
    BY <1>4
  <2>2. Max(I) \in I /\ \A y \in I : Max(I) >= y
    <3>1. I \subseteq 1..Len(text) /\ I # {}
      BY <2>1
    <3> HIDE DEF I
    <3> QED BY <1>0, <3>1, MaxFacts
  <2>3. Max(I) >= i /\ Max(I) <= i /\ Max(I) \in Int
    <3>1. Max(I) \in I /\ i \in I
      BY <2>1, <2>2
    <3>2. Max(I) <= i /\ Max(I) \in 1..Len(text)
      BY <1>2, <3>1
    <3>3. Max(I) >= i
      BY <2>2, <3>1
    <3> HIDE DEF I
    <3> QED BY <1>0, <3>2, <3>3
  <2>4. Max(I) = i
    <3> HIDE DEF I
    <3> QED BY <2>3
  <2> QED BY <1>1, <2>1, <2>4
<1> QED BY <1>3, <1>4

(* The rest of a text behind its first part. *)
LEMMA FromBehind ==
  ASSUME NEW C, NEW a \in Seq(C), NEW b \in Seq(C)
  PROVE  /\ From(a \o b, Len(a) + 1) = b
         /\ SubSeq(a \o b, 1, Len(a)) = a
BY BehindFirst DEF From

Inl == <<"-", "i", "n", "l">>

(* "-inl" as a sequence of four characters.                                *)
LEMMA InlSeq ==
  ASSUME NEW C, {"-", "i", "n", "l"} \subseteq C
  PROVE  Inl \in Seq(C) /\ Len(Inl) = 4
BY DEF Inl

(* "-inl" goes from the end of a text, and from nowhere else. *)
LEMMA TrimmedInl ==
  ASSUME NEW C, {"-", "i", "n", "l"} \subseteq C, NEW m \in Seq(C)
  PROVE  TrimInl(m \o Inl) = m
<1> DEFINE b == m \o Inl
<1>0. Inl \in Seq(C) /\ Len(Inl) = 4
  BY InlSeq
<1>1. /\ b \in Seq(C) /\ Len(b) = Len(m) + 4 /\ Len(m) \in Nat
      /\ \A i \in 1..4 : b[Len(m) + i] = Inl[i]
      /\ \A i \in 1..Len(m) : b[i] = m[i]
  BY <1>0, ConcatFacts
<1> HIDE DEF b
<1> DEFINE ri == Reverse(Inl)
           rb == Reverse(b)
<1>2. Len(ri) = 4 /\ ri \in Seq(C) /\ \A i \in 1..4 : ri[i] = Inl[5 - i]
  <2>1. /\ Reverse(Inl) \in Seq(C) /\ Len(Reverse(Inl)) = Len(Inl)
        /\ \A i \in 1..Len(Inl) : Reverse(Inl)[i] = Inl[Len(Inl) - i + 1]
    BY <1>0, ReverseFacts
  <2>2. \A i \in 1..4 : 4 - i + 1 = 5 - i
    OBVIOUS
  <2> QED BY <1>0, <2>1, <2>2
<1>3. Len(rb) = Len(m) + 4 /\ rb \in Seq(C) /\ \A i \in 1..4 : rb[i] = b[Len(m) + (5 - i)]
  BY <1>1 DEF Reverse
<1>4. \A i \in 1..4 : rb[i] = ri[i]
  BY <1>1, <1>2, <1>3
<1> HIDE DEF ri, rb
<1>5. IsPrefix(ri, rb)
  <2>1. Len(ri) <= Len(rb)
    BY <1>1, <1>2, <1>3
  <2>2. SubSeq(ri, 1, Len(ri)) = SubSeq(rb, 1, Len(ri))
    BY <1>1, <1>2, <1>3, <1>4
  <2> QED BY <2>1, <2>2 DEF IsPrefix
<1>6. TrimInl(b) = SubSeq(b, 1, Len(b) - 4)
  BY <1>5 DEF TrimInl, IsSuffix, ri, rb, Inl
<1>7. SubSeq(b, 1, Len(m)) = m
  BY <1>0, FromBehind DEF b
<1> QED BY <1>1, <1>6, <1>7 DEF b

(* Where no directory is, the module name is cut out of the file name: up  *)
(* to the first dot, without a trailing "-inl".                            *)
LEMMA BaseNameCut ==
  ASSUME NEW C, NEW dir \in Seq(C), NEW name \in Seq(C), NEW ending \in Seq(C),
         dir = <<>> \/ dir[Len(dir)] = "/",
         \A i \in 1..Len(name) : name[i] \notin {"/", "."},
         \A i \in 1..Len(ending) : ending[i] # "/",
         ending = <<>> \/ ending[1] = "."
  PROVE  BaseName(dir \o (name \o ending)) = TrimInl(name)
<1> DEFINE base == name \o ending
           fname == dir \o base
<1>1. /\ base \in Seq(C) /\ Len(base) = Len(name) + Len(ending)
      /\ Len(name) \in Nat /\ Len(ending) \in Nat
      /\ \A i \in 1..Len(name) : base[i] = name[i]
      /\ \A i \in 1..Len(ending) : base[Len(name) + i] = ending[i]
  BY ConcatFacts
<1>2. SubSeq(base, 1, Len(name)) = name
  BY FromBehind
<1> HIDE DEF base
<1>3. /\ fname \in Seq(C) /\ Len(fname) = Len(dir) + Len(base)
      /\ Len(dir) \in Nat
      /\ \A i \in 1..Len(dir) : fname[i] = dir[i]
      /\ \A i \in 1..Len(base) : fname[Len(dir) + i] = base[i]
  <2>1. base \in Seq(C)
    BY <1>1
  <2> QED BY ONLY <2>1, dir \in Seq(C), ConcatFacts
<1>4. From(fname, Len(dir) + 1) = base
  BY <1>1, FromBehind
<1> HIDE DEF fname
<1>5. \A i \in 1..Len(base) : base[i] # "/"
  <2> SUFFICES ASSUME NEW i \in 1..Len(base) PROVE base[i] # "/"
    OBVIOUS
  <2>1. CASE i <= Len(name)
    BY <1>1, <2>1
  <2>2. CASE i > Len(name)
    <3>1. i - Len(name) \in 1..Len(ending) /\ Len(name) + (i - Len(name)) = i
      BY <1>1, <2>2
    <3> QED BY <1>1, <3>1
  <2> QED BY <1>1, <2>1, <2>2
<1>6. strrchr(fname, "/") = Len(dir)
  <2>1. Len(dir) > 0 => fname[Len(dir)] = "/"
    BY <1>3
  <2>2. \A k \in (Len(dir) + 1)..Len(fname) : fname[k] # "/"
    <3> SUFFICES ASSUME NEW k \in (Len(dir) + 1)..Len(fname) PROVE fname[k] # "/"
      OBVIOUS
    <3>1. k - Len(dir) \in 1..Len(base) /\ Len(dir) + (k - Len(dir)) = k
      BY <1>1, <1>3
    <3> QED BY <1>3, <1>5, <3>1
  <2>3. Len(dir) \in 0..Len(fname)
    BY <1>1, <1>3
  <2> QED BY <1>3, <2>1, <2>2, <2>3, StrrchrLast
<1>7. (IF strchr(base, ".") = 0 THEN base ELSE SubSeq(base, 1, strchr(base, ".") - 1)) = name
  <2>1. CASE ending = <<>>
    <3>1. \A k \in 1..Len(base) : base[k] # "."
      BY <1>1, <2>1
    <3>2. strchr(base, ".") = 0
      BY <1>1, <3>1, StrchrNone
    <3>3. base = name
      BY <2>1 DEF base
    <3> QED BY <3>2, <3>3
  <2>2. CASE ending # <<>>
    <3>1. Len(ending) >= 1 /\ ending[1] = "."
      BY <1>1, <2>2
    <3>2. Len(name) + 1 \in 1..Len(base) /\ base[Len(name) + 1] = "."
      BY <1>1, <3>1
    <3>3. \A k \in 1..((Len(name) + 1) - 1) : base[k] # "."
      BY <1>1
    <3>4. strchr(base, ".") = Len(name) + 1
      BY <1>1, <3>2, <3>3, StrchrFirst
    <3> QED BY <1>1, <1>2, <3>4
  <2> QED BY <2>1, <2>2
<1>8. BaseName(fname) = TrimInl(name)
  BY <1>4, <1>6, <1>7 DEF BaseName, BaseEnd
<1> QED BY <1>8 DEF fname, base

(* Any directory, any suffix from the first dot on, and "-inl" before it   *)
(* are cut off the name of a module, which is left as it is.               *)
THEOREM BaseNameExact ==
  ASSUME NEW C, {"-", "i", "n", "l"} \subseteq C,
         NEW dir \in Seq(C), NEW module \in Seq(C), NEW ending \in Seq(C),
         dir = <<>> \/ dir[Len(dir)] = "/",
         \A i \in 1..Len(module) : module[i] \notin {"/", "."}, ~IsSuffix(Inl, module),
         \A i \in 1..Len(ending) : ending[i] # "/",
         ending = <<>> \/ ending[1] = "."
  PROVE  /\ BaseName(dir \o (module \o ending)) = module
         /\ BaseName(dir \o ((module \o Inl) \o ending)) = module
<1>1. BaseName(dir \o (module \o ending)) = TrimInl(module)
  BY BaseNameCut
<1>2. TrimInl(module) = module
  BY DEF TrimInl, Inl
<1> DEFINE name == module \o Inl
<1>3. name \in Seq(C) /\ \A i \in 1..Len(name) : name[i] \notin {"/", "."}
  <2>1. Inl \in Seq(C) /\ Len(Inl) = 4 /\ \A i \in 1..4 : Inl[i] \notin {"/", "."}
    BY InlSeq DEF Inl
  <2>2. /\ name \in Seq(C) /\ Len(name) = Len(module) + 4 /\ Len(module) \in Nat
        /\ \A i \in 1..Len(module) : name[i] = module[i]
        /\ \A i \in 1..4 : name[Len(module) + i] = Inl[i]
    <3>1. /\ name \in Seq(C) /\ Len(name) = Len(module) + Len(Inl)
          /\ Len(module) \in Nat /\ Len(Inl) \in Nat
          /\ \A i \in 1..Len(module) : name[i] = module[i]
          /\ \A i \in 1..Len(Inl) : name[Len(module) + i] = Inl[i]
      <4>1. Inl \in Seq(C)
        BY <2>1
      <4> QED BY ONLY <4>1, module \in Seq(C), ConcatFacts
    <3> QED BY <2>1, <3>1
  <2> HIDE DEF name
  <2>3. ASSUME NEW i \in 1..Len(name) PROVE name[i] \notin {"/", "."}
    <3>1. CASE i <= Len(module)
      BY <2>2, <3>1
    <3>2. CASE i > Len(module)
      <4>1. i - Len(module) \in 1..4 /\ Len(module) + (i - Len(module)) = i
        BY <2>2, <3>2
      <4> QED BY <2>1, <2>2, <4>1
    <3> QED BY <2>2, <3>1, <3>2
  <2> QED BY <2>2, <2>3
<1>4. TrimInl(name) = module
  BY TrimmedInl
<1>5. BaseName(dir \o (name \o ending)) = TrimInl(name)
  <2> HIDE DEF name
  <2> QED BY <1>3, BaseNameCut
<1> QED BY <1>1, <1>2, <1>4, <1>5

(* No name over NameChars ends with "-inl": TrimInl leaves it alone.       *)
LEMMA InlNotSuffix ==
  ASSUME NEW m \in Seq(NameChars)
  PROVE  ~IsSuffix(Inl, m)
<1> SUFFICES ASSUME IsSuffix(Inl, m) PROVE FALSE
  OBVIOUS
<1> DEFINE C == {"-", "i", "n", "l"}
           ri == Reverse(Inl)
           rm == Reverse(m)
<1>1. Inl \in Seq(C) /\ Len(Inl) = 4
  BY InlSeq
<1>2. /\ ri \in Seq(C) /\ Len(ri) = 4
      /\ \A i \in 1..4 : ri[i] = Inl[4 - i + 1]
  <2>1. /\ ri \in Seq(C) /\ Len(ri) = Len(Inl)
        /\ \A i \in 1..Len(Inl) : ri[i] = Inl[Len(Inl) - i + 1]
    BY <1>1, ReverseFacts
  <2> QED BY <1>1, <2>1
<1>3. rm \in Seq(NameChars) /\ Len(rm) = Len(m) /\ Len(m) \in Nat
  BY ReverseFacts
<1> HIDE DEF ri, rm, C
<1>4. Len(ri) <= Len(rm) /\ SubSeq(ri, 1, Len(ri)) = SubSeq(rm, 1, Len(ri))
  BY DEF IsSuffix, IsPrefix, ri, rm
<1>5. \A i \in 1..4 : ri[i] = rm[i]
  <2>1. SubSeq(ri, 1, 4) = SubSeq(rm, 1, 4) /\ 4 <= Len(rm)
    BY <1>2, <1>4
  <2>2. ASSUME NEW i \in 1..4 PROVE ri[i] = rm[i]
    <3>1. SubSeq(ri, 1, 4)[i] = ri[i]
      BY <1>2
    <3>2. SubSeq(rm, 1, 4)[i] = rm[i]
      BY <1>3, <2>1
    <3> QED BY <2>1, <3>1, <3>2
  <2> QED BY <2>2
<1>6. \A i \in 1..4 : ri[i] \in NameChars
  BY <1>3, <1>4, <1>2, <1>5
<1>7. ri[1] = "l" /\ ri[2] = "n" /\ ri[3] = "i" /\ ri[4] = "-"
  <2>1. ri[1] = Inl[4] /\ ri[2] = Inl[3] /\ ri[3] = Inl[2] /\ ri[4] = Inl[1]
    BY <1>2
  <2> QED BY <2>1 DEF Inl
<1> QED BY <1>6, <1>7, NameAssumption

(* The three parts of PatternGoverns. *)
LEMMA GovernsWherever ==
  ASSUME pattern \in Seq(PatternChars), matched \in Seq(NameChars)
  PROVE  PatternGoverns
<1> DEFINE C == PatternChars \cup NameChars \cup {"-", "i", "n", "l", ".", "c", "p", "h", "a", "/"}
<1>0. {"-", "i", "n", "l"} \subseteq C /\ PatternChars \subseteq C /\ NameChars \subseteq C
  OBVIOUS
<1>1. pattern \in Seq(C) /\ matched \in Seq(C)
  BY <1>0, SeqMonotonic
<1>2. ~IsSuffix(Inl, matched)
  BY InlNotSuffix
<1>3. \A i \in 1..Len(matched) : matched[i] \notin {"/", "."}
  BY NameAssumption
<1>7. /\ "-" \in C /\ "i" \in C /\ "n" \in C /\ "l" \in C /\ "." \in C
      /\ "c" \in C /\ "p" \in C /\ "h" \in C /\ "a" \in C /\ "/" \in C
  OBVIOUS
<1>4. ASSUME NEW file \in Files(matched) PROVE BaseName(file) = matched
  <2>1. PICK dir \in Directories, suffix \in FileEndings : file = (dir \o matched) \o suffix
    BY <1>4 DEF Files
  <2> HIDE DEF C
  <2>2. dir \in Seq(C) /\ (dir = <<>> \/ dir[Len(dir)] = "/")
    <3>1. dir = <<>> \/ dir = <<"a", "/">> \/ dir = <<"/", "a", ".", "a", "/">>
      BY DEF Directories
    <3>2. CASE dir = <<>>
      BY <3>2
    <3>3. CASE dir = <<"a", "/">>
      BY <1>7, <3>3
    <3>4. CASE dir = <<"/", "a", ".", "a", "/">>
      BY <1>7, <3>4
    <3> QED BY <3>1, <3>2, <3>3, <3>4
  <2>3. \/ /\ suffix \in Seq(C) /\ (suffix = <<>> \/ suffix[1] = ".")
           /\ \A i \in 1..Len(suffix) : suffix[i] # "/"
        \/ suffix = <<"-", "i", "n", "l", ".", "h">>
    <3>1. \/ suffix = <<>> \/ suffix = <<".", "c", "c">> \/ suffix = <<".", "p", ".", "h">>
          \/ suffix = <<"-", "i", "n", "l", ".", "h">>
      BY DEF FileEndings
    <3>2. CASE suffix = <<>>
      BY <3>2
    <3>3. CASE suffix = <<".", "c", "c">>
      BY <1>7, <3>3
    <3>4. CASE suffix = <<".", "p", ".", "h">>
      BY <1>7, <3>4
    <3> QED BY <3>1, <3>2, <3>3, <3>4
  <2>4. ASSUME NEW ending \in Seq(C) PROVE (dir \o matched) \o ending = dir \o (matched \o ending)
    <3>1. dir \in Seq(C) /\ matched \in Seq(C) /\ ending \in Seq(C)
      BY <1>1, <2>2
    <3> QED BY ONLY <3>1, ConcatAssociative
  <2>5. CASE suffix # <<"-", "i", "n", "l", ".", "h">>
    <3>1. /\ suffix \in Seq(C) /\ (suffix = <<>> \/ suffix[1] = ".")
          /\ \A i \in 1..Len(suffix) : suffix[i] # "/"
      BY <2>3, <2>5
    <3>2. BaseName(dir \o (matched \o suffix)) = matched
      BY <1>0, <1>1, <1>2, <1>3, <2>2, <3>1, BaseNameExact
    <3> QED BY <2>1, <2>4, <3>1, <3>2
  <2>6. CASE suffix = <<"-", "i", "n", "l", ".", "h">>
    <3> DEFINE ending == <<".", "h">>
    <3>1. ending \in Seq(C) /\ Len(ending) = 2 /\ ending[1] = "." /\ \A i \in 1..2 : ending[i] # "/"
      BY <1>7
    <3>3. Inl \in Seq(C) /\ Len(Inl) = 4
      BY <1>0, InlSeq
    <3>2. suffix = Inl \o ending /\ Inl \o ending \in Seq(C)
      <4> DEFINE both == Inl \o ending
      <4>1. /\ both \in Seq(C) /\ Len(both) = 6
            /\ \A i \in 1..4 : both[i] = Inl[i]
            /\ \A i \in 1..2 : both[4 + i] = ending[i]
        <5> HIDE DEF ending
        <5>1. /\ both \in Seq(C) /\ Len(both) = Len(Inl) + Len(ending)
              /\ \A i \in 1..Len(Inl) : both[i] = Inl[i]
              /\ \A i \in 1..Len(ending) : both[Len(Inl) + i] = ending[i]
          <6>1. Inl \in Seq(C) /\ ending \in Seq(C)
            BY <3>1, <3>3
          <6> QED BY ONLY <6>1, ConcatFacts
        <5> QED BY <3>1, <3>3, <5>1
      <4>2. suffix \in Seq(C) /\ Len(suffix) = 6
        BY <1>7, <2>6
      <4>3. ASSUME NEW i \in 1..6 PROVE both[i] = suffix[i]
        <5>1. i \in 1..4 => both[i] = suffix[i]
          <6> HIDE DEF both
          <6> QED BY <4>1, <2>6 DEF Inl
        <5>2. both[5] = "." /\ both[6] = "h"
          <6>1. both[4 + 1] = ending[1] /\ both[4 + 2] = ending[2]
            <7> HIDE DEF both, ending
            <7> QED BY <4>1
          <6> HIDE DEF both
          <6> QED BY <6>1
        <5> HIDE DEF both
        <5> QED BY <5>1, <5>2, <2>6
      <4> HIDE DEF both
      <4>4. both = suffix
        BY <4>1, <4>2, <4>3, SeqEqual
      <4> QED BY <4>1, <4>4 DEF both
    <3> HIDE DEF ending
    <3>4. matched \o (Inl \o ending) = (matched \o Inl) \o ending
      <4>1. matched \in Seq(C) /\ Inl \in Seq(C) /\ ending \in Seq(C)
        BY <1>1, <3>1, <3>3
      <4> QED BY ONLY <4>1, ConcatAssociative
    <3>5. BaseName(dir \o ((matched \o Inl) \o ending)) = matched
      BY <1>0, <1>1, <1>2, <1>3, <2>2, <3>1, BaseNameExact
    <3> QED BY <2>1, <2>4, <3>2, <3>4, <3>5
  <2> QED BY <2>5, <2>6
<1> HIDE DEF C
<1>5. SafeFNMatch(pattern, matched) => Glob(pattern, matched)
  BY <1>1, MatcherSound
<1>6. Glob(pattern, matched) => \/ SafeFNMatch(pattern, matched)
                                \/ StarRun(pattern) \/ Contains(matched, "*")
  BY <1>1, MatcherComplete
<1> QED BY <1>4, <1>5, <1>6 DEF PatternGoverns

(* PatternGoverns for every pattern and every name. *)
THEOREM PatternsGovern == VModuleInit /\ [][VModuleNext]_vmoduleVars => []PatternGoverns
<1> DEFINE Texts == pattern \in Seq(PatternChars) /\ matched \in Seq(NameChars)
<1>1. VModuleInit => Texts
  BY DEF VModuleInit
<1>2. Texts /\ [VModuleNext]_vmoduleVars => Texts'
  <2> SUFFICES ASSUME Texts, [VModuleNext]_vmoduleVars PROVE Texts'
    OBVIOUS
  <2>1. CASE GrowPattern
    BY <2>1 DEF GrowPattern
  <2>2. CASE GrowString
    BY <2>2 DEF GrowString
  <2>3. CASE GrowFlag
    BY <2>3 DEF GrowFlag
  <2>4. CASE UNCHANGED vmoduleVars
    BY <2>4 DEF vmoduleVars
  <2> QED BY <2>1, <2>2, <2>3, <2>4 DEF VModuleNext
<1>3. Texts => PatternGoverns
  BY GovernsWherever
<1> QED BY <1>1, <1>2, <1>3, PTL

(* The only sequence of the elements of an empty set.                      *)
LEMMA SeqOfNone == SetToSeq({}) = <<>>
<1>1. Cardinality({}) = 0
  BY FS_EmptySet
<1>2. <<>> \in [1..0 -> {}] /\ IsInjective(<<>>)
  BY DEF IsInjective
<1>3. ASSUME NEW f \in [1..0 -> {}] PROVE f = <<>>
  <2>1. f \in Seq({}) /\ Len(f) = 0
    OBVIOUS
  <2> QED BY <2>1, EmptySeq
<1> QED BY <1>1, <1>2, <1>3 DEF SetToSeq

(* The only sequence of the elements of a set of one.                      *)
LEMMA SeqOfOne ==
  ASSUME NEW x
  PROVE  SetToSeq({x}) = <<x>>
<1>1. Cardinality({x}) = 1
  BY FS_Singleton
<1>2. <<x>> \in [1..1 -> {x}] /\ IsInjective(<<x>>)
  BY DEF IsInjective
<1>3. \A f \in [1..1 -> {x}] : f = <<x>>
  OBVIOUS
<1> QED BY <1>1, <1>2, <1>3 DEF SetToSeq

(* strchr returns a position of the character, or 0. *)
LEMMA StrchrRange ==
  ASSUME NEW C, NEW text \in Seq(C), NEW c
  PROVE  /\ strchr(text, c) \in 0..Len(text)
         /\ strchr(text, c) > 0 => text[strchr(text, c)] = c
<1> DEFINE I == {k \in 1..Len(text) : text[k] = c}
<1>1. strchr(text, c) = IF I # {} THEN Min(I) ELSE 0
  BY DEF strchr, SelectInSeq
<1>2. CASE I = {}
  BY <1>1, <1>2
<1>3. CASE I # {}
  <2>1. Min(I) \in I
    <3>1. I \subseteq Nat
      OBVIOUS
    <3> HIDE DEF I
    <3> QED BY <1>3, <3>1, MinFacts
  <2>2. strchr(text, c) \in I
    BY <1>1, <1>3, <2>1
  <2> HIDE <1>1
  <2>3. strchr(text, c) \in 1..Len(text) /\ text[strchr(text, c)] = c
    BY <2>2
  <2> QED BY <2>3
<1> QED BY <1>2, <1>3

(* Length and elements of the rest of a text.                              *)
LEMMA FromFacts ==
  ASSUME NEW C, NEW text \in Seq(C), NEW i \in 1..(Len(text) + 1)
  PROVE  /\ From(text, i) \in Seq(C) /\ Len(From(text, i)) = Len(text) - i + 1
         /\ \A k \in 1..(Len(text) - i + 1) : From(text, i)[k] = text[i + k - 1]
BY DEF From

(* The rest of the rest of a text.                                         *)
LEMMA FromFrom ==
  ASSUME NEW C, NEW text \in Seq(C), NEW i \in 1..(Len(text) + 1),
         NEW j \in 1..(Len(text) - i + 2)
  PROVE  From(From(text, i), j) = From(text, i + j - 1)
<1> DEFINE a == From(text, i)
           b == From(a, j)
           d == From(text, i + j - 1)
<1>0. Len(text) \in Nat
  OBVIOUS
<1>1. /\ a \in Seq(C) /\ Len(a) = Len(text) - i + 1
      /\ \A k \in 1..(Len(text) - i + 1) : a[k] = text[i + k - 1]
  BY FromFacts
<1> HIDE DEF a
<1>2. /\ b \in Seq(C) /\ Len(b) = Len(a) - j + 1
      /\ \A k \in 1..(Len(a) - j + 1) : b[k] = a[j + k - 1]
  <2>1. j \in 1..(Len(a) + 1)
    BY <1>1
  <2> QED BY <1>1, <2>1, FromFacts
<1>3. /\ d \in Seq(C) /\ Len(d) = Len(text) - (i + j - 1) + 1
      /\ \A k \in 1..(Len(text) - (i + j - 1) + 1) : d[k] = text[(i + j - 1) + k - 1]
  <2>1. i + j - 1 \in 1..(Len(text) + 1)
    BY <1>0
  <2> QED BY <2>1, FromFacts
<1> HIDE DEF b, d
<1>4. ASSUME NEW k \in 1..Len(b) PROVE b[k] = d[k]
  <2>1. k \in 1..(Len(a) - j + 1) /\ j + k - 1 \in 1..(Len(text) - i + 1)
        /\ k \in 1..(Len(text) - (i + j - 1) + 1)
    BY <1>0, <1>1, <1>2
  <2>2. b[k] = a[j + k - 1] /\ a[j + k - 1] = text[i + (j + k - 1) - 1]
    BY <1>1, <1>2, <2>1
  <2>3. d[k] = text[(i + j - 1) + k - 1]
    BY <1>3, <2>1
  <2>4. i + (j + k - 1) - 1 = (i + j - 1) + k - 1
    BY <1>0
  <2> QED BY <2>2, <2>3, <2>4
<1>5. b = d
  <2>1. Len(b) = Len(d)
    BY <1>0, <1>1, <1>2, <1>3
  <2> QED BY <1>2, <1>3, <1>4, <2>1, SeqEqual
<1> QED BY <1>5 DEF a, b, d

(* A comma is no part of a number, so that sscanf stops there.             *)
LEMMA CommaEndsNumbers == ~IsDigit(Comma) /\ Comma \notin {"-", "+"}
<1> DEFINE D == {"0", "1", "2", "3", "4", "5", "6", "7", "8", "9"}
<1>1. \A i \in DOMAIN Digits : Digits[i] \in D
  BY DEF Digits
<1>2. Comma \notin D /\ Comma \notin {"-", "+"}
  BY Zenon DEF Comma
<1> QED BY <1>1, <1>2, Zenon DEF IsDigit

(* The digits of a number are where they are, whatever follows a ','. *)
LEMMA DigitsStop ==
  ASSUME NEW C, NEW l \in Seq(C), NEW r \in Seq(C), r # <<>>, r[1] = Comma
  PROVE  LeadingDigits(l \o r) = LeadingDigits(l)
<1> DEFINE t == l \o r
           I(u) == {k \in 1..Len(u) : ~IsDigit(u[k])}
           stop(u) == IF I(u) # {} THEN Min(I(u)) ELSE 0
<1>0. ~IsDigit(Comma)
  BY CommaEndsNumbers
<1>1. /\ t \in Seq(C) /\ Len(t) = Len(l) + Len(r)
      /\ Len(l) \in Nat /\ Len(r) \in Nat
      /\ \A i \in 1..Len(l) : t[i] = l[i]
      /\ \A i \in 1..Len(r) : t[Len(l) + i] = r[i]
  BY ConcatFacts
<1>2. SubSeq(t, 1, Len(l)) = l
  BY FromBehind
<1> HIDE DEF t
<1>3. ASSUME NEW u
      PROVE  LeadingDigits(u) = IF stop(u) = 0 THEN u ELSE SubSeq(u, 1, stop(u) - 1)
  BY DEF LeadingDigits, SelectInSeq
<1>4. Len(r) >= 1 /\ Len(l) + 1 \in I(t)
  <2>1. Len(r) >= 1
    OBVIOUS
  <2>2. t[Len(l) + 1] = Comma
    BY <1>1, <2>1
  <2> QED BY <1>0, <1>1, <2>1, <2>2
<1>5. I(l) \subseteq Nat /\ I(t) \subseteq Nat
  OBVIOUS
<1>6. ASSUME NEW u, I(u) \subseteq Nat, I(u) # {}
      PROVE  Min(I(u)) \in I(u) /\ \A k \in I(u) : Min(I(u)) <= k
  <2> HIDE DEF I
  <2> QED BY <1>6, MinFacts
<1>7. Min(I(t)) \in I(t) /\ \A k \in I(t) : Min(I(t)) <= k
  <2> HIDE DEF I
  <2> QED BY <1>4, <1>5, <1>6
<1>8. \A k \in 1..Len(l) : k \in I(l) <=> k \in I(t)
  BY <1>1
<1>9. CASE I(l) = {}
  <2>1. Min(I(t)) = Len(l) + 1
    <3>1. Min(I(t)) \in 1..Len(t) /\ Min(I(t)) \notin 1..Len(l)
      <4>1. Min(I(t)) \in 1..Len(t)
        BY <1>7
      <4> HIDE DEF I
      <4> QED BY <1>7, <1>8, <1>9, <4>1
    <3>2. Min(I(t)) <= Len(l) + 1
      <4> HIDE DEF I
      <4> QED BY <1>4, <1>7
    <3> HIDE DEF I
    <3> QED BY <1>1, <3>1, <3>2
  <2>2. stop(t) = Len(l) + 1 /\ stop(l) = 0
    <3> HIDE DEF I
    <3> QED BY <1>4, <1>9, <2>1
  <2> HIDE DEF stop
  <2>3. LeadingDigits(t) = SubSeq(t, 1, (Len(l) + 1) - 1) /\ LeadingDigits(l) = l
    BY <1>1, <1>3, <2>2
  <2> QED BY <1>1, <1>2, <2>3 DEF t
<1>10. CASE I(l) # {}
  <2>1. Min(I(l)) \in I(l) /\ \A k \in I(l) : Min(I(l)) <= k
    <3> HIDE DEF I
    <3> QED BY <1>5, <1>6, <1>10
  <2>2. Min(I(l)) \in 1..Len(l)
    BY <2>1
  <2>3. Min(I(t)) \in Nat
    <3> HIDE DEF I
    <3> QED BY <1>5, <1>7
  <2>4. Min(I(t)) = Min(I(l))
    <3> HIDE DEF I
    <3>1. Min(I(l)) \in I(t)
      BY <1>8, <2>1, <2>2
    <3>2. Min(I(t)) <= Min(I(l))
      BY <1>7, <3>1
    <3>3. Min(I(t)) \in 1..Len(l)
      <4>1. Min(I(t)) # 0
        BY <1>7 DEF I
      <4> QED BY <1>1, <2>2, <2>3, <3>2, <4>1
    <3>4. Min(I(l)) <= Min(I(t))
      BY <1>7, <1>8, <2>1, <3>3
    <3> QED BY <2>2, <2>3, <3>2, <3>4
  <2> DEFINE m == Min(I(l))
  <2>5. stop(t) = m /\ stop(l) = m
    <3> HIDE DEF I
    <3> QED BY <1>4, <1>10, <2>4
  <2>6. m \in 1..Len(l)
    BY <2>2
  <2> HIDE DEF stop, m
  <2>7. LeadingDigits(t) = SubSeq(t, 1, m - 1) /\ LeadingDigits(l) = SubSeq(l, 1, m - 1)
    <3>1. m # 0
      BY <1>1, <2>6
    <3>2. stop(t) # 0 /\ stop(l) # 0
      BY <2>5, <3>1
    <3>3. LeadingDigits(t) = SubSeq(t, 1, stop(t) - 1) /\ LeadingDigits(l) = SubSeq(l, 1, stop(l) - 1)
      BY <1>3, <3>2, Zenon
    <3> QED BY <2>5, <3>3
  <2>8. SubSeq(t, 1, m - 1) = SubSeq(l, 1, m - 1)
    <3> DEFINE x == SubSeq(t, 1, m - 1)
               y == SubSeq(l, 1, m - 1)
    <3>1. x \in Seq(C) /\ Len(x) = m - 1 /\ \A k \in 1..(m - 1) : x[k] = t[k]
      BY <1>1, <2>6
    <3>2. y \in Seq(C) /\ Len(y) = m - 1 /\ \A k \in 1..(m - 1) : y[k] = l[k]
      BY <1>1, <2>6
    <3> HIDE DEF x, y
    <3>3. \A k \in 1..(m - 1) : x[k] = y[k]
      BY <1>1, <2>6, <3>1, <3>2
    <3>4. x = y
      BY <3>1, <3>2, <3>3, SeqEqual
    <3> QED BY <3>4 DEF x, y
  <2> QED BY <2>7, <2>8 DEF t
<1> QED BY <1>9, <1>10

(* sscanf reads the same number whether the flag ends there or a ',' and   *)
(* more entries follow.                                                    *)
LEMMA ScanStops ==
  ASSUME NEW C, NEW l \in Seq(C), NEW r \in Seq(C), r # <<>>, r[1] = Comma
  PROVE  ScanInt(l \o r) = ScanInt(l)
<1>1. CASE l = <<>>
  <2>1. l \o r = r
    BY <1>1
  <2>2. ~Signed(l) /\ ~Signed(l \o r)
    BY <1>1, <2>1, CommaEndsNumbers DEF Signed
  <2> QED BY <2>2, DigitsStop DEF ScanInt
<1>2. CASE l # <<>>
  <2> DEFINE t == l \o r
  <2>1. /\ t \in Seq(C) /\ Len(t) = Len(l) + Len(r)
        /\ Len(l) \in Nat /\ Len(r) \in Nat
        /\ \A i \in 1..Len(l) : t[i] = l[i]
        /\ \A i \in 1..Len(r) : t[Len(l) + i] = r[i]
    BY ConcatFacts
  <2>2. Len(l) >= 1
    BY <1>2
  <2>3. t[1] = l[1] /\ t # <<>>
    <3> HIDE DEF t
    <3> QED BY <2>1, <2>2
  <2>4. Signed(t) <=> Signed(l)
    <3> HIDE DEF t
    <3> QED BY <1>2, <2>3 DEF Signed
  <2> DEFINE h == <<l[1]>>
             q == From(l, 2)
  <2>5. h \in Seq(C) /\ Len(h) = 1 /\ q \in Seq(C)
    <3>1. 2 \in 1..(Len(l) + 1) /\ l[1] \in C
      BY <2>1, <2>2
    <3> QED BY <3>1, FromFacts
  <2>6. l = h \o q
    <3>1. /\ q \in Seq(C) /\ Len(q) = Len(l) - 1
          /\ \A k \in 1..(Len(l) - 1) : q[k] = l[1 + k]
      <4>1. 2 \in 1..(Len(l) + 1)
        BY <2>1, <2>2
      <4>2. /\ q \in Seq(C) /\ Len(q) = Len(l) - 2 + 1
            /\ \A k \in 1..(Len(l) - 2 + 1) : q[k] = l[2 + k - 1]
        BY <4>1, FromFacts
      <4> HIDE DEF q
      <4>3. Len(l) - 2 + 1 = Len(l) - 1 /\ \A k \in 1..(Len(l) - 1) : 2 + k - 1 = 1 + k
        BY <2>1
      <4> QED BY <4>2, <4>3
    <3> HIDE DEF q
    <3>2. /\ h \o q \in Seq(C) /\ Len(h \o q) = Len(l)
          /\ \A k \in 1..Len(l) : (h \o q)[k] = l[k]
      BY <2>1, <2>2, <2>5, <3>1
    <3> HIDE DEF h
    <3> QED BY <3>2, SeqEqual
  <2>7. From(t, 2) = q \o r
    <3> HIDE DEF h, q
    <3>1. t = h \o (q \o r)
      BY <2>5, <2>6, ConcatAssociative
    <3>2. q \o r \in Seq(C)
      BY <2>5
    <3>3. From(h \o (q \o r), Len(h) + 1) = q \o r
      <4> DEFINE z == q \o r
      <4> HIDE DEF z
      <4>1. z \in Seq(C)
        BY <3>2 DEF z
      <4> QED BY <2>5, <4>1, FromBehind DEF z
    <3> HIDE DEF t
    <3> QED BY <2>5, <3>1, <3>3
  <2>8. LeadingDigits(q \o r) = LeadingDigits(q) /\ LeadingDigits(t) = LeadingDigits(l)
    <3> HIDE DEF h, q
    <3> QED BY <2>5, DigitsStop
  <2> HIDE DEF t
  <2>9. ScanInt(t) = ScanInt(l)
    BY <2>3, <2>4, <2>7, <2>8 DEF ScanInt
  <2> QED BY <2>9 DEF t
<1> QED BY <1>1, <1>2

(* The entries ParseVmodule puts on the list for one pattern and level. *)
Read(patternText, levelText) ==
  SetToSeq({[module_pattern |-> patternText, vlog_level |-> v] : v \in EntryLevel(levelText)})

(* DecimalValue gives a number for any digits.                                  *)
LEMMA DecimalInt ==
  ASSUME NEW C, NEW digits \in Seq(C), \A i \in 1..Len(digits) : IsDigit(digits[i])
  PROVE  DecimalValue(digits) \in Int
<1>1. PICK v \in [0..Len(digits) -> Int] : DecimalValue(digits) = v[0]
  BY DecimalTable
<1> QED BY <1>1

(* sscanf reads no number or one. *)
LEMMA ScanOne ==
  ASSUME NEW C, NEW text \in Seq(C)
  PROVE  ScanInt(text) = {} \/ \E v \in Int : ScanInt(text) = {v}
<1> DEFINE u == IF Signed(text) THEN From(text, 2) ELSE text
           d == LeadingDigits(u)
<1>1. u \in Seq(C)
  <2>1. Signed(text) => 2 \in 1..(Len(text) + 1)
    BY DEF Signed
  <2> QED BY <2>1, FromFacts
<1> HIDE DEF u
<1>2. d \in Seq(C) /\ \A i \in 1..Len(d) : IsDigit(d[i])
  <2> DEFINE I == {k \in 1..Len(u) : ~IsDigit(u[k])}
             m == Min(I)
  <2>1. d = IF (IF I # {} THEN m ELSE 0) = 0 THEN u
            ELSE SubSeq(u, 1, (IF I # {} THEN m ELSE 0) - 1)
    BY DEF LeadingDigits, SelectInSeq
  <2>2. Len(u) \in Nat
    BY <1>1
  <2>3. CASE I = {}
    <3>1. \A k \in 1..Len(u) : IsDigit(u[k])
      BY <2>3
    <3> QED BY <1>1, <2>1, <2>3, <3>1
  <2>4. CASE I # {}
    <3>1. m \in I /\ \A k \in I : m <= k
      <4>1. I \subseteq Nat
        OBVIOUS
      <4> HIDE DEF I
      <4> QED BY <2>4, <4>1, MinFacts
    <3> HIDE DEF m
    <3>2. m \in 1..Len(u)
      BY <3>1
    <3>3. \A k \in 1..(m - 1) : IsDigit(u[k])
      <4> SUFFICES ASSUME NEW k \in 1..(m - 1), ~IsDigit(u[k]) PROVE FALSE
        OBVIOUS
      <4>1. k \in I
        BY <2>2, <3>2
      <4>2. m <= k
        BY <3>1, <4>1
      <4> QED BY <2>2, <3>2, <4>2
    <3>4. d = SubSeq(u, 1, m - 1)
      <4> HIDE DEF I, d
      <4> QED BY <2>1, <2>2, <2>4, <3>2
    <3>5. /\ SubSeq(u, 1, m - 1) \in Seq(C) /\ Len(SubSeq(u, 1, m - 1)) = m - 1
          /\ \A k \in 1..(m - 1) : SubSeq(u, 1, m - 1)[k] = u[k]
      BY <1>1, <2>2, <3>2
    <3> HIDE DEF d, I
    <3> QED BY <3>3, <3>4, <3>5
  <2> QED BY <2>3, <2>4
<1>3. DecimalValue(d) \in Int
  <2> HIDE DEF d
  <2> QED BY <1>2, DecimalInt
<1>4. ScanInt(text) = IF d = <<>> THEN {}
                      ELSE {IF Signed(text) /\ text[1] = "-" THEN 0 - DecimalValue(d) ELSE DecimalValue(d)}
  BY DEF ScanInt, u
<1> HIDE DEF d
<1> DEFINE z == IF Signed(text) /\ text[1] = "-" THEN 0 - DecimalValue(d) ELSE DecimalValue(d)
<1>5. z \in Int
  BY <1>3
<1> QED BY <1>4, <1>5

(* What the parser makes of one entry is a list of patterns and numbers.   *)
LEMMA ReadTypes ==
  ASSUME NEW C, NEW p \in Seq(C), NEW l \in Seq(C)
  PROVE  Read(p, l) \in Seq([module_pattern: Seq(C), vlog_level: Int])
<1>1. CASE ScanInt(l) = {}
  <2>1. {[module_pattern |-> p, vlog_level |-> v] : v \in {}} = {}
    OBVIOUS
  <2>2. Read(p, l) = <<>>
    BY <1>1, <2>1, SeqOfNone, Zenon DEF Read, EntryLevel
  <2> QED BY <2>2
<1>2. ASSUME NEW v \in Int, ScanInt(l) = {v}
      PROVE  Read(p, l) \in Seq([module_pattern: Seq(C), vlog_level: Int])
  <2> DEFINE e == [module_pattern |-> p, vlog_level |-> v]
  <2>1. {[module_pattern |-> p, vlog_level |-> w] : w \in {v}} = {e}
    OBVIOUS
  <2>2. e \in [module_pattern: Seq(C), vlog_level: Int]
    OBVIOUS
  <2>3. Read(p, l) = <<e>>
    BY <1>2, <2>1, SeqOfOne DEF Read, EntryLevel
  <2> HIDE DEF e
  <2> QED BY <2>2, <2>3
<1>3. ScanInt(l) = {} \/ \E v \in Int : ScanInt(l) = {v}
  BY ScanOne
<1> QED BY <1>1, <1>2, <1>3, Zenon

(* One step of the parser's loop, behind i characters of the text. *)
ParserStep(text, e, i) ==
  LET rest == From(text, i + 1)
      sep == strchr(rest, "=")
      comma == strchr(From(rest, sep), Comma)
  IN IF sep = 0 THEN <<>>
     ELSE Read(SubSeq(rest, 1, sep - 1), From(rest, sep + 1))
            \o IF comma = 0 THEN <<>> ELSE e[i + sep - 1 + comma]

ParserTable(text, A, e) ==
  e \in [0..Len(text) -> A] /\ \A i \in 0..Len(text) : e[i] = ParserStep(text, e, i)

\* It goes on further back in the text.
LEMMA ParserAdvances ==
  ASSUME NEW C, NEW text \in Seq(C), NEW i \in 0..Len(text),
         NEW rest, rest = From(text, i + 1),
         NEW sep, sep = strchr(rest, "="), sep # 0,
         NEW comma, comma = strchr(From(rest, sep), Comma)
  PROVE  /\ rest \in Seq(C) /\ sep \in 1..Len(rest)
         /\ SubSeq(rest, 1, sep - 1) \in Seq(C) /\ From(rest, sep + 1) \in Seq(C)
         /\ comma # 0 => i + sep - 1 + comma \in (i + 1)..Len(text)
<1>0. Len(text) \in Nat /\ i + 1 \in 1..(Len(text) + 1)
  OBVIOUS
<1>1. rest \in Seq(C) /\ Len(rest) = Len(text) - i
  <2>1. From(text, i + 1) \in Seq(C) /\ Len(From(text, i + 1)) = Len(text) - (i + 1) + 1
    BY <1>0, FromFacts
  <2> QED BY <1>0, <2>1
<1>2. sep \in 1..Len(rest) /\ rest[sep] = "="
  <2>1. sep \in 0..Len(rest) /\ (sep > 0 => rest[sep] = "=")
    BY <1>1, StrchrRange
  <2> QED BY <2>1
<1>3. SubSeq(rest, 1, sep - 1) \in Seq(C)
  BY <1>1, <1>2
<1>4. From(rest, sep + 1) \in Seq(C)
  <2>1. sep + 1 \in 1..(Len(rest) + 1)
    BY <1>2
  <2> QED BY <1>1, <2>1, FromFacts
<1>5. comma # 0 => i + sep - 1 + comma \in (i + 1)..Len(text)
  <2> DEFINE t == From(rest, sep)
  <2>1. /\ t \in Seq(C) /\ Len(t) = Len(rest) - sep + 1
    <3>1. sep \in 1..(Len(rest) + 1)
      BY <1>2
    <3> QED BY <1>1, <3>1, FromFacts
  <2> HIDE DEF t
  <2>2. comma \in 0..Len(t)
    BY <2>1, StrchrRange DEF t
  <2>3. sep \in Int /\ 1 <= sep /\ i \in Int /\ Len(t) = Len(text) - i - sep + 1
    BY <1>0, <1>1, <1>2, <2>1
  <2>4. comma \in Int /\ 0 <= comma /\ comma <= Len(text) - i - sep + 1
    BY <1>0, <2>2, <2>3
  <2> QED BY ONLY <1>0, <2>3, <2>4
<1> QED BY <1>1, <1>2, <1>3, <1>4, <1>5

(* The parser's table exists, and its first field is the list. *)
LEMMA ParserTableExists ==
  ASSUME NEW C, NEW text \in Seq(C)
  PROVE  \E e : /\ ParserTable(text, Seq([module_pattern: Seq(C), vlog_level: Int]), e)
                /\ ParseVmodule(text) = e[0]
<1> DEFINE n == Len(text)
           A == Seq([module_pattern: Seq(C), vlog_level: Int])
           Eq(e) == e = [i \in 0..n |->
             LET rest == From(text, i + 1)
                 sep == strchr(rest, "=")
                 levels == EntryLevel(From(rest, sep + 1))
                 comma == strchr(From(rest, sep), Comma)
             IN IF sep = 0 THEN <<>>
                ELSE SetToSeq({[module_pattern |-> SubSeq(rest, 1, sep - 1),
                                vlog_level |-> v] : v \in levels})
                       \o IF comma = 0 THEN <<>> ELSE e[i + sep - 1 + comma]]
           step == [i \in 0..n |-> [e \in [0..n -> A] |-> ParserStep(text, e, i)]]
<1>1. n \in Nat /\ A # {}
  <2> HIDE DEF n
  <2>1. n \in Nat
    BY DEF n
  <2>2. <<>> \in A
    OBVIOUS
  <2> HIDE DEF A
  <2> QED BY <2>1, <2>2
<1>2. ASSUME NEW e, Eq(e)
      PROVE  /\ e = [i \in 0..n |-> e[i]]
             /\ \A i \in 0..n : e[i] = ParserStep(text, e, i)
  <2>1. DOMAIN e = 0..n /\ e = [i \in 0..n |-> e[i]]
    BY <1>2, Zenon
  <2>2. ASSUME NEW i \in 0..n PROVE e[i] = ParserStep(text, e, i)
    BY <1>2, Zenon DEF ParserStep, Read
  <2> QED BY <2>1, <2>2
<1>3. ASSUME NEW e \in [0..n -> A], \A i \in 0..n : e[i] = ParserStep(text, e, i)
      PROVE  Eq(e)
  <2>1. e = [i \in 0..n |-> e[i]]
    BY Zenon
  <2>2. ASSUME NEW i \in 0..n PROVE e[i] = ParserStep(text, e, i)
    BY <1>3, Zenon
  <2> QED BY <2>1, <2>2, Zenon DEF ParserStep, Read
<1> HIDE DEF Eq, n, A
<1>4. \A i \in 0..n, e \in [0..n -> A] : ParserStep(text, e, i) \in A
  <2> SUFFICES ASSUME NEW i \in 0..n, NEW e \in [0..n -> A]
               PROVE  ParserStep(text, e, i) \in A
    OBVIOUS
  <2> DEFINE rest == From(text, i + 1)
             sep == strchr(rest, "=")
             comma == strchr(From(rest, sep), Comma)
             p == SubSeq(rest, 1, sep - 1)
             l == From(rest, sep + 1)
             more == IF comma = 0 THEN <<>> ELSE e[i + sep - 1 + comma]
  <2>1. ParserStep(text, e, i) = IF sep = 0 THEN <<>> ELSE Read(p, l) \o more
    BY Zenon DEF ParserStep
  <2>2. <<>> \in A
    BY DEF A
  <2>3. ASSUME sep # 0 PROVE Read(p, l) \o more \in A
    <3>1. /\ p \in Seq(C) /\ l \in Seq(C)
          /\ comma # 0 => i + sep - 1 + comma \in (i + 1)..n
      <4> HIDE DEF rest, sep, comma
      <4> QED BY <2>3, ParserAdvances DEF n, rest, sep, comma
    <3> HIDE DEF rest, sep, comma, p, l
    <3>2. Read(p, l) \in A
      BY <3>1, ReadTypes DEF A
    <3>3. more \in A
      <4>1. comma # 0 => i + sep - 1 + comma \in 0..n
        BY <1>1, <3>1
      <4> QED BY <2>2, <4>1
    <3> HIDE DEF more
    <3> QED BY <3>2, <3>3 DEF A
  <2> QED BY <2>1, <2>2, <2>3, Zenon
<1>5. StepsInto(n, A, step)
  BY <1>4 DEF StepsInto
<1>6. LooksAhead(n, A, step)
  <2> SUFFICES ASSUME NEW i \in 0..n, NEW f \in [0..n -> A], NEW g \in [0..n -> A],
                      \A j \in (i + 1)..n : f[j] = g[j]
               PROVE  step[i][f] = step[i][g]
    BY DEF LooksAhead
  <2> DEFINE rest == From(text, i + 1)
             sep == strchr(rest, "=")
             comma == strchr(From(rest, sep), Comma)
             next == i + sep - 1 + comma
  <2>1. sep # 0 /\ comma # 0 => next \in (i + 1)..n
    <3> HIDE DEF rest, sep, comma
    <3> QED BY ParserAdvances DEF n, rest, sep, comma
  <2>2. sep # 0 /\ comma # 0 => f[next] = g[next]
    BY <2>1, Zenon
  <2>3. ParserStep(text, f, i) = ParserStep(text, g, i)
    BY <2>2, Zenon DEF ParserStep
  <2> QED BY <2>3
<1>7. PICK e \in [0..n -> A] : Solves(n, step, e)
  <2> HIDE DEF step
  <2> QED BY <1>1, <1>5, <1>6, RecursionFromEnd
<1>8. Eq(e)
  <2>1. \A i \in 0..n : e[i] = ParserStep(text, e, i)
    BY <1>7 DEF Solves
  <2> QED BY <1>3, <2>1
<1> DEFINE ee == CHOOSE x : Eq(x)
<1>9. Eq(ee)
  BY <1>8
<1>10. ParseVmodule(text) = ee[0]
  BY Zenon DEF ParseVmodule, Eq, n
<1> HIDE DEF ee
<1>11. ee = [i \in 0..n |-> ee[i]] /\ \A i \in 0..n : ee[i] = ParserStep(text, ee, i)
  BY <1>2, <1>9
(* What the table holds, from the end of the text. *)
<1> DEFINE T == {i \in 0..n : \A j \in i..n : ee[j] \in A}
<1>12. \A i \in 0..n : (\A j \in (i + 1)..n : ee[j] \in A) => ee[i] \in A
  <2> SUFFICES ASSUME NEW i \in 0..n, \A j \in (i + 1)..n : ee[j] \in A PROVE ee[i] \in A
    OBVIOUS
  <2>1. PICK a \in A : TRUE
    BY <1>1
  <2> DEFINE f == [j \in 0..n |-> IF j \in (i + 1)..n THEN ee[j] ELSE a]
             rest == From(text, i + 1)
             sep == strchr(rest, "=")
             comma == strchr(From(rest, sep), Comma)
             next == i + sep - 1 + comma
  <2>2. f \in [0..n -> A]
    OBVIOUS
  <2>3. sep # 0 /\ comma # 0 => next \in (i + 1)..n
    <3> HIDE DEF rest, sep, comma
    <3> QED BY ParserAdvances DEF n, rest, sep, comma
  <2>4. \A j \in (i + 1)..n : f[j] = ee[j]
    BY <1>1
  <2> HIDE DEF f
  <2>5. sep # 0 /\ comma # 0 => f[next] = ee[next]
    BY <2>3, <2>4, Zenon
  <2>6. ParserStep(text, f, i) = ParserStep(text, ee, i)
    BY <2>5, Zenon DEF ParserStep
  <2> QED BY <1>4, <1>11, <2>2, <2>6
<1>13. n \in T
  <2>1. \A j \in (n + 1)..n : ee[j] \in A
    BY <1>1
  <2>2. n \in 0..n /\ \A j \in n..n : j = n
    BY <1>1
  <2> QED BY <1>12, <2>1, <2>2
<1>14. ASSUME NEW i \in 0..(n - 1), i + 1 \in T PROVE i \in T
  <2>1. i \in 0..n /\ \A j \in (i + 1)..n : ee[j] \in A
    BY <1>1, <1>14
  <2>2. ee[i] \in A
    BY <1>12, <2>1
  <2>3. \A j \in i..n : j = i \/ j \in (i + 1)..n
    BY <1>1
  <2> QED BY <2>1, <2>2, <2>3
<1> HIDE DEF T
<1>15. 0 \in T
  <2>1. 0..n \subseteq T
    BY <1>1, <1>13, <1>14, DownInduction
  <2> QED BY <1>1, <2>1
<1>16. ee \in [0..n -> A]
  <2>1. \A j \in 0..n : ee[j] \in A
    BY <1>15 DEF T
  <2> QED BY <1>11, <2>1
<1>17. ParserTable(text, A, ee)
  BY <1>11, <1>16 DEF ParserTable, n
<1> QED BY <1>10, <1>17 DEF A

(* Whatever the flag holds, its list is one of patterns and numbers. *)
THEOREM ParseTypes ==
  ASSUME NEW C, NEW text \in Seq(C)
  PROVE  ParseVmodule(text) \in Seq([module_pattern: Seq(C), vlog_level: Int])
<1> DEFINE A == Seq([module_pattern: Seq(C), vlog_level: Int])
<1>1. PICK e : ParserTable(text, A, e) /\ ParseVmodule(text) = e[0]
  BY ParserTableExists
<1>2. 0 \in 0..Len(text)
  OBVIOUS
<1> HIDE DEF A
<1>3. e[0] \in A
  BY <1>1, <1>2 DEF ParserTable
<1> QED BY <1>1, <1>3 DEF A

(* A text that begins with an entry, and what follows its level. *)
EntryAt(C, rest, p, l, ending, more) ==
  /\ "=" \in C /\ Comma \in C
  /\ p \in Seq(C) /\ l \in Seq(C) /\ ending \in Seq(C) /\ more \in Seq(C)
  /\ \A i \in 1..Len(p) : p[i] # "="
  /\ \A i \in 1..Len(l) : l[i] # Comma
  /\ ending = <<>> \/ ending = <<Comma>> \o more
  /\ rest = p \o (<<"=">> \o (l \o ending))

\* What the parser finds there.
LEMMA EntryStep ==
  ASSUME NEW C, NEW rest, NEW p, NEW l, NEW ending, NEW more, EntryAt(C, rest, p, l, ending, more)
  PROVE  /\ rest \in Seq(C) /\ strchr(rest, "=") = Len(p) + 1
         /\ SubSeq(rest, 1, Len(p)) = p
         /\ EntryLevel(From(rest, Len(p) + 2)) = EntryLevel(l)
         /\ strchr(From(rest, Len(p) + 1), Comma) = IF ending = <<>> THEN 0 ELSE Len(l) + 2
         /\ ending # <<>> => /\ From(rest, Len(p) + Len(l) + 3) = more
                           /\ Len(p) + Len(l) + 2 <= Len(rest)
<1>0. /\ "=" \in C /\ Comma \in C
      /\ p \in Seq(C) /\ l \in Seq(C) /\ ending \in Seq(C) /\ more \in Seq(C)
      /\ \A i \in 1..Len(p) : p[i] # "="
      /\ \A i \in 1..Len(l) : l[i] # Comma
      /\ ending = <<>> \/ ending = <<Comma>> \o more
      /\ rest = p \o (<<"=">> \o (l \o ending))
  BY DEF EntryAt
<1> USE <1>0
<1> DEFINE eq == <<"=">>
           lt == l \o ending
           el == eq \o lt
<1>1. eq \in Seq(C) /\ Len(eq) = 1 /\ eq[1] = "="
  OBVIOUS
<1>2. /\ lt \in Seq(C) /\ Len(lt) = Len(l) + Len(ending)
      /\ Len(l) \in Nat /\ Len(ending) \in Nat
      /\ \A i \in 1..Len(l) : lt[i] = l[i]
      /\ \A i \in 1..Len(ending) : lt[Len(l) + i] = ending[i]
  BY ConcatFacts
<1>3. From(lt, Len(l) + 1) = ending
  BY FromBehind
<1> HIDE DEF eq, lt
<1>4. /\ el \in Seq(C) /\ Len(el) = Len(eq) + Len(lt)
      /\ \A i \in 1..Len(eq) : el[i] = eq[i]
      /\ \A i \in 1..Len(lt) : el[Len(eq) + i] = lt[i]
  <2>1. eq \in Seq(C) /\ lt \in Seq(C)
    BY <1>1, <1>2
  <2> QED BY ONLY <2>1, ConcatFacts
<1>5. From(el, Len(eq) + 1) = lt
  <2>1. eq \in Seq(C) /\ lt \in Seq(C)
    BY <1>1, <1>2
  <2> QED BY ONLY <2>1, FromBehind
<1>6. rest = p \o el
  BY DEF el, lt, eq
<1> HIDE DEF el
<1>7. /\ rest \in Seq(C) /\ Len(rest) = Len(p) + Len(el)
      /\ Len(p) \in Nat
      /\ \A i \in 1..Len(p) : rest[i] = p[i]
      /\ \A i \in 1..Len(el) : rest[Len(p) + i] = el[i]
  <2>1. p \in Seq(C) /\ el \in Seq(C)
    BY <1>0, <1>4
  <2> QED BY ONLY <1>6, <2>1, ConcatFacts
<1>8. From(rest, Len(p) + 1) = el /\ SubSeq(rest, 1, Len(p)) = p
  <2>1. p \in Seq(C) /\ el \in Seq(C)
    BY <1>0, <1>4
  <2> QED BY ONLY <1>6, <2>1, FromBehind
<1>9. Len(el) = 1 + Len(l) + Len(ending) /\ Len(rest) = Len(p) + 1 + Len(l) + Len(ending)
  BY <1>1, <1>2, <1>4, <1>7
<1>10. strchr(rest, "=") = Len(p) + 1
  <2>1. rest[Len(p) + 1] = "=" /\ Len(p) + 1 \in 1..Len(rest)
    <3>1. rest[Len(p) + 1] = el[1] /\ el[1] = eq[1]
      BY <1>1, <1>2, <1>4, <1>7, <1>9
    <3> QED BY <1>1, <1>2, <1>7, <1>9, <3>1
  <2>2. \A k \in 1..((Len(p) + 1) - 1) : rest[k] # "="
    BY <1>7
  <2> QED BY <1>7, <2>1, <2>2, StrchrFirst
<1>11. EntryLevel(From(rest, Len(p) + 2)) = EntryLevel(l)
  <2>1. From(rest, Len(p) + 2) = From(From(rest, Len(p) + 1), 2)
    <3>1. Len(p) + 1 \in 1..(Len(rest) + 1) /\ 2 \in 1..(Len(rest) - (Len(p) + 1) + 2)
      BY <1>2, <1>7, <1>9
    <3> DEFINE a == Len(p) + 1
    <3>2. From(From(rest, a), 2) = From(rest, a + 2 - 1)
      <4>1. a \in 1..(Len(rest) + 1) /\ 2 \in 1..(Len(rest) - a + 2)
        BY <3>1
      <4> HIDE DEF a
      <4> QED BY ONLY <1>7, <4>1, FromFrom
    <3> QED BY <1>7, <3>2
  <2>2. From(rest, Len(p) + 2) = lt
    BY <1>1, <1>5, <1>8, <2>1
  <2>3. CASE ending = <<>>
    <3>1. lt = l
      BY <2>3 DEF lt
    <3> QED BY <2>2, <3>1
  <2>4. CASE ending = <<Comma>> \o more
    <3>1. ending # <<>> /\ ending[1] = Comma
      BY <2>4
    <3>2. ScanInt(l \o ending) = ScanInt(l)
      BY <3>1, ScanStops
    <3> QED BY <2>2, <3>2 DEF EntryLevel, lt
  <2> QED BY <2>3, <2>4
<1>12. \A k \in 1..(1 + Len(l)) : el[k] # Comma
  <2> SUFFICES ASSUME NEW k \in 1..(1 + Len(l)) PROVE el[k] # Comma
    OBVIOUS
  <2>1. CASE k = 1
    <3>1. el[1] = "="
      BY <1>1, <1>4
    <3>2. Comma # "="
      BY Zenon DEF Comma
    <3> QED BY <2>1, <3>1, <3>2
  <2>2. CASE k # 1
    <3>1. k - 1 \in 1..Len(l) /\ 1 + (k - 1) = k /\ k - 1 \in 1..Len(lt)
      BY <1>2, <2>2
    <3>2. el[k] = l[k - 1]
      BY <1>1, <1>2, <1>4, <3>1
    <3> QED BY <3>1, <3>2
  <2> QED BY <2>1, <2>2
<1>13. CASE ending = <<>>
  <2>1. \A k \in 1..Len(el) : el[k] # Comma
    BY <1>2, <1>9, <1>12, <1>13
  <2>2. strchr(el, Comma) = 0
    BY <1>4, <2>1, StrchrNone
  <2> QED BY <1>7, <1>8, <1>10, <1>11, <1>13, <2>2
<1>14. CASE ending # <<>>
  <2> DEFINE co == <<Comma>>
  <2>0. co \in Seq(C) /\ Len(co) = 1 /\ co[1] = Comma
    OBVIOUS
  <2> HIDE DEF co
  <2>1. ending = co \o more
    BY <1>14 DEF co
  <2>2. Len(ending) = 1 + Len(more) /\ Len(more) \in Nat /\ ending[1] = Comma
    <3>1. /\ Len(co \o more) = Len(co) + Len(more) /\ Len(more) \in Nat
          /\ \A i \in 1..Len(co) : (co \o more)[i] = co[i]
      <4>1. co \in Seq(C) /\ more \in Seq(C)
        BY <1>0, <2>0
      <4> QED BY ONLY <4>1, ConcatFacts
    <3> QED BY <2>0, <2>1, <3>1
  <2>3. el[Len(l) + 2] = Comma
    <3>1. Len(l) + 1 \in 1..Len(lt)
      BY <1>2, <2>2
    <3>2. el[1 + (Len(l) + 1)] = lt[Len(l) + 1] /\ lt[Len(l) + 1] = ending[1]
      BY <1>1, <1>2, <1>4, <2>2, <3>1
    <3>3. 1 + (Len(l) + 1) = Len(l) + 2
      BY <1>2
    <3> QED BY <2>2, <3>2, <3>3
  <2>4. strchr(el, Comma) = Len(l) + 2
    <3>1. Len(l) + 2 \in 1..Len(el)
      BY <1>2, <1>9, <2>2
    <3>2. \A k \in 1..((Len(l) + 2) - 1) : el[k] # Comma
      BY <1>2, <1>12
    <3> QED BY <1>4, <2>3, <3>1, <3>2, StrchrFirst
  <2>5. From(rest, Len(p) + Len(l) + 3) = From(From(rest, Len(p) + 1), Len(l) + 3)
    <3>1. Len(p) + 1 \in 1..(Len(rest) + 1)
          /\ Len(l) + 3 \in 1..(Len(rest) - (Len(p) + 1) + 2)
      BY <1>2, <1>7, <1>9, <2>2
    <3>2. From(From(rest, Len(p) + 1), Len(l) + 3) = From(rest, (Len(p) + 1) + (Len(l) + 3) - 1)
      <4>1. rest \in Seq(C)
        BY <1>7
      <4> DEFINE a == Len(p) + 1
                 b == Len(l) + 3
      <4>2. a \in 1..(Len(rest) + 1) /\ b \in 1..(Len(rest) - a + 2)
        BY <3>1
      <4> HIDE DEF a, b
      <4>3. From(From(rest, a), b) = From(rest, a + b - 1)
        BY <4>1, <4>2, FromFrom
      <4> QED BY <4>3 DEF a, b
    <3>3. (Len(p) + 1) + (Len(l) + 3) - 1 = Len(p) + Len(l) + 3
      BY <1>2, <1>7
    <3> QED BY <3>2, <3>3
  <2>6. From(el, Len(l) + 3) = From(lt, Len(l) + 2)
    <3>1. 2 \in 1..(Len(el) + 1) /\ Len(l) + 2 \in 1..(Len(el) - 2 + 2)
      BY <1>2, <1>9, <2>2
    <3>2. From(From(el, 2), Len(l) + 2) = From(el, 2 + (Len(l) + 2) - 1)
      BY <1>4, <3>1, FromFrom
    <3>3. 2 + (Len(l) + 2) - 1 = Len(l) + 3
      BY <1>2
    <3> QED BY <1>1, <1>5, <3>2, <3>3
  <2>7. From(lt, Len(l) + 2) = From(ending, 2)
    <3>1. Len(l) + 1 \in 1..(Len(lt) + 1) /\ 2 \in 1..(Len(lt) - (Len(l) + 1) + 2)
      BY <1>2, <2>2
    <3>2. From(From(lt, Len(l) + 1), 2) = From(lt, (Len(l) + 1) + 2 - 1)
      BY <1>2, <3>1, FromFrom
    <3>3. (Len(l) + 1) + 2 - 1 = Len(l) + 2
      BY <1>2
    <3> QED BY <1>3, <3>2, <3>3
  <2>8. From(ending, 2) = more
    <3>1. From(co \o more, Len(co) + 1) = more
      BY ONLY <1>0, <2>0, FromBehind
    <3> QED BY <2>0, <2>1, <3>1
  <2>9. From(rest, Len(p) + Len(l) + 3) = more
    BY <1>8, <2>5, <2>6, <2>7, <2>8
  <2>10. Len(p) + Len(l) + 2 <= Len(rest)
    BY <1>2, <1>7, <1>9, <2>2
  <2> QED BY <1>7, <1>8, <1>10, <1>11, <1>14, <2>4, <2>9, <2>10
<1> QED BY <1>13, <1>14

(* A flag of n entries, patterns without a '=' and levels without a ',';   *)
(* x[k] is its text from entry k + 1 on, y[k] what sscanf reads from there.*)
FlagText(C, n, pat, lev, x) ==
  /\ "=" \in C /\ Comma \in C /\ n \in Nat
  /\ pat \in [1..n -> Seq(C)] /\ lev \in [1..n -> Seq(C)]
  /\ \A k \in 1..n : \A i \in 1..Len(pat[k]) : pat[k][i] # "="
  /\ \A k \in 1..n : \A i \in 1..Len(lev[k]) : lev[k][i] # Comma
  /\ x \in [0..n -> Seq(C)] /\ x[n] = <<>>
  /\ \A k \in 0..(n - 1) :
       x[k] = pat[k + 1] \o (<<"=">> \o (lev[k + 1] \o
                IF k + 1 = n THEN <<>> ELSE <<Comma>> \o x[k + 1]))

FlagList(n, pat, lev, y) ==
  /\ y[n] = <<>>
  /\ \A k \in 0..(n - 1) : y[k] = Read(pat[k + 1], lev[k + 1]) \o y[k + 1]

(* Whatever the entries and however many: the parser reads all of them, in *)
(* order, those with no number left out.                                   *)
THEOREM EntriesRecovered ==
  ASSUME NEW C, NEW n, NEW pat, NEW lev, NEW x, NEW y,
         FlagText(C, n, pat, lev, x), FlagList(n, pat, lev, y)
  PROVE  ParseVmodule(x[0]) = y[0]
<1> USE DEF FlagText, FlagList
<1> DEFINE text == x[0]
           E == [module_pattern: Seq(C), vlog_level: Int]
<1>1. text \in Seq(C) /\ 0 \in 0..Len(text)
  OBVIOUS
<1> HIDE DEF text, E
<1>2. PICK e : ParserTable(text, Seq(E), e) /\ ParseVmodule(text) = e[0]
  BY <1>1, ParserTableExists DEF E
<1>3. e \in [0..Len(text) -> Seq(E)] /\ \A i \in 0..Len(text) : e[i] = ParserStep(text, e, i)
  BY <1>2 DEF ParserTable
<1> DEFINE T == {k \in 0..n : \A i \in 0..Len(text) : From(text, i + 1) = x[k] => e[i] = y[k]}
<1>4. n \in T
  <2>1. ASSUME NEW i \in 0..Len(text), From(text, i + 1) = x[n] PROVE e[i] = y[n]
    <3>1. strchr(From(text, i + 1), "=") = 0
      BY <2>1, StrchrRange
    <3>2. e[i] = ParserStep(text, e, i)
      BY <1>3
    <3>3. ParserStep(text, e, i) = <<>>
      BY <3>1, Zenon DEF ParserStep
    <3> QED BY <3>2, <3>3
  <2> QED BY <2>1
<1>5. ASSUME NEW k \in 0..(n - 1), k + 1 \in T PROVE k \in T
  <2>1. ASSUME NEW i \in 0..Len(text), From(text, i + 1) = x[k] PROVE e[i] = y[k]
    <3> DEFINE p == pat[k + 1]
               l == lev[k + 1]
               more == x[k + 1]
               ending == IF k + 1 = n THEN <<>> ELSE <<Comma>> \o more
               rest == From(text, i + 1)
    <3>0. k + 1 \in 1..n /\ k + 1 \in 0..n /\ k \in 0..n
      OBVIOUS
    <3>1. p \in Seq(C) /\ l \in Seq(C) /\ more \in Seq(C) /\ ending \in Seq(C)
      <4>1. p \in Seq(C) /\ l \in Seq(C) /\ more \in Seq(C)
        BY <3>0
      <4>2. <<>> \in Seq(C) /\ <<Comma>> \in Seq(C)
        OBVIOUS
      <4> HIDE DEF p, l, more
      <4>3. <<Comma>> \o more \in Seq(C)
        BY ONLY <4>1, <4>2, ConcatFacts
      <4> QED BY <4>1, <4>2, <4>3
    <3>2. (\A j \in 1..Len(p) : p[j] # "=") /\ (\A j \in 1..Len(l) : l[j] # Comma)
      BY <3>0, Zenon
    <3>3. ending = <<>> \/ ending = <<Comma>> \o more
      BY Zenon
    <3>4. rest = p \o (<<"=">> \o (l \o ending))
      BY <2>1, Zenon
    <3>5. ending = <<>> <=> k + 1 = n
      BY <3>1
    <3> HIDE DEF p, l, more, ending, rest
    <3>6. /\ strchr(rest, "=") = Len(p) + 1
          /\ SubSeq(rest, 1, Len(p)) = p
          /\ EntryLevel(From(rest, Len(p) + 2)) = EntryLevel(l)
          /\ strchr(From(rest, Len(p) + 1), Comma) = IF ending = <<>> THEN 0 ELSE Len(l) + 2
          /\ ending # <<>> => /\ From(rest, Len(p) + Len(l) + 3) = more
                            /\ Len(p) + Len(l) + 2 <= Len(rest)
      <4>1. "=" \in C /\ Comma \in C
        OBVIOUS
      <4>2. EntryAt(C, rest, p, l, ending, more)
        BY ONLY <3>1, <3>2, <3>3, <3>4, <4>1, Zenon DEF EntryAt
      <4> QED BY ONLY <4>2, EntryStep
    <3>7. Len(p) \in Nat /\ Len(l) \in Nat /\ Len(text) \in Nat
      BY ONLY <1>1, <3>1
    <3> DEFINE next == IF ending = <<>> THEN <<>> ELSE e[i + Len(p) + Len(l) + 2]
    <3>8. e[i] = Read(p, l) \o next
      <4>1. e[i] = ParserStep(text, e, i)
        BY <1>3
      <4> DEFINE sep == Len(p) + 1
                 comma == IF ending = <<>> THEN 0 ELSE Len(l) + 2
      <4>2. ParserStep(text, e, i) =
              IF sep = 0 THEN <<>>
              ELSE Read(SubSeq(rest, 1, sep - 1), From(rest, sep + 1))
                     \o IF comma = 0 THEN <<>> ELSE e[i + sep - 1 + comma]
        BY <3>6, Zenon DEF ParserStep, rest
      <4>3. sep # 0 /\ sep - 1 = Len(p) /\ sep + 1 = Len(p) + 2
        BY <3>7
      <4>4. ending # <<>> => comma # 0 /\ i + sep - 1 + comma = i + Len(p) + Len(l) + 2
        BY <3>7
      <4>5. (IF comma = 0 THEN <<>> ELSE e[i + sep - 1 + comma]) = next
        BY <4>4
      <4>6. Read(p, From(rest, Len(p) + 2)) = Read(p, l)
        BY <3>6, Zenon DEF Read
      <4> HIDE DEF sep, comma, next
      <4>7. ParserStep(text, e, i) = Read(SubSeq(rest, 1, sep - 1), From(rest, sep + 1)) \o next
        BY <4>2, <4>3, <4>5
      <4> QED BY <3>6, <4>1, <4>3, <4>6, <4>7
    <3>9. next = y[k + 1]
      <4>1. CASE ending = <<>>
        <5>1. y[k + 1] = <<>>
          BY <3>5, <4>1, Zenon
        <5> QED BY <4>1, <5>1
      <4>2. CASE ending # <<>>
        <5>1. rest \in Seq(C) /\ Len(rest) = Len(text) - i
          <6>1. i + 1 \in 1..(Len(text) + 1)
            BY <3>7
          <6>2. From(text, i + 1) \in Seq(C) /\ Len(From(text, i + 1)) = Len(text) - (i + 1) + 1
            BY <1>1, <6>1, FromFacts
          <6> QED BY <3>7, <6>2 DEF rest
        <5> DEFINE j == i + Len(p) + Len(l) + 2
        <5>2. j \in 0..Len(text)
          <6>1. Len(p) + Len(l) + 2 <= Len(rest)
            BY <3>6, <4>2
          <6> QED BY ONLY <3>7, <5>1, <6>1, i \in 0..Len(text)
        <5>3. From(text, j + 1) = more
          <6>1. i + 1 \in 1..(Len(text) + 1)
                /\ Len(p) + Len(l) + 3 \in 1..(Len(text) - (i + 1) + 2)
            BY ONLY <3>7, <5>2, i \in 0..Len(text)
          <6>2. From(From(text, i + 1), Len(p) + Len(l) + 3)
                  = From(text, (i + 1) + (Len(p) + Len(l) + 3) - 1)
            BY <1>1, <6>1, FromFrom
          <6>3. (i + 1) + (Len(p) + Len(l) + 3) - 1 = j + 1
            BY <3>7
          <6> HIDE DEF j
          <6>4. From(rest, Len(p) + Len(l) + 3) = more
            BY <3>6, <4>2
          <6> QED BY <6>2, <6>3, <6>4 DEF rest
        <5>4. \A m \in 0..Len(text) : From(text, m + 1) = more => e[m] = y[k + 1]
          BY <1>5 DEF more
        <5>5. e[j] = y[k + 1]
          <6> HIDE DEF j
          <6> QED BY <5>2, <5>3, <5>4
        <5> QED BY <4>2, <5>5
      <4> QED BY <4>1, <4>2
    <3>10. y[k] = Read(p, l) \o y[k + 1]
      BY DEF p, l
    <3> QED BY <3>8, <3>9, <3>10
  <2> QED BY <2>1
<1> HIDE DEF T
<1>6. 0 \in T
  <2>1. 0..n \subseteq T
    BY <1>4, <1>5, DownInduction
  <2> QED BY <2>1
<1>7. From(text, 0 + 1) = x[0]
  <2>1. From(text, 1) = text
    BY <1>1 DEF From
  <2> QED BY <2>1 DEF text
<1>8. e[0] = y[0]
  BY <1>1, <1>6, <1>7 DEF T
<1> QED BY <1>2, <1>8 DEF text

(* The characters of the levels an entry may have, and their values.       *)
LEMMA DigitFacts ==
  /\ \A c \in {"0", "1", "2", "3"} : IsDigit(c)
  /\ ~IsDigit("x")
  /\ DigitValue("0") = 0 /\ DigitValue("1") = 1 /\ DigitValue("2") = 2 /\ DigitValue("3") = 3
<1>1. DOMAIN Digits = 1..10
  BY DEF Digits
<1>2. Digits[1] = "0" /\ Digits[2] = "1" /\ Digits[3] = "2" /\ Digits[4] = "3"
  BY DEF Digits
<1>3. \A i \in 1..10 : /\ Digits[i] # "x"
                       /\ Digits[i] = "0" => i = 1
                       /\ Digits[i] = "1" => i = 2
                       /\ Digits[i] = "2" => i = 3
                       /\ Digits[i] = "3" => i = 4
  BY DEF Digits
<1>4. ASSUME NEW c, NEW i \in 1..10, Digits[i] = c, \A j \in 1..10 : Digits[j] = c => j = i
      PROVE  IsDigit(c) /\ DigitValue(c) = i - 1
  BY <1>1, <1>4 DEF IsDigit, DigitValue
<1>5. ~IsDigit("x")
  BY <1>1, <1>3 DEF IsDigit
<1>6. IsDigit("0") /\ DigitValue("0") = 1 - 1
  BY <1>2, <1>3, <1>4
<1>7. IsDigit("1") /\ DigitValue("1") = 2 - 1
  BY <1>2, <1>3, <1>4
<1>8. IsDigit("2") /\ DigitValue("2") = 3 - 1
  BY <1>2, <1>3, <1>4
<1>9. IsDigit("3") /\ DigitValue("3") = 4 - 1
  BY <1>2, <1>3, <1>4
<1> QED BY <1>5, <1>6, <1>7, <1>8, <1>9

(* The leading digits of a text are those before the first character that  *)
(* is none.                                                                *)
LEMMA LeadingDigitsAre ==
  ASSUME NEW C, NEW text \in Seq(C), NEW m \in 0..Len(text),
         \A i \in 1..m : IsDigit(text[i]), m < Len(text) => ~IsDigit(text[m + 1])
  PROVE  LeadingDigits(text) = SubSeq(text, 1, m)
<1> DEFINE I == {k \in 1..Len(text) : ~IsDigit(text[k])}
<1>0. Len(text) \in Nat
  OBVIOUS
<1>1. LeadingDigits(text) = IF (IF I # {} THEN Min(I) ELSE 0) = 0 THEN text
                            ELSE SubSeq(text, 1, (IF I # {} THEN Min(I) ELSE 0) - 1)
  BY DEF LeadingDigits, SelectInSeq
<1>2. CASE m = Len(text)
  <2>1. I = {}
    BY <1>2
  <2>2. SubSeq(text, 1, Len(text)) = text
    OBVIOUS
  <2> QED BY <1>1, <1>2, <2>1, <2>2
<1>3. CASE m < Len(text)
  <2>1. m + 1 \in I /\ I \subseteq Nat
    BY <1>0, <1>3
  <2>2. \A k \in I : m + 1 <= k
    BY <1>0
  <2> HIDE DEF I
  <2>3. Min(I) \in I /\ \A k \in I : Min(I) <= k
    BY <2>1, MinFacts
  <2>4. Min(I) = m + 1
    <3>1. Min(I) <= m + 1 /\ m + 1 <= Min(I) /\ Min(I) \in Nat
      BY <2>1, <2>2, <2>3
    <3> QED BY <3>1
  <2>5. I # {} /\ m + 1 # 0 /\ (m + 1) - 1 = m
    BY <1>0, <2>1
  <2> QED BY <1>1, <2>4, <2>5
<1> QED BY <1>0, <1>2, <1>3

(* The value of one digit.                                                 *)
LEMMA DecimalOne ==
  ASSUME NEW c \in {"0", "1", "2", "3"}
  PROVE  DecimalValue(<<c>>) = DigitValue(c)
<1> DEFINE d == <<c>>
           C == {"0", "1", "2", "3"}
<1>1. d \in Seq(C) /\ Len(d) = 1 /\ d[1] = c
  OBVIOUS
<1> HIDE DEF d, C
<1>2. \A i \in 1..Len(d) : IsDigit(d[i])
  BY <1>1, DigitFacts
<1>3. PICK v \in [0..Len(d) -> Int] :
        /\ DecimalValue(d) = v[0] /\ v[Len(d)] = 0
        /\ \A k \in 0..(Len(d) - 1) : v[k] = 10 * v[k + 1] + DigitValue(d[Len(d) - k])
  BY <1>1, <1>2, DecimalTable
<1>4. v[0] = 10 * v[0 + 1] + DigitValue(d[1 - 0])
  BY <1>1, <1>3
<1>5. v[0 + 1] = 0 /\ d[1 - 0] = c
  BY <1>1, <1>3
<1>6. DigitValue(c) \in Int
  BY DigitFacts
<1> QED BY <1>3, <1>4, <1>5, <1>6 DEF d

(* The value of two digits, the larger one first.                          *)
LEMMA DecimalTen == DecimalValue(<<"1", "0">>) = 10
<1> DEFINE d == <<"1", "0">>
           C == {"0", "1", "2", "3"}
<1>1. d \in Seq(C) /\ Len(d) = 2 /\ d[1] = "1" /\ d[2] = "0"
  OBVIOUS
<1> HIDE DEF d, C
<1>2. \A i \in 1..Len(d) : IsDigit(d[i])
  BY <1>1, DigitFacts
<1>3. PICK v \in [0..Len(d) -> Int] :
        /\ DecimalValue(d) = v[0] /\ v[Len(d)] = 0
        /\ \A k \in 0..(Len(d) - 1) : v[k] = 10 * v[k + 1] + DigitValue(d[Len(d) - k])
  BY <1>1, <1>2, DecimalTable
<1>4. /\ v[0] = 10 * v[0 + 1] + DigitValue(d[2 - 0])
      /\ v[1] = 10 * v[1 + 1] + DigitValue(d[2 - 1])
  BY <1>1, <1>3
<1>5. v[2] = 0 /\ d[2 - 0] = "0" /\ d[2 - 1] = "1"
  BY <1>1, <1>3
<1>6. v[1] = 1 /\ v[0] = 10
  BY <1>4, <1>5, DigitFacts
<1> QED BY <1>3, <1>6 DEF d

(* The first of two characters.                                            *)
LEMMA FirstAlone ==
  ASSUME NEW C, NEW l \in Seq(C), Len(l) = 2
  PROVE  SubSeq(l, 1, 1) = <<l[1]>>
<1> DEFINE a == SubSeq(l, 1, 1)
           b == <<l[1]>>
<1>0. l[1] \in C
  OBVIOUS
<1>1. a \in Seq(C) /\ Len(a) = 1 /\ a[1] = l[1]
  OBVIOUS
<1>2. b \in Seq(C) /\ Len(b) = 1 /\ b[1] = l[1]
  BY <1>0
<1> HIDE DEF a, b
<1>3. a = b
  BY <1>1, <1>2, SeqEqual
<1> QED BY <1>3 DEF a, b

(* What stands behind the first of two characters.                         *)
LEMMA SecondAlone ==
  ASSUME NEW C, NEW l \in Seq(C), Len(l) = 2
  PROVE  From(l, 2) = <<l[2]>>
<1> DEFINE a == From(l, 2)
           b == <<l[2]>>
<1>0. l[2] \in C /\ 2 \in 1..(Len(l) + 1) /\ Len(l) - 2 + 1 = 1
  OBVIOUS
<1>1. a \in Seq(C) /\ Len(a) = 1 /\ a[1] = l[2]
  <2>1. /\ From(l, 2) \in Seq(C) /\ Len(From(l, 2)) = Len(l) - 2 + 1
        /\ \A k \in 1..(Len(l) - 2 + 1) : From(l, 2)[k] = l[2 + k - 1]
    BY <1>0, FromFacts
  <2>2. 1 \in 1..1 /\ 2 + 1 - 1 = 2
    OBVIOUS
  <2> QED BY <1>0, <2>1, <2>2
<1>2. b \in Seq(C) /\ Len(b) = 1 /\ b[1] = l[2]
  BY <1>0
<1> HIDE DEF a, b
<1>3. a = b
  BY <1>1, <1>2, SeqEqual
<1> QED BY <1>3 DEF a, b

(* The numbers of MCVModuleText's levels are the ones sscanf reads. *)
LEMMA LevelsRead ==
  ASSUME NEW l \in EntryLevels
  PROVE  ScanInt(l) = IF l \in {<<>>, <<"x">>} THEN {} ELSE {LevelOf(l)}
<1> DEFINE C == {"0", "1", "2", "3", "x", "-"}
<1>0. /\ "0" \in C /\ "1" \in C /\ "2" \in C /\ "3" \in C /\ "x" \in C /\ "-" \in C
  OBVIOUS
<1> HIDE DEF C
<1>1. CASE l = <<>>
  <2>1. ~Signed(l)
    BY <1>1 DEF Signed
  <2>2. LeadingDigits(l) = <<>>
    <3> DEFINE m == 0
    <3>1. l \in Seq(C) /\ Len(l) = m /\ m \in 0..Len(l) /\ ~(m < Len(l))
          /\ \A i \in 1..m : IsDigit(l[i])
      BY <1>1
    <3> HIDE DEF m
    <3>2. LeadingDigits(l) = SubSeq(l, 1, m)
      BY <3>1, LeadingDigitsAre
    <3> USE DEF m
    <3> QED BY <1>1, <3>2
  <2> QED BY <1>1, <2>1, <2>2 DEF ScanInt
<1>2. CASE l = <<"x">>
  <2>0. l \in Seq(C) /\ Len(l) = 1 /\ l[1] = "x"
    BY <1>0, <1>2
  <2>1. ~Signed(l)
    BY <2>0 DEF Signed
  <2>2. LeadingDigits(l) = <<>>
    <3> DEFINE m == 0
    <3>1. m \in 0..Len(l) /\ ~IsDigit(l[m + 1]) /\ \A i \in 1..m : IsDigit(l[i])
      BY <2>0, DigitFacts
    <3> HIDE DEF m
    <3>2. LeadingDigits(l) = SubSeq(l, 1, m)
      BY <2>0, <3>1, LeadingDigitsAre
    <3> USE DEF m
    <3> QED BY <2>0, <3>2
  <2>3. ScanInt(l) = {}
    BY <2>1, <2>2, Zenon DEF ScanInt
  <2> QED BY <1>2, <2>3
<1>3. CASE l = <<"3">>
  <2>0. l \in Seq(C) /\ Len(l) = 1 /\ l[1] = "3" /\ l # <<>>
    BY <1>0, <1>3
  <2>1. ~Signed(l)
    BY <2>0 DEF Signed
  <2>2. LeadingDigits(l) = l
    <3>2. LeadingDigits(l) = SubSeq(l, 1, 1)
      BY <2>0, LeadingDigitsAre, DigitFacts
    <3> QED BY <2>0, <3>2
  <2>3. DecimalValue(l) = 3
    BY <1>3, DecimalOne, DigitFacts
  <2>4. ScanInt(l) = {3}
    BY <2>0, <2>1, <2>2, <2>3, Zenon DEF ScanInt
  <2>5. LevelOf(l) = 3 /\ l \notin {<<>>, <<"x">>}
    BY <1>3 DEF LevelOf
  <2> QED BY <2>4, <2>5
<1>4. CASE l = <<"1", "0">>
  <2>0. l \in Seq(C) /\ Len(l) = 2 /\ l[1] = "1" /\ l[2] = "0" /\ l # <<>>
    BY <1>0, <1>4
  <2>1. ~Signed(l)
    BY <2>0 DEF Signed
  <2>2. LeadingDigits(l) = l
    <3>1. \A i \in 1..2 : IsDigit(l[i])
      BY <2>0, DigitFacts
    <3>2. LeadingDigits(l) = SubSeq(l, 1, 2)
      BY <2>0, <3>1, LeadingDigitsAre
    <3> QED BY <2>0, <3>2
  <2>3. DecimalValue(l) = 10
    BY <1>4, DecimalTen
  <2>4. ScanInt(l) = {10}
    BY <2>0, <2>1, <2>2, <2>3, Zenon DEF ScanInt
  <2>5. LevelOf(l) = 10 /\ l \notin {<<>>, <<"x">>}
    BY <1>4 DEF LevelOf
  <2> QED BY <2>4, <2>5
<1>5. CASE l = <<"2", "x">>
  <2>0. l \in Seq(C) /\ Len(l) = 2 /\ l[1] = "2" /\ l[2] = "x" /\ l # <<>>
    BY <1>0, <1>5
  <2>1. ~Signed(l)
    BY <2>0 DEF Signed
  <2>2. LeadingDigits(l) = <<"2">>
    <3>1. 1 \in 0..Len(l) /\ ~IsDigit(l[1 + 1]) /\ \A i \in 1..1 : IsDigit(l[i])
      BY <2>0, DigitFacts
    <3>2. LeadingDigits(l) = SubSeq(l, 1, 1)
      BY <2>0, <3>1, LeadingDigitsAre
    <3>3. SubSeq(l, 1, 1) = <<"2">>
      BY <2>0, FirstAlone
    <3> QED BY <3>2, <3>3
  <2>3. DecimalValue(<<"2">>) = 2
    BY DecimalOne, DigitFacts
  <2>4. ScanInt(l) = {2}
    <3>1. <<"2">> # <<>>
      OBVIOUS
    <3> QED BY <3>1, <2>1, <2>2, <2>3, Zenon DEF ScanInt
  <2>5. LevelOf(l) = 2 /\ l \notin {<<>>, <<"x">>}
    BY <1>5 DEF LevelOf
  <2> QED BY <2>4, <2>5
<1>6. CASE l = <<"-", "1">>
  <2>0. l \in Seq(C) /\ Len(l) = 2 /\ l[1] = "-" /\ l[2] = "1" /\ l # <<>>
    BY <1>0, <1>6
  <2>1. Signed(l)
    BY <2>0 DEF Signed
  <2> DEFINE u == From(l, 2)
             one == <<"1">>
  <2>2. u = one
    BY <2>0, SecondAlone
  <2>3. one \in Seq(C) /\ Len(one) = 1 /\ one[1] = "1" /\ one # <<>>
    BY <1>0
  <2>4. DecimalValue(one) = 1
    BY DecimalOne, DigitFacts
  <2> HIDE DEF u, one
  <2>5. LeadingDigits(one) = one
    <3>2. LeadingDigits(one) = SubSeq(one, 1, 1)
      BY <2>3, LeadingDigitsAre, DigitFacts
    <3> QED BY <2>3, <3>2
  <2>6. ScanInt(l) = {0 - 1}
    BY <2>0, <2>1, <2>2, <2>3, <2>4, <2>5, Zenon DEF ScanInt, u
  <2>7. LevelOf(l) = 0 - 1 /\ l \notin {<<>>, <<"x">>}
    BY <1>6 DEF LevelOf
  <2> QED BY <2>6, <2>7
<1> QED BY <1>1, <1>2, <1>3, <1>4, <1>5, <1>6 DEF EntryLevels

\* The flag's text exists, and so does the list of its readable entries.
LEMMA RenderedTable ==
  ASSUME NEW C, "=" \in C, Comma \in C,
         NEW pat \in [1..Len(flag) -> Seq(C)], NEW lev \in [1..Len(flag) -> Seq(C)],
         Len(flag) \in Nat,
         \A k \in 1..Len(flag) : flag[k].pattern = pat[k] /\ flag[k].level = lev[k]
  PROVE  /\ RenderedFrom \in [0..Len(flag) -> Seq(C)]
         /\ RenderedFrom[Len(flag)] = <<>>
         /\ \A k \in 0..(Len(flag) - 1) :
              RenderedFrom[k] = pat[k + 1] \o (<<"=">> \o (lev[k + 1] \o
                IF k + 1 = Len(flag) THEN <<>> ELSE <<Comma>> \o RenderedFrom[k + 1]))
<1> DEFINE n == Len(flag)
           A == Seq(C)
           Eq(x) == x = [k \in 0..n |->
             IF k = n THEN <<>>
             ELSE flag[k + 1].pattern \o (<<"=">> \o (flag[k + 1].level \o
                    IF k + 1 = n THEN <<>> ELSE <<Comma>> \o x[k + 1]))]
           Val(x, k) ==
             IF k = n THEN <<>>
             ELSE pat[k + 1] \o (<<"=">> \o (lev[k + 1] \o
                    IF k + 1 = n THEN <<>> ELSE <<Comma>> \o x[k + 1]))
           step == [k \in 0..n |-> [x \in [0..n -> A] |-> Val(x, k)]]
<1>1. n \in Nat /\ A # {} /\ <<>> \in A /\ <<"=">> \in A /\ <<Comma>> \in A
  <2>1. <<>> \in A /\ <<"=">> \in A /\ <<Comma>> \in A
    OBVIOUS
  <2> HIDE DEF A
  <2> QED BY <2>1
<1>a. \A k \in 0..n : k # n => k + 1 \in 1..n /\ k + 1 \in 0..n /\ k + 1 \in (k + 1)..n
  BY <1>1
<1> HIDE DEF n
<1>2. ASSUME NEW x, Eq(x)
      PROVE  x = [k \in 0..n |-> x[k]] /\ \A k \in 0..n : x[k] = Val(x, k)
  <2>1. x = [k \in 0..n |-> x[k]]
    BY <1>2, Zenon
  <2>2. ASSUME NEW k \in 0..n PROVE x[k] = Val(x, k)
    <3>1. CASE k = n
      BY <1>2, <3>1, Zenon
    <3>2. CASE k # n
      <4>1. flag[k + 1].pattern = pat[k + 1] /\ flag[k + 1].level = lev[k + 1]
        BY <1>a, <3>2 DEF n
      <4> QED BY <1>2, <3>2, <4>1, Zenon
    <3> QED BY <3>1, <3>2
  <2> QED BY <2>1, <2>2
<1>3. ASSUME NEW x \in [0..n -> A], \A k \in 0..n : x[k] = Val(x, k)
      PROVE  Eq(x)
  <2>1. x = [k \in 0..n |-> x[k]]
    BY Zenon
  <2>2. ASSUME NEW k \in 0..n
        PROVE  x[k] = IF k = n THEN <<>>
                      ELSE flag[k + 1].pattern \o (<<"=">> \o (flag[k + 1].level \o
                             IF k + 1 = n THEN <<>> ELSE <<Comma>> \o x[k + 1]))
    <3>1. CASE k = n
      BY <1>3, <3>1, Zenon
    <3>2. CASE k # n
      <4>1. flag[k + 1].pattern = pat[k + 1] /\ flag[k + 1].level = lev[k + 1]
        BY <1>a, <3>2 DEF n
      <4> QED BY <1>3, <3>2, <4>1, Zenon
    <3> QED BY <3>1, <3>2
  <2> QED BY <2>1, <2>2, Zenon
<1>4. ASSUME NEW a \in A, NEW b \in A PROVE a \o b \in A
  OBVIOUS
<1>b. \A k \in 1..n : pat[k] \in A /\ lev[k] \in A
  BY DEF n
<1> HIDE DEF Eq, A
<1>5. \A k \in 0..n, x \in [0..n -> A] : Val(x, k) \in A
  <2> SUFFICES ASSUME NEW k \in 0..n, NEW x \in [0..n -> A], k # n PROVE Val(x, k) \in A
    BY <1>1
  <2> DEFINE ending == IF k + 1 = n THEN <<>> ELSE <<Comma>> \o x[k + 1]
  <2>1. pat[k + 1] \in A /\ lev[k + 1] \in A /\ x[k + 1] \in A
    BY <1>a, <1>b
  <2>2. ending \in A
    BY <1>1, <1>4, <2>1
  <2> HIDE DEF ending
  <2>3. lev[k + 1] \o ending \in A
    BY <1>4, <2>1, <2>2
  <2>4. <<"=">> \o (lev[k + 1] \o ending) \in A
    BY <1>1, <1>4, <2>3
  <2>5. pat[k + 1] \o (<<"=">> \o (lev[k + 1] \o ending)) \in A
    BY <1>4, <2>1, <2>4
  <2> QED BY <2>5 DEF ending
<1>6. StepsInto(n, A, step)
  BY <1>5 DEF StepsInto
<1>7. LooksAhead(n, A, step)
  <2> SUFFICES ASSUME NEW k \in 0..n, NEW f \in [0..n -> A], NEW g \in [0..n -> A],
                      \A j \in (k + 1)..n : f[j] = g[j]
               PROVE  step[k][f] = step[k][g]
    BY DEF LooksAhead
  <2>1. k = n \/ f[k + 1] = g[k + 1]
    BY <1>a
  <2>2. Val(f, k) = Val(g, k)
    BY <2>1, Zenon
  <2> HIDE DEF Val
  <2> QED BY <2>2
<1>8. PICK x \in [0..n -> A] : Solves(n, step, x)
  <2> HIDE DEF step
  <2> QED BY <1>1, <1>6, <1>7, RecursionFromEnd
<1>9. Eq(x)
  <2>1. \A k \in 0..n : x[k] = Val(x, k)
    <3> HIDE DEF Val
    <3> QED BY <1>8 DEF Solves
  <2> QED BY <1>3, <2>1
<1> DEFINE xx == CHOOSE z : Eq(z)
<1>10. Eq(xx)
  BY <1>9
<1>11. RenderedFrom = xx
  BY Zenon DEF RenderedFrom, Eq, n
<1> HIDE DEF xx
<1>12. xx = [k \in 0..n |-> xx[k]] /\ \A k \in 0..n : xx[k] = Val(xx, k)
  BY <1>2, <1>10
<1> DEFINE T == {k \in 0..n : xx[k] \in A}
<1>17. xx[n] = <<>>
  <2>1. n \in 0..n
    BY <1>1
  <2> QED BY <1>12, <2>1, Zenon
<1>13. n \in T
  BY <1>1, <1>17
<1>14. ASSUME NEW k \in 0..(n - 1), k + 1 \in T PROVE k \in T
  <2>0. k \in 0..n /\ k # n
    BY <1>1
  <2> DEFINE f == [j \in 0..n |-> IF j = k + 1 THEN xx[k + 1] ELSE <<>>]
  <2>1. f \in [0..n -> A] /\ f[k + 1] = xx[k + 1]
    BY <1>1, <1>14
  <2> HIDE DEF f
  <2>2. Val(f, k) = Val(xx, k)
    BY <2>1, Zenon
  <2>3. Val(f, k) \in A /\ xx[k] = Val(xx, k)
    BY <1>5, <1>12, <2>0, <2>1
  <2> HIDE DEF Val
  <2> QED BY <2>0, <2>2, <2>3
<1> HIDE DEF T
<1>15. 0..n \subseteq T
  BY <1>1, <1>13, <1>14, DownInduction
<1>16. xx \in [0..n -> A]
  <2>1. \A k \in 0..n : xx[k] \in A
    BY <1>15 DEF T
  <2> QED BY <1>12, <2>1
<1>18. \A k \in 0..(n - 1) : xx[k] = pat[k + 1] \o (<<"=">> \o (lev[k + 1] \o
                               IF k + 1 = n THEN <<>> ELSE <<Comma>> \o xx[k + 1]))
  <2> SUFFICES ASSUME NEW k \in 0..(n - 1)
               PROVE  xx[k] = pat[k + 1] \o (<<"=">> \o (lev[k + 1] \o
                               IF k + 1 = n THEN <<>> ELSE <<Comma>> \o xx[k + 1]))
    OBVIOUS
  <2>1. k \in 0..n /\ k # n
    BY <1>1
  <2> QED BY <1>12, <2>1, Zenon
<1> QED BY <1>11, <1>16, <1>17, <1>18, Zenon DEF A, n

\* One entry of the readable list.
KeptOf(e) == IF Readable(e) THEN <<[module_pattern |-> e.pattern, vlog_level |-> LevelOf(e.level)]>>
           ELSE <<>>

(* ReadableFrom as the table its recursion fills.                          *)
LEMMA ReadableTable ==
  ASSUME NEW B, Len(flag) \in Nat, \A k \in 1..Len(flag) : KeptOf(flag[k]) \in Seq(B)
  PROVE  /\ ReadableFrom[Len(flag)] = <<>>
         /\ \A k \in 0..(Len(flag) - 1) :
              ReadableFrom[k] = KeptOf(flag[k + 1]) \o ReadableFrom[k + 1]
<1> DEFINE n == Len(flag)
           A == Seq(B)
           Eq(y) == y = [k \in 0..n |->
             IF k = n THEN <<>>
             ELSE (IF Readable(flag[k + 1])
                   THEN <<[module_pattern |-> flag[k + 1].pattern,
                           vlog_level |-> LevelOf(flag[k + 1].level)]>>
                   ELSE <<>>) \o y[k + 1]]
           Val(y, k) == IF k = n THEN <<>> ELSE KeptOf(flag[k + 1]) \o y[k + 1]
           step == [k \in 0..n |-> [y \in [0..n -> A] |-> Val(y, k)]]
<1>1. n \in Nat /\ A # {} /\ <<>> \in A
  <2>1. <<>> \in A
    OBVIOUS
  <2> HIDE DEF A
  <2> QED BY <2>1
<1>a. \A k \in 0..n : k # n => k + 1 \in 1..n /\ k + 1 \in 0..n /\ k + 1 \in (k + 1)..n
  BY <1>1
<1>b. \A k \in 1..n : KeptOf(flag[k]) \in A
  OBVIOUS
<1> HIDE DEF n
<1>2. ASSUME NEW y, Eq(y) PROVE \A k \in 0..n : y[k] = Val(y, k)
  <2>2. ASSUME NEW k \in 0..n PROVE y[k] = Val(y, k)
    BY <1>2, Zenon DEF KeptOf
  <2> QED BY <2>2
<1>3. ASSUME NEW y \in [0..n -> A], \A k \in 0..n : y[k] = Val(y, k)
      PROVE  Eq(y)
  <2>1. y = [k \in 0..n |-> y[k]]
    BY Zenon
  <2>2. \A k \in 0..n : y[k] = Val(y, k)
    BY <1>3, Zenon
  <2> QED BY <2>1, <2>2, Zenon DEF KeptOf
<1>4. ASSUME NEW a \in A, NEW b \in A PROVE a \o b \in A
  OBVIOUS
<1> HIDE DEF Eq, A
<1>5. \A k \in 0..n, y \in [0..n -> A] : Val(y, k) \in A
  <2> SUFFICES ASSUME NEW k \in 0..n, NEW y \in [0..n -> A], k # n PROVE Val(y, k) \in A
    BY <1>1
  <2>1. KeptOf(flag[k + 1]) \in A /\ y[k + 1] \in A
    BY <1>a, <1>b
  <2> QED BY <1>4, <2>1
<1>6. StepsInto(n, A, step)
  BY <1>5 DEF StepsInto
<1>7. LooksAhead(n, A, step)
  <2> SUFFICES ASSUME NEW k \in 0..n, NEW f \in [0..n -> A], NEW g \in [0..n -> A],
                      \A j \in (k + 1)..n : f[j] = g[j]
               PROVE  step[k][f] = step[k][g]
    BY DEF LooksAhead
  <2>1. k = n \/ f[k + 1] = g[k + 1]
    BY <1>a
  <2>2. Val(f, k) = Val(g, k)
    BY <2>1, Zenon
  <2> HIDE DEF Val
  <2> QED BY <2>2
<1>8. PICK y \in [0..n -> A] : Solves(n, step, y)
  <2> HIDE DEF step
  <2> QED BY <1>1, <1>6, <1>7, RecursionFromEnd
<1>9. Eq(y)
  <2>1. \A k \in 0..n : y[k] = Val(y, k)
    <3> HIDE DEF Val
    <3> QED BY <1>8 DEF Solves
  <2> QED BY <1>3, <2>1
<1> DEFINE yy == CHOOSE z : Eq(z)
<1>10. Eq(yy)
  BY <1>9
<1>11. ReadableFrom = yy
  BY Zenon DEF ReadableFrom, Eq, n
<1> HIDE DEF yy
<1>12. \A k \in 0..n : yy[k] = Val(yy, k)
  BY <1>2, <1>10
<1>13. yy[n] = <<>>
  BY <1>1, <1>12
<1>14. \A k \in 0..(n - 1) : yy[k] = KeptOf(flag[k + 1]) \o yy[k + 1]
  <2> SUFFICES ASSUME NEW k \in 0..(n - 1) PROVE yy[k] = KeptOf(flag[k + 1]) \o yy[k + 1]
    OBVIOUS
  <2>1. k \in 0..n /\ k # n
    BY <1>1
  <2> QED BY <1>12, <2>1, Zenon
<1> QED BY <1>11, <1>13, <1>14, Zenon DEF n

\* The patterns and the levels a behaviour's flag is made of.
EntryTexts == {"a", "g", "*", "0", "1", "2", "3", "x", "-", "=", Comma}

(* No entry's pattern holds "=" and no entry's level a comma.              *)
LEMMA EntryTextFacts ==
  /\ \A p \in EntryPatterns : p \in Seq(EntryTexts) /\ \A i \in 1..Len(p) : p[i] # "="
  /\ \A l \in EntryLevels : l \in Seq(EntryTexts) /\ \A i \in 1..Len(l) : l[i] # Comma
<1> DEFINE C == EntryTexts
<1>1. /\ "a" \in C /\ "g" \in C /\ "*" \in C /\ "0" \in C /\ "1" \in C /\ "2" \in C
      /\ "3" \in C /\ "x" \in C /\ "-" \in C
  BY DEF EntryTexts
<1>2. \A c \in {"0", "1", "2", "3", "x", "-"} : c # Comma
  BY Zenon DEF Comma
<1> HIDE DEF C
<1>3. ASSUME NEW p \in EntryPatterns PROVE p \in Seq(C) /\ \A i \in 1..Len(p) : p[i] # "="
  <2>1. CASE p = <<"a">>
    BY <1>1, <2>1
  <2>2. CASE p = <<"g", "*">>
    BY <1>1, <2>2
  <2>3. CASE p = <<>>
    BY <2>3
  <2> QED BY <2>1, <2>2, <2>3 DEF EntryPatterns
<1>4. ASSUME NEW l \in EntryLevels PROVE l \in Seq(C) /\ \A i \in 1..Len(l) : l[i] # Comma
  <2>1. CASE l = <<"3">>
    BY <1>1, <1>2, <2>1
  <2>2. CASE l = <<"-", "1">>
    BY <1>1, <1>2, <2>2
  <2>3. CASE l = <<"1", "0">>
    BY <1>1, <1>2, <2>3
  <2>4. CASE l = <<>>
    BY <2>4
  <2>5. CASE l = <<"x">>
    BY <1>1, <1>2, <2>5
  <2>6. CASE l = <<"2", "x">>
    BY <1>1, <1>2, <2>6
  <2> QED BY <2>1, <2>2, <2>3, <2>4, <2>5, <2>6 DEF EntryLevels
<1> QED BY <1>3, <1>4 DEF C

(* Every level stands for a number.                                        *)
LEMMA LevelOfInt == \A l \in EntryLevels : LevelOf(l) \in Int
  BY DEF LevelOf

\* What the parser reads of one entry is what is kept of it.
LEMMA KeptRead ==
  ASSUME NEW p, NEW l \in EntryLevels, NEW e, e.pattern = p, e.level = l
  PROVE  KeptOf(e) = Read(p, l)
<1>1. ScanInt(l) = IF l \in {<<>>, <<"x">>} THEN {} ELSE {LevelOf(l)}
  BY LevelsRead
<1>2. CASE l \in {<<>>, <<"x">>}
  <2>1. {[module_pattern |-> p, vlog_level |-> v] : v \in {}} = {}
    OBVIOUS
  <2>2. ScanInt(l) = {}
    BY <1>1, <1>2, Zenon
  <2>3. Read(p, l) = <<>>
    BY <2>1, <2>2, SeqOfNone, Zenon DEF Read, EntryLevel
  <2>4. KeptOf(e) = <<>>
    BY <1>2, Zenon DEF KeptOf, Readable
  <2> QED BY <2>3, <2>4
<1>3. CASE l \notin {<<>>, <<"x">>}
  <2> DEFINE r == [module_pattern |-> p, vlog_level |-> LevelOf(l)]
  <2>1. ScanInt(l) = {LevelOf(l)}
    BY <1>1, <1>3, Zenon
  <2>2. {[module_pattern |-> p, vlog_level |-> v] : v \in {LevelOf(l)}} = {r}
    OBVIOUS
  <2>3. Read(p, l) = SetToSeq({r})
    BY <2>1, <2>2, Zenon DEF Read, EntryLevel
  <2>4. SetToSeq({r}) = <<r>>
    BY SeqOfOne
  <2>5. KeptOf(e) = <<r>>
    BY <1>3, Zenon DEF KeptOf, Readable
  <2> QED BY <2>3, <2>4, <2>5
<1> QED BY <1>2, <1>3

(* FlagEntriesRecovered for any flag that is a list of entries: both       *)
(* tables are those of EntriesRecovered.                                   *)
LEMMA RecoveredWherever ==
  ASSUME flag \in Seq([pattern: EntryPatterns, level: EntryLevels])
  PROVE  FlagEntriesRecovered
<1> DEFINE C == EntryTexts
           n == Len(flag)
           pat == [k \in 1..n |-> flag[k].pattern]
           lev == [k \in 1..n |-> flag[k].level]
           B == [module_pattern: Seq(C), vlog_level: Int]
<1>0. n \in Nat /\ \A k \in 1..n : flag[k].pattern \in EntryPatterns /\ flag[k].level \in EntryLevels
  <2> DEFINE E == [pattern: EntryPatterns, level: EntryLevels]
  <2>1. \A e \in E : e.pattern \in EntryPatterns /\ e.level \in EntryLevels
    OBVIOUS
  <2>2. flag \in Seq(E)
    OBVIOUS
  <2> HIDE DEF E
  <2>3. \A k \in 1..n : flag[k] \in E
    BY <2>2
  <2> QED BY <2>1, <2>2, <2>3
<1>1. "=" \in C /\ Comma \in C
  BY DEF EntryTexts
<1> HIDE DEF n, C, B
<1>2. pat \in [1..n -> Seq(C)] /\ lev \in [1..n -> Seq(C)]
  BY <1>0, EntryTextFacts DEF C
<1>3. \A k \in 1..n : flag[k].pattern = pat[k] /\ flag[k].level = lev[k]
  OBVIOUS
<1>4. \A k \in 1..n : \A i \in 1..Len(pat[k]) : pat[k][i] # "="
  BY <1>0, EntryTextFacts
<1>5. \A k \in 1..n : \A i \in 1..Len(lev[k]) : lev[k][i] # Comma
  BY <1>0, EntryTextFacts
<1>6. \A k \in 1..n : KeptOf(flag[k]) = Read(pat[k], lev[k])
  BY <1>0, <1>3, KeptRead
<1>7. \A k \in 1..n : KeptOf(flag[k]) \in Seq(B)
  <2> HIDE DEF pat, lev
  <2> SUFFICES ASSUME NEW k \in 1..n PROVE Read(pat[k], lev[k]) \in Seq(B)
    BY <1>6
  <2>1. pat[k] \in Seq(C) /\ lev[k] \in Seq(C)
    BY <1>2
  <2> QED BY <2>1, ReadTypes DEF B
<1> HIDE DEF pat, lev
<1>8. /\ RenderedFrom \in [0..n -> Seq(C)] /\ RenderedFrom[n] = <<>>
      /\ \A k \in 0..(n - 1) :
           RenderedFrom[k] = pat[k + 1] \o (<<"=">> \o (lev[k + 1] \o
             IF k + 1 = n THEN <<>> ELSE <<Comma>> \o RenderedFrom[k + 1]))
  BY <1>0, <1>1, <1>2, <1>3, RenderedTable DEF n
<1>9. /\ ReadableFrom[n] = <<>>
      /\ \A k \in 0..(n - 1) : ReadableFrom[k] = KeptOf(flag[k + 1]) \o ReadableFrom[k + 1]
  BY <1>0, <1>7, ReadableTable DEF n
<1>10. \A k \in 0..(n - 1) : ReadableFrom[k] = Read(pat[k + 1], lev[k + 1]) \o ReadableFrom[k + 1]
  <2> SUFFICES ASSUME NEW k \in 0..(n - 1)
               PROVE  ReadableFrom[k] = Read(pat[k + 1], lev[k + 1]) \o ReadableFrom[k + 1]
    OBVIOUS
  <2>1. k + 1 \in 1..n
    BY <1>0
  <2> QED BY <1>6, <1>9, <2>1, Zenon
<1>11. ParseVmodule(RenderedFrom[0]) = ReadableFrom[0]
  <2> DEFINE x == RenderedFrom
             y == ReadableFrom
  <2> HIDE DEF x, y
  <2>1. x \in [0..n -> Seq(C)] /\ x[n] = <<>> /\ y[n] = <<>>
    BY <1>8, <1>9 DEF x, y
  <2>2. \A k \in 0..(n - 1) :
           x[k] = pat[k + 1] \o (<<"=">> \o (lev[k + 1] \o
                    IF k + 1 = n THEN <<>> ELSE <<Comma>> \o x[k + 1]))
    BY <1>8, Zenon DEF x
  <2>3. \A k \in 0..(n - 1) : y[k] = Read(pat[k + 1], lev[k + 1]) \o y[k + 1]
    BY <1>10, Zenon DEF y
  <2>4. n \in Nat
    BY <1>0
  <2>5. FlagText(C, n, pat, lev, x)
    BY <1>1, <1>2, <1>4, <1>5, <2>1, <2>2, <2>4, Zenon DEF FlagText
  <2>6. FlagList(n, pat, lev, y)
    BY <2>1, <2>3, Zenon DEF FlagList
  <2> QED BY <2>5, <2>6, EntriesRecovered DEF x, y
<1> QED BY <1>11 DEF FlagEntriesRecovered

(* FlagEntriesRecovered for a flag of any number of entries. *)
THEOREM FlagsRecovered == VModuleInit /\ [][VModuleNext]_vmoduleVars => []FlagEntriesRecovered
<1> DEFINE Entries == flag \in Seq([pattern: EntryPatterns, level: EntryLevels])
<1>1. VModuleInit => Entries
  BY DEF VModuleInit
<1>2. Entries /\ [VModuleNext]_vmoduleVars => Entries'
  <2> SUFFICES ASSUME Entries, [VModuleNext]_vmoduleVars PROVE Entries'
    OBVIOUS
  <2>1. CASE GrowPattern
    BY <2>1 DEF GrowPattern
  <2>2. CASE GrowString
    BY <2>2 DEF GrowString
  <2>3. CASE GrowFlag
    <3>1. PICK p \in EntryPatterns, l \in EntryLevels :
                 flag' = Append(flag, [pattern |-> p, level |-> l])
      BY <2>3 DEF GrowFlag
    <3> QED BY <3>1
  <2>4. CASE UNCHANGED vmoduleVars
    BY <2>4 DEF vmoduleVars
  <2> QED BY <2>1, <2>2, <2>3, <2>4 DEF VModuleNext
<1>3. Entries => FlagEntriesRecovered
  BY RecoveredWherever
<1> QED BY <1>1, <1>2, <1>3, PTL
-----------------------------------------------------------------------------
(* Every --vmodule text is parsed into a list of entries. *)
LEMMA FlagEntryTypes ==
  \A given \in VmoduleFlags : FlagEntries[given] \in Seq(VModuleInfo)
<1> SUFFICES ASSUME NEW given \in VmoduleFlags
             PROVE  ParseVmodule(given) \in Seq(VModuleInfo)
  BY DEF FlagEntries
<1> DEFINE C == STRING
<1>1. given \in Seq(C)
  BY FlagsAssumption
<1> HIDE DEF C
<1>2. ParseVmodule(given) \in Seq([module_pattern : Seq(C), vlog_level : Int])
  BY <1>1, ParseTypes
<1> QED BY <1>2, Zenon DEF C, VModuleInfo

(* What SetVLOGLevel's locals say while it holds the lock: the entries it  *)
(* has still to scan are in the list; while it walks the cached sites, its *)
(* new entry is the head of the list and carries its pattern.              *)
LocalsOK ==
  \A t \in Threads :
    /\ pc[t] = "set_scan" => idx[t] <= Len(vmodule_list)
    /\ pc[t] = "set_walk" =>
         /\ idx[t] >= 1
         /\ ptr[t] = Len(vmodule_list) /\ ptr[t] >= 1
         /\ vmodule_list[ptr[t]].module_pattern = arg[t][1]

(* No site is cached before the --vmodule flag has been parsed. *)
NothingCachedEarly ==
  ~inited_vmodule => \A s \in Sites : level[s] = Unset

IInv == /\ TypeOK /\ LockHeld /\ LocalsOK /\ NothingCachedEarly
        /\ CachedListExact /\ CacheCoherent

-----------------------------------------------------------------------------
(* Facts about the lists. *)

\* The locals a call leaves behind are typed.
LEMMA NoArgType == NoArg \in Args
<1>1. PICK p \in Patterns, l \in Levels : TRUE
  BY LevelsAssumption, PatternsAssumption
<1>2. <<p, l>> \in Args
  BY <1>1 DEF Args
<1> QED BY <1>2 DEF NoArg

\* New entries go in front: the old ones keep their numbers.
LEMMA PutInFrontKeeps ==
  ASSUME NEW S, NEW list \in Seq(S), NEW entries \in Seq(S)
  PROVE  LET new == PutInFront(list, entries)
         IN /\ new \in Seq(S)
            /\ Len(new) >= Len(list)
            /\ \A k \in 1..Len(list) : new[k] = list[k]
<1>1. Reverse(entries) \in Seq(S) /\ Len(Reverse(entries)) = Len(entries)
  BY DEF Reverse
<1> QED BY <1>1 DEF PutInFront

\* Putting an element at the head of a list.
LEMMA PushFacts ==
  ASSUME NEW S, NEW x \in S, NEW list \in Seq(S)
  PROVE  LET new == <<x>> \o list
         IN /\ new \in Seq(S)
            /\ Len(new) = Len(list) + 1
            /\ new[1] = x
            /\ \A k \in 1..Len(list) : new[k + 1] = list[k]
<1>1. <<x>> \in Seq(S) /\ Len(<<x>>) = 1 /\ <<x>>[1] = x
  OBVIOUS
<1> QED BY <1>1

\* Taking the i-th element off a list.
LEMMA RemoveAtFacts ==
  ASSUME NEW S, NEW list \in Seq(S), NEW i \in 1..Len(list)
  PROVE  LET new == RemoveAt(list, i)
         IN /\ new \in Seq(S)
            /\ Len(new) = Len(list) - 1
            /\ \A k \in 1..(i - 1) : new[k] = list[k]
            /\ \A k \in i..(Len(list) - 1) : new[k] = list[k + 1]
<1> DEFINE front == SubSeq(list, 1, i - 1)
           back == SubSeq(list, i + 1, Len(list))
<1>1. /\ front \in Seq(S) /\ Len(front) = i - 1
      /\ \A k \in 1..(i - 1) : front[k] = list[k]
  OBVIOUS
<1>2. /\ back \in Seq(S) /\ Len(back) = Len(list) - i
      /\ \A k \in 1..(Len(list) - i) : back[k] = list[k + i]
  OBVIOUS
<1>3. RemoveAt(list, i) = front \o back
  BY DEF RemoveAt
<1> HIDE DEF front, back
<1>4. \A k \in i..(Len(list) - 1) : (front \o back)[k] = back[k - (i - 1)]
  BY <1>1, <1>2
<1>5. \A k \in 1..(i - 1) : (front \o back)[k] = front[k]
  BY <1>1, <1>2
<1>6. /\ (front \o back) \in Seq(S) /\ Len(front \o back) = Len(list) - 1
  BY <1>1, <1>2
<1>7. \A k \in i..(Len(list) - 1) :
         /\ k - (i - 1) \in 1..(Len(list) - i)
         /\ (k - (i - 1)) + i = k + 1
  OBVIOUS
<1>8. \A k \in i..(Len(list) - 1) : back[k - (i - 1)] = list[k + 1]
  BY <1>2, <1>7
<1> QED BY <1>1, <1>3, <1>4, <1>5, <1>6, <1>8

\* Taking an element off a list without repetitions takes away that element.
LEMMA RemoveDistinct ==
  ASSUME NEW S, NEW old \in Seq(S), NEW i \in 1..Len(old),
         \A j, m \in 1..Len(old) : old[j] = old[m] => j = m
  PROVE  LET new == RemoveAt(old, i)
         IN /\ \A j, m \in 1..Len(new) : new[j] = new[m] => j = m
            /\ \A x : (\E j \in 1..Len(new) : new[j] = x)
                        <=> (x # old[i] /\ \E j \in 1..Len(old) : old[j] = x)
<1> DEFINE new == RemoveAt(old, i)
<1>0. /\ new \in Seq(S) /\ Len(new) = Len(old) - 1
      /\ \A k \in 1..(i - 1) : new[k] = old[k]
      /\ \A k \in i..(Len(old) - 1) : new[k] = old[k + 1]
  BY RemoveAtFacts
<1> HIDE DEF new
<1> DEFINE to(j) == IF j < i THEN j ELSE j + 1
<1>1. \A j \in 1..Len(new) : /\ to(j) \in 1..Len(old) /\ to(j) # i
                             /\ new[j] = old[to(j)]
  BY <1>0
<1>2. \A j, m \in 1..Len(new) : to(j) = to(m) => j = m
  BY <1>0
<1>3. \A j \in 1..Len(old) : j # i => \E m \in 1..Len(new) : new[m] = old[j]
  <2> SUFFICES ASSUME NEW j \in 1..Len(old), j # i
               PROVE  \E m \in 1..Len(new) : new[m] = old[j]
    OBVIOUS
  <2>1. CASE j < i
    BY <1>0, <2>1
  <2>2. CASE j > i
    <3>1. j - 1 \in i..(Len(old) - 1) /\ (j - 1) + 1 = j
      BY <2>2
    <3>2. new[j - 1] = old[j]
      BY <1>0, <3>1
    <3> QED BY <1>0, <3>1, <3>2
  <2> QED BY <2>1, <2>2
<1> HIDE DEF to
<1>4. ASSUME NEW j \in 1..Len(new), NEW m \in 1..Len(new), new[j] = new[m]
      PROVE  j = m
  <2>1. to(j) = to(m)
    BY <1>1, <1>4
  <2> QED BY <1>2, <2>1
<1>5. \A j \in 1..Len(new) : new[j] # old[i] /\ \E m \in 1..Len(old) : old[m] = new[j]
  BY <1>1
<1>6. ASSUME NEW x, NEW j \in 1..Len(new), new[j] = x
      PROVE  x # old[i] /\ \E m \in 1..Len(old) : old[m] = x
  BY <1>5, <1>6
<1>7. ASSUME NEW x, x # old[i], NEW j \in 1..Len(old), old[j] = x
      PROVE  \E m \in 1..Len(new) : new[m] = x
  BY <1>3, <1>7
<1> QED BY <1>4, <1>6, <1>7 DEF new

-----------------------------------------------------------------------------
\* The inductive invariant holds when the program starts.
LEMMA InitIInv == Init => IInv
<1> SUFFICES ASSUME Init PROVE IInv
  OBVIOUS
<1>1. TypeOK
  <2>1. /\ level \in [Sites -> Unset..Len(vmodule_list)]
        /\ ptr \in [Threads -> Unset..Len(vmodule_list)]
    BY DEF Init, Unset, Default
  <2>2. /\ vmodule_list \in Seq(VModuleInfo) /\ before \in Seq(VModuleInfo)
        /\ cached_site_list \in Seq(Sites)
    BY DEF Init
  <2>3. /\ pc \in [Threads -> Pc] /\ site \in [Threads -> Sites]
        /\ arg \in [Threads -> Args]
    BY NoArgType, SitesAssumption DEF Init, Pc
  <2>4. /\ idx \in [Threads -> Nat] /\ result \in [Threads -> Int]
        /\ calls \in [Threads -> Nat]
    BY DEF Init
  <2>5. /\ base_name \in [Sites -> BOOLEAN] /\ found \in [Threads -> BOOLEAN]
        /\ inited_vmodule \in BOOLEAN
    BY DEF Init
  <2> QED BY <2>1, <2>2, <2>3, <2>4, <2>5 DEF Init, TypeOK
<1>2. LockHeld
  BY NoOneAssumption DEF Init, LockHeld, Critical
<1>3. LocalsOK
  BY DEF Init, LocalsOK
<1>4. CachedListExact
  BY DEF Init, CachedListExact, Unset, Default
<1>5. CacheCoherent
  BY DEF Init, CacheCoherent, Unset, Default
<1>6. NothingCachedEarly
  BY DEF Init, NothingCachedEarly
<1> QED BY <1>1, <1>2, <1>3, <1>4, <1>5, <1>6 DEF IInv

\* What a step may do with the list of entries.
LEMMA ListGrows ==
  ASSUME TypeOK, LocalsOK, NEW t \in Threads
  PROVE  /\ InitVLOG3(t) =>
              /\ vmodule_list' \in Seq(VModuleInfo)
              /\ Len(vmodule_list') >= Len(vmodule_list)
              /\ \A k \in DOMAIN vmodule_list : vmodule_list'[k] = vmodule_list[k]
              /\ inited_vmodule => vmodule_list' = vmodule_list
         /\ SetScan(t) =>
              /\ vmodule_list' \in Seq(VModuleInfo)
              /\ Len(vmodule_list') = Len(vmodule_list)
              /\ \A k \in DOMAIN vmodule_list :
                   vmodule_list'[k].module_pattern = vmodule_list[k].module_pattern
         /\ SetInsert(t) =>
              /\ vmodule_list' \in Seq(VModuleInfo)
              /\ Len(vmodule_list') = Len(vmodule_list) + 1
              /\ \A k \in DOMAIN vmodule_list : vmodule_list'[k] = vmodule_list[k]
              /\ vmodule_list'[Len(vmodule_list')].module_pattern = arg[t][1]
<1>1. ASSUME InitVLOG3(t)
      PROVE  /\ vmodule_list' \in Seq(VModuleInfo)
             /\ Len(vmodule_list') >= Len(vmodule_list)
             /\ \A k \in DOMAIN vmodule_list : vmodule_list'[k] = vmodule_list[k]
             /\ inited_vmodule => vmodule_list' = vmodule_list
  <2>1. FlagEntries[FLAGS_vmodule] \in Seq(VModuleInfo)
    BY FlagEntryTypes DEF TypeOK
  <2>2. vmodule_list' = IF inited_vmodule THEN vmodule_list
                        ELSE PutInFront(vmodule_list, FlagEntries[FLAGS_vmodule])
    BY <1>1 DEF InitVLOG3, VLOG2Initializer
  <2>3. CASE inited_vmodule
    BY <2>2, <2>3 DEF TypeOK
  <2>4. CASE ~inited_vmodule
    <3>1. vmodule_list \in Seq(VModuleInfo)
      BY DEF TypeOK
    <3>2. LET new == PutInFront(vmodule_list, FlagEntries[FLAGS_vmodule])
          IN /\ new \in Seq(VModuleInfo)
             /\ Len(new) >= Len(vmodule_list)
             /\ \A k \in 1..Len(vmodule_list) : new[k] = vmodule_list[k]
      BY <3>1, <2>1, PutInFrontKeeps
    <3> QED BY <2>2, <2>4, <3>1, <3>2
  <2> QED BY <2>3, <2>4
<1>2. ASSUME SetScan(t)
      PROVE  /\ vmodule_list' \in Seq(VModuleInfo)
             /\ Len(vmodule_list') = Len(vmodule_list)
             /\ \A k \in DOMAIN vmodule_list :
                  vmodule_list'[k].module_pattern = vmodule_list[k].module_pattern
  <2>1. idx[t] \in 1..Len(vmodule_list)
    BY <1>2 DEF SetScan, LocalsOK, TypeOK
  <2>2. arg[t][2] \in Int
    BY LevelsAssumption DEF TypeOK, Args
  <2>3. \/ vmodule_list' = vmodule_list
        \/ vmodule_list' = [vmodule_list EXCEPT ![idx[t]] =
                               WithLevel(vmodule_list[idx[t]], arg[t][2])]
    BY <1>2 DEF SetScan
  <2>4. \A k \in DOMAIN vmodule_list : vmodule_list[k] \in VModuleInfo
    BY DEF TypeOK
  <2>5. WithLevel(vmodule_list[idx[t]], arg[t][2]) \in VModuleInfo
    BY <2>1, <2>2, <2>4 DEF WithLevel, VModuleInfo
  <2>6. WithLevel(vmodule_list[idx[t]], arg[t][2]).module_pattern
          = vmodule_list[idx[t]].module_pattern
    BY DEF WithLevel
  <2>7. vmodule_list \in Seq(VModuleInfo)
    BY DEF TypeOK
  <2> HIDE DEF VModuleInfo
  <2> QED BY <2>1, <2>3, <2>5, <2>6, <2>7
<1>3. ASSUME SetInsert(t)
      PROVE  /\ vmodule_list' \in Seq(VModuleInfo)
             /\ Len(vmodule_list') = Len(vmodule_list) + 1
             /\ \A k \in DOMAIN vmodule_list : vmodule_list'[k] = vmodule_list[k]
             /\ vmodule_list'[Len(vmodule_list')].module_pattern = arg[t][1]
  <2>1. arg[t][1] \in Seq(STRING) /\ arg[t][2] \in Int
    BY LevelsAssumption, PatternsAssumption DEF TypeOK, Args
  <2>2. [module_pattern |-> arg[t][1], vlog_level |-> arg[t][2]] \in VModuleInfo
    BY <2>1 DEF VModuleInfo
  <2> QED BY <1>3, <2>2 DEF SetInsert, Link, TypeOK
<1> QED BY <1>1, <1>2, <1>3

\* No step of a thread, and no assignment of FLAGS_v, breaks a type.
LEMMA TypeStep == TypeOK /\ LocalsOK /\ LockHeld /\ [Next]_vars => TypeOK'
<1> SUFFICES ASSUME TypeOK, LocalsOK, LockHeld, [Next]_vars PROVE TypeOK'
  OBVIOUS
<1> USE DEF TypeOK, globals, locals, Pc, Unset, Default
<1>1. ASSUME NEW t \in Threads, NEW s \in Sites, CallVlogIsOn(t, s) PROVE TypeOK'
  BY <1>1 DEF CallVlogIsOn, Goto
<1>2. ASSUME NEW t \in Threads, NEW a \in Args, CallSetVLOGLevel(t, a) PROVE TypeOK'
  BY <1>2, LevelsAssumption DEF CallSetVLOGLevel, Goto
<1>3. ASSUME NEW t \in Threads, CheckLevel(t) PROVE TypeOK'
  BY <1>3 DEF CheckLevel, Goto
<1>4. ASSUME NEW t \in Threads, DerefLevel(t) PROVE TypeOK'
  BY <1>4, NoArgType, SitesAssumption DEF DerefLevel, Return, Goto
<1>5. ASSUME NEW t \in Threads, InitLock(t) PROVE TypeOK'
  BY <1>5 DEF InitLock, Acquire, Goto
<1>6. ASSUME NEW t \in Threads, InitVLOG3(t) PROVE TypeOK'
  <2>1. /\ vmodule_list' \in Seq(VModuleInfo)
        /\ Len(vmodule_list') >= Len(vmodule_list)
    BY <1>6, ListGrows
  <2>2. PICK p \in 0..Len(vmodule_list') :
          /\ ptr' = [ptr EXCEPT ![t] = p]
          /\ IF inited_vmodule THEN CacheLevel(site[t], p)
             ELSE UNCHANGED <<level, base_name, cached_site_list>>
    BY <1>6 DEF InitVLOG3
  <2>3. /\ level' \in [Sites -> Unset..Len(vmodule_list')]
        /\ ptr' \in [Threads -> Unset..Len(vmodule_list')]
    <3>1. level' = level \/ level' = [level EXCEPT ![site[t]] = p]
      BY <2>2, Zenon DEF CacheLevel
    <3>2. /\ Len(vmodule_list) \in Nat /\ Len(vmodule_list') \in Nat
          /\ level \in [Sites -> Unset..Len(vmodule_list)]
          /\ ptr \in [Threads -> Unset..Len(vmodule_list)]
      BY <2>1
    <3> HIDE DEF TypeOK
    <3> QED BY <2>1, <2>2, <3>1, <3>2
  <2>4. /\ base_name' \in [Sites -> BOOLEAN]
        /\ cached_site_list' \in Seq(Sites)
    <3>1. \/ UNCHANGED <<base_name, cached_site_list>>
          \/ /\ base_name' = [base_name EXCEPT ![site[t]] = TRUE]
             /\ cached_site_list' = <<site[t]>> \o cached_site_list
      BY <2>2, Zenon DEF CacheLevel
    <3>2. /\ base_name \in [Sites -> BOOLEAN] /\ site[t] \in Sites
          /\ cached_site_list \in Seq(Sites)
      OBVIOUS
    <3> HIDE DEF TypeOK
    <3>3. base_name' \in [Sites -> BOOLEAN]
      BY <3>1, <3>2
    <3>4. <<site[t]>> \o cached_site_list \in Seq(Sites)
      BY <3>2, PushFacts
    <3>5. cached_site_list' \in Seq(Sites)
      BY <3>1, <3>2, <3>4
    <3> QED BY <3>3, <3>5
  <2>5. inited_vmodule' \in BOOLEAN /\ pc' \in [Threads -> Pc]
    BY <1>6 DEF InitVLOG3, VLOG2Initializer, Goto
  <2> QED BY <1>6, <2>1, <2>3, <2>4, <2>5 DEF InitVLOG3
<1>7. ASSUME NEW t \in Threads, InitReturn(t) PROVE TypeOK'
  BY <1>7, NoArgType, SitesAssumption DEF InitReturn, Return, Goto
<1>8. ASSUME NEW t \in Threads, SetLock(t) PROVE TypeOK'
  BY <1>8 DEF SetLock, Acquire, Goto
<1>9. ASSUME NEW t \in Threads, SetScan(t) PROVE TypeOK'
  <2>1. /\ vmodule_list' \in Seq(VModuleInfo)
        /\ Len(vmodule_list') = Len(vmodule_list)
    BY <1>9, ListGrows
  <2>2. idx[t] \in 1..Len(vmodule_list)
    BY <1>9 DEF SetScan, LocalsOK
  <2>6. vmodule_list[idx[t]] \in VModuleInfo
    BY <2>2
  <2>5. vmodule_list[idx[t]].vlog_level \in Int
    <3> HIDE DEF TypeOK
    <3> QED BY <2>6 DEF VModuleInfo
  <2>3. result' \in [Threads -> Int] /\ found' \in [Threads -> BOOLEAN]
    BY <1>9, <2>5 DEF SetScan
  <2>4. idx' \in [Threads -> Nat]
    BY <1>9 DEF SetScan
  <2> QED BY <1>9, <2>1, <2>3, <2>4 DEF SetScan
<1>10. ASSUME NEW t \in Threads, SetFound(t) PROVE TypeOK'
  BY <1>10 DEF SetFound, Goto
<1>11. ASSUME NEW t \in Threads, SetInsert(t) PROVE TypeOK'
  <2>1. /\ vmodule_list' \in Seq(VModuleInfo)
        /\ Len(vmodule_list') = Len(vmodule_list) + 1
    BY <1>11, ListGrows
  <2>2. /\ level' \in [Sites -> Unset..Len(vmodule_list')]
        /\ ptr' \in [Threads -> Unset..Len(vmodule_list')]
    BY <1>11, <2>1 DEF SetInsert
  <2>3. pc' \in [Threads -> Pc] /\ idx' \in [Threads -> Nat]
    BY <1>11 DEF SetInsert, Goto
  <2> QED BY <1>11, <2>1, <2>2, <2>3 DEF SetInsert
<1>12. ASSUME NEW t \in Threads, SetWalk(t) PROVE TypeOK'
  <2>1. idx[t] \in 1..Len(cached_site_list)
    <3>1. pc[t] = "set_walk" /\ idx[t] <= Len(cached_site_list)
      BY <1>12 DEF SetWalk, Walking
    <3> QED BY <3>1 DEF LocalsOK
  <2>2. RemoveAt(cached_site_list, idx[t]) \in Seq(Sites)
    BY <2>1, RemoveAtFacts
  <2>3. CASE Matches[arg[t][1]][Module[cached_site_list[idx[t]]]]
    BY <1>12, <2>1, <2>2, <2>3 DEF SetWalk
  <2>4. CASE ~Matches[arg[t][1]][Module[cached_site_list[idx[t]]]]
    <3>1. /\ idx' = [idx EXCEPT ![t] = @ + 1]
          /\ UNCHANGED <<level, cached_site_list>>
      BY <1>12, <2>4, Zenon DEF SetWalk
    <3> QED BY <1>12, <3>1 DEF SetWalk
  <2> QED BY <2>3, <2>4
<1>13. ASSUME NEW t \in Threads, SetWalked(t) PROVE TypeOK'
  BY <1>13 DEF SetWalked, Goto
<1>14. ASSUME NEW t \in Threads, SetUnlock(t) PROVE TypeOK'
  BY <1>14, SitesAssumption DEF SetUnlock, Release, Goto
<1>15. ASSUME NEW v \in Levels, AssignFlag(v) PROVE TypeOK'
  BY <1>15 DEF AssignFlag
<1>16. CASE UNCHANGED vars
  BY <1>16 DEF vars
<1> QED
  BY <1>1, <1>2, <1>3, <1>4, <1>5, <1>6, <1>7, <1>8, <1>9, <1>10, <1>11,
     <1>12, <1>13, <1>14, <1>15, <1>16
  DEF Next, Step, VlogIsOnStep, SetStep

\* Taking and releasing vmodule_lock keeps the threads out of each other's way.
LEMMA LockStep == TypeOK /\ LockHeld /\ [Next]_vars => LockHeld'
<1> SUFFICES ASSUME TypeOK, LockHeld, [Next]_vars PROVE LockHeld'
  OBVIOUS
<1>0. pc \in [Threads -> Pc]
  BY DEF TypeOK
<1>1. ASSUME NEW t \in Threads, NEW s \in Sites, CallVlogIsOn(t, s) PROVE LockHeld'
  BY <1>1, <1>0, NoOneAssumption DEF CallVlogIsOn, Goto, LockHeld, Critical
<1>2. ASSUME NEW t \in Threads, NEW a \in Args, CallSetVLOGLevel(t, a) PROVE LockHeld'
  BY <1>2, <1>0, NoOneAssumption DEF CallSetVLOGLevel, Goto, LockHeld, Critical
<1>3. ASSUME NEW t \in Threads, CheckLevel(t) PROVE LockHeld'
  BY <1>3, <1>0, NoOneAssumption DEF CheckLevel, Goto, LockHeld, Critical
<1>4. ASSUME NEW t \in Threads, DerefLevel(t) PROVE LockHeld'
  BY <1>4, <1>0, NoOneAssumption DEF DerefLevel, Return, Goto, LockHeld, Critical
<1>5. ASSUME NEW t \in Threads, InitLock(t) PROVE LockHeld'
  BY <1>5, <1>0, NoOneAssumption DEF InitLock, Acquire, Goto, LockHeld, Critical
<1>6. ASSUME NEW t \in Threads, InitVLOG3(t) PROVE LockHeld'
  BY <1>6, <1>0, NoOneAssumption DEF InitVLOG3, Goto, LockHeld, Critical
<1>7. ASSUME NEW t \in Threads, InitReturn(t) PROVE LockHeld'
  BY <1>7, <1>0, NoOneAssumption DEF InitReturn, Return, Goto, LockHeld, Critical
<1>8. ASSUME NEW t \in Threads, SetLock(t) PROVE LockHeld'
  BY <1>8, <1>0, NoOneAssumption DEF SetLock, Acquire, Goto, LockHeld, Critical
<1>9. ASSUME NEW t \in Threads, SetScan(t) PROVE LockHeld'
  BY <1>9, <1>0, NoOneAssumption DEF SetScan, Goto, LockHeld, Critical
<1>10. ASSUME NEW t \in Threads, SetFound(t) PROVE LockHeld'
  BY <1>10, <1>0, NoOneAssumption DEF SetFound, Goto, LockHeld, Critical
<1>11. ASSUME NEW t \in Threads, SetInsert(t) PROVE LockHeld'
  BY <1>11, <1>0, NoOneAssumption DEF SetInsert, Goto, LockHeld, Critical
<1>12. ASSUME NEW t \in Threads, SetWalk(t) PROVE LockHeld'
  BY <1>12, <1>0, NoOneAssumption DEF SetWalk, Goto, LockHeld, Critical
<1>13. ASSUME NEW t \in Threads, SetWalked(t) PROVE LockHeld'
  BY <1>13, <1>0, NoOneAssumption DEF SetWalked, Goto, LockHeld, Critical
<1>14. ASSUME NEW t \in Threads, SetUnlock(t) PROVE LockHeld'
  BY <1>14, <1>0, NoOneAssumption DEF SetUnlock, Release, Goto, LockHeld, Critical
<1>15. ASSUME NEW v \in Levels, AssignFlag(v) PROVE LockHeld'
  BY <1>15, <1>0, NoOneAssumption DEF AssignFlag, Goto, LockHeld, Critical
<1>16. CASE UNCHANGED vars
  BY <1>16, <1>0, NoOneAssumption DEF vars, Goto, LockHeld, Critical
<1> QED
  BY <1>1, <1>2, <1>3, <1>4, <1>5, <1>6, <1>7, <1>8, <1>9, <1>10, <1>11,
     <1>12, <1>13, <1>14, <1>15, <1>16
  DEF Next, Step, VlogIsOnStep, SetStep

\* While one thread is inside, the others are not.
LEMMA OneInside ==
  ASSUME LockHeld, NEW t \in Threads, pc[t] \in Critical
  PROVE  \A u \in Threads \ {t} : pc[u] \notin Critical
BY DEF LockHeld

\* SetVLOGLevel's loop positions stay valid: nobody else moves the lists.
LEMMA LocalsStep ==
  TypeOK /\ LockHeld /\ LocalsOK /\ [Next]_vars => LocalsOK'
<1> SUFFICES ASSUME TypeOK, LockHeld, LocalsOK, [Next]_vars PROVE LocalsOK'
  OBVIOUS
<1>0. /\ pc \in [Threads -> Pc] /\ ptr \in [Threads -> Unset..Len(vmodule_list)]
      /\ idx \in [Threads -> Nat] /\ arg \in [Threads -> Args]
      /\ Len(vmodule_list) \in Nat
  BY DEF TypeOK
<1>1. ASSUME NEW t \in Threads, NEW s \in Sites, CallVlogIsOn(t, s)
      PROVE  LocalsOK'
  BY <1>1, <1>0 DEF CallVlogIsOn, Goto, LocalsOK, globals, locals
<1>2. ASSUME NEW t \in Threads, NEW a \in Args, CallSetVLOGLevel(t, a)
      PROVE  LocalsOK'
  BY <1>2, <1>0 DEF CallSetVLOGLevel, Goto, LocalsOK, globals, locals
<1>3. ASSUME NEW t \in Threads, CheckLevel(t) PROVE LocalsOK'
  BY <1>3, <1>0 DEF CheckLevel, Goto, LocalsOK, globals, locals
<1>4. ASSUME NEW t \in Threads, DerefLevel(t) PROVE LocalsOK'
  BY <1>4, <1>0 DEF DerefLevel, Return, Goto, LocalsOK, globals, locals
<1>5. ASSUME NEW t \in Threads, InitLock(t) PROVE LocalsOK'
  BY <1>5, <1>0 DEF InitLock, Acquire, Goto, LocalsOK, globals, locals
<1>6. ASSUME NEW t \in Threads, InitVLOG3(t) PROVE LocalsOK'
  <2>1. \A u \in Threads \ {t} : pc[u] \notin Critical /\ pc'[u] = pc[u]
    BY <1>6, <1>0, OneInside DEF InitVLOG3, Critical, Goto
  <2> QED BY <1>6, <1>0, <2>1 DEF InitVLOG3, Goto, LocalsOK, Critical
<1>7. ASSUME NEW t \in Threads, InitReturn(t) PROVE LocalsOK'
  BY <1>7, <1>0 DEF InitReturn, Return, Goto, LocalsOK, globals, locals
<1>8. ASSUME NEW t \in Threads, SetLock(t) PROVE LocalsOK'
  BY <1>8, <1>0 DEF SetLock, Acquire, Goto, LocalsOK, globals, locals
<1>9. ASSUME NEW t \in Threads, SetScan(t) PROVE LocalsOK'
  <2>1. \A u \in Threads \ {t} : pc[u] \notin Critical /\ pc'[u] = pc[u]
    BY <1>9, <1>0, OneInside DEF SetScan, Critical
  <2>2. Len(vmodule_list') = Len(vmodule_list)
    BY <1>9, ListGrows
  <2>3. pc'[t] = "set_scan" /\ idx'[t] = idx[t] - 1
    BY <1>9, <1>0 DEF SetScan
  <2> QED BY <1>9, <1>0, <2>1, <2>2, <2>3 DEF SetScan, LocalsOK, Critical
<1>10. ASSUME NEW t \in Threads, SetFound(t) PROVE LocalsOK'
  BY <1>10, <1>0 DEF SetFound, Goto, LocalsOK, globals, locals
<1>11. ASSUME NEW t \in Threads, SetInsert(t) PROVE LocalsOK'
  <2>1. \A u \in Threads \ {t} : pc[u] \notin Critical /\ pc'[u] = pc[u]
    BY <1>11, <1>0, OneInside DEF SetInsert, Critical, Goto
  <2>2. /\ Len(vmodule_list') = Len(vmodule_list) + 1
        /\ vmodule_list'[Len(vmodule_list')].module_pattern = arg[t][1]
    BY <1>11, ListGrows
  <2>3. /\ pc'[t] = "set_walk" /\ idx'[t] = 1 /\ arg' = arg
        /\ ptr'[t] = Len(vmodule_list) + 1
    BY <1>11, <1>0 DEF SetInsert, Goto
  <2> QED BY <1>0, <2>1, <2>2, <2>3 DEF LocalsOK, Critical
<1>12. ASSUME NEW t \in Threads, SetWalk(t) PROVE LocalsOK'
  <2>1. /\ idx' = idx \/ idx' = [idx EXCEPT ![t] = @ + 1]
        /\ UNCHANGED <<vmodule_list, pc, ptr, arg>> /\ pc[t] = "set_walk"
    BY <1>12, Zenon DEF SetWalk
  <2>2. \A u \in Threads : idx'[u] >= idx[u] /\ (u # t => idx'[u] = idx[u])
    BY <1>0, <2>1
  <2> QED BY <1>0, <2>1, <2>2 DEF LocalsOK
<1>13. ASSUME NEW t \in Threads, SetWalked(t) PROVE LocalsOK'
  BY <1>13, <1>0 DEF SetWalked, Goto, LocalsOK, globals, locals
<1>14. ASSUME NEW t \in Threads, SetUnlock(t) PROVE LocalsOK'
  BY <1>14, <1>0 DEF SetUnlock, Release, Goto, LocalsOK, globals, locals
<1>15. ASSUME NEW v \in Levels, AssignFlag(v) PROVE LocalsOK'
  BY <1>15, <1>0 DEF AssignFlag, Goto, LocalsOK, globals, locals
<1>16. CASE UNCHANGED vars
  BY <1>16, <1>0 DEF vars, Goto, LocalsOK, globals, locals
<1> QED
  BY <1>1, <1>2, <1>3, <1>4, <1>5, <1>6, <1>7, <1>8, <1>9, <1>10, <1>11,
     <1>12, <1>13, <1>14, <1>15, <1>16
  DEF Next, Step, VlogIsOnStep, SetStep

\* InitVLOG3__ caches nothing in the call that parses the flag.
LEMMA EarlyStep ==
  TypeOK /\ LocalsOK /\ LockHeld /\ NothingCachedEarly /\ CachedListExact
    /\ [Next]_vars => NothingCachedEarly'
<1> SUFFICES ASSUME TypeOK, LocalsOK, LockHeld, NothingCachedEarly,
                    CachedListExact, [Next]_vars
             PROVE  NothingCachedEarly'
  OBVIOUS
<1>1. ASSUME NEW t \in Threads, NEW s \in Sites, CallVlogIsOn(t, s)
      PROVE  NothingCachedEarly'
  BY <1>1 DEF CallVlogIsOn, NothingCachedEarly, globals
<1>2. ASSUME NEW t \in Threads, NEW a \in Args, CallSetVLOGLevel(t, a)
      PROVE  NothingCachedEarly'
  BY <1>2 DEF CallSetVLOGLevel, NothingCachedEarly, globals
<1>3. ASSUME NEW t \in Threads, CheckLevel(t) PROVE NothingCachedEarly'
  BY <1>3 DEF CheckLevel, NothingCachedEarly, globals
<1>4. ASSUME NEW t \in Threads, DerefLevel(t) PROVE NothingCachedEarly'
  BY <1>4 DEF DerefLevel, Return, NothingCachedEarly, globals
<1>5. ASSUME NEW t \in Threads, InitLock(t) PROVE NothingCachedEarly'
  BY <1>5 DEF InitLock, Acquire, NothingCachedEarly, globals
<1>6. ASSUME NEW t \in Threads, InitVLOG3(t) PROVE NothingCachedEarly'
  BY <1>6 DEF InitVLOG3, VLOG2Initializer, NothingCachedEarly
<1>7. ASSUME NEW t \in Threads, InitReturn(t) PROVE NothingCachedEarly'
  BY <1>7 DEF InitReturn, Return, NothingCachedEarly, globals
<1>8. ASSUME NEW t \in Threads, SetLock(t) PROVE NothingCachedEarly'
  BY <1>8 DEF SetLock, Acquire, NothingCachedEarly, globals
<1>9. ASSUME NEW t \in Threads, SetScan(t) PROVE NothingCachedEarly'
  BY <1>9 DEF SetScan, NothingCachedEarly, globals
<1>10. ASSUME NEW t \in Threads, SetFound(t) PROVE NothingCachedEarly'
  BY <1>10 DEF SetFound, NothingCachedEarly, globals
<1>11. ASSUME NEW t \in Threads, SetInsert(t) PROVE NothingCachedEarly'
  BY <1>11 DEF SetInsert, NothingCachedEarly, globals
<1>12. ASSUME NEW t \in Threads, SetWalk(t) PROVE NothingCachedEarly'
  <2>1. idx[t] \in 1..Len(cached_site_list) /\ inited_vmodule' = inited_vmodule
    BY <1>12 DEF SetWalk, Walking, LocalsOK, TypeOK
  <2>2. cached_site_list[idx[t]] \in Sites /\ level[cached_site_list[idx[t]]] = Default
    BY <2>1 DEF CachedListExact, TypeOK
  <2> QED BY <2>1, <2>2 DEF NothingCachedEarly, Unset, Default
<1>13. ASSUME NEW t \in Threads, SetWalked(t) PROVE NothingCachedEarly'
  BY <1>13 DEF SetWalked, NothingCachedEarly, globals
<1>14. ASSUME NEW t \in Threads, SetUnlock(t) PROVE NothingCachedEarly'
  BY <1>14 DEF SetUnlock, Release, NothingCachedEarly, globals
<1>15. ASSUME NEW v \in Levels, AssignFlag(v) PROVE NothingCachedEarly'
  BY <1>15 DEF AssignFlag, NothingCachedEarly, globals
<1>16. CASE UNCHANGED vars
  BY <1>16 DEF vars, NothingCachedEarly, globals
<1> QED
  BY <1>1, <1>2, <1>3, <1>4, <1>5, <1>6, <1>7, <1>8, <1>9, <1>10, <1>11,
     <1>12, <1>13, <1>14, <1>15, <1>16
  DEF Next, Step, VlogIsOnStep, SetStep

\* What InitVLOG3__ does with the site, when it caches.
LEMMA InitEffect ==
  ASSUME IInv, NEW t \in Threads, InitVLOG3(t), inited_vmodule
  PROVE  \E p \in 0..Len(vmodule_list) :
           /\ FindsLevel(vmodule_list, site[t], p)
           /\ CacheLevel(site[t], p)
           /\ vmodule_list' = vmodule_list
<1>1. vmodule_list' = vmodule_list
  BY ListGrows DEF IInv
<1> QED BY <1>1 DEF InitVLOG3

\* A site cached to the default has no matching entry, one cached to an
\* entry has one, unless a SetVLOGLevel walks the cached sites.
LEMMA NoWalkCoherent ==
  ASSUME IInv, NEW t \in Threads, pc[t] \in Critical, pc[t] # "set_walk",
         NEW s \in Sites
  PROVE  level[s] = Default =>
           \A k \in DOMAIN vmodule_list : ~Governs(vmodule_list[k], s)
<1>1. \A u \in Threads : pc[u] # "set_walk"
  BY OneInside DEF IInv, Critical
<1> QED BY <1>1 DEF IInv, CacheCoherent, StillToWalk

\* The three things a binding of site s to p can be.
LEMMA CacheLevelCases ==
  ASSUME IInv, NEW t \in Threads, pc[t] = "init", NEW s \in Sites,
         NEW p \in 0..Len(vmodule_list), FindsLevel(vmodule_list, s, p),
         CacheLevel(s, p)
  PROVE  /\ level' = [level EXCEPT ![s] = p]
         /\ \/ /\ p > 0 /\ Governs(vmodule_list[p], s) /\ level[s] # Default
               /\ UNCHANGED <<base_name, cached_site_list>>
            \/ /\ p = Default /\ level[s] = Default
               /\ UNCHANGED <<base_name, cached_site_list>>
            \/ /\ p = Default /\ level[s] # Default
               /\ base_name' = [base_name EXCEPT ![s] = TRUE]
               /\ cached_site_list' = <<s>> \o cached_site_list
         /\ p = Default => \A k \in DOMAIN vmodule_list : ~Governs(vmodule_list[k], s)
<1>0. /\ vmodule_list \in Seq(VModuleInfo) /\ Len(vmodule_list) \in Nat
      /\ level[s] \in Unset..Len(vmodule_list) /\ base_name \in [Sites -> BOOLEAN]
      /\ DOMAIN vmodule_list = 1..Len(vmodule_list)
  BY DEF IInv, TypeOK
<1>1. level' = [level EXCEPT ![s] = p]
  BY DEF CacheLevel
<1>2. /\ p > 0 => Governs(vmodule_list[p], s)
      /\ \A k \in (p + 1)..Len(vmodule_list) : ~Governs(vmodule_list[k], s)
  BY DEF FindsLevel, StopsAt
<1>3. level[s] = Default =>
        \A k \in DOMAIN vmodule_list : ~Governs(vmodule_list[k], s)
  BY NoWalkCoherent DEF Critical
<1>4. CASE p > 0
  <2>1. level[s] # Default
    BY <1>0, <1>2, <1>3, <1>4
  <2>2. ~JoinsCachedList(s, p)
    BY <1>4 DEF JoinsCachedList, Default
  <2>3. UNCHANGED <<base_name, cached_site_list>>
    BY <2>2, Zenon DEF CacheLevel
  <2> QED BY <1>1, <1>2, <1>4, <2>1, <2>3 DEF Default
<1>5. CASE p = 0
  <2>1. \A k \in DOMAIN vmodule_list : ~Governs(vmodule_list[k], s)
    BY <1>0, <1>2, <1>5
  <2>2. /\ level[s] = Default => base_name[s]
        /\ base_name[s] => level[s] # Unset
    BY Zenon DEF IInv, CachedListExact
  <2>3. level[s] > 0 => Governs(vmodule_list[level[s]], s)
    BY DEF IInv, CacheCoherent
  <2>4. ~(level[s] > 0)
    BY <1>0, <2>1, <2>3
  <2>5. base_name[s] <=> level[s] = Default
    BY <1>0, <2>2, <2>4 DEF Unset, Default
  <2>6. CASE base_name[s]
    <3>1. UNCHANGED <<base_name, cached_site_list>>
      BY <2>6, Zenon DEF CacheLevel, JoinsCachedList
    <3> QED BY <1>1, <1>5, <2>1, <2>5, <2>6, <3>1 DEF Default
  <2>7. CASE ~base_name[s]
    <3>1. JoinsCachedList(s, p)
      BY <1>5, <2>7 DEF JoinsCachedList, Default
    <3>2. /\ base_name' = [base_name EXCEPT ![s] = TRUE]
          /\ cached_site_list' = <<s>> \o cached_site_list
      BY <3>1, Zenon DEF CacheLevel
    <3> QED BY <1>1, <1>5, <2>1, <2>5, <2>7, <3>2 DEF Default
  <2> QED BY <2>6, <2>7
<1> QED BY <1>4, <1>5

\* One turn of the walk over the cached sites.
LEMMA WalkCases ==
  ASSUME IInv, NEW t \in Threads, SetWalk(t)
  PROVE  LET i == idx[t]
             item == cached_site_list[i]
             head == vmodule_list[Len(vmodule_list)]
         IN /\ i \in 1..Len(cached_site_list) /\ Len(vmodule_list) >= 1
            /\ item \in Sites /\ level[item] = Default
            /\ UNCHANGED <<vmodule_list, base_name, pc>>
            /\ \/ /\ Governs(head, item)
                  /\ level' = [level EXCEPT ![item] = Len(vmodule_list)]
                  /\ cached_site_list' = RemoveAt(cached_site_list, i)
                  /\ idx' = idx
               \/ /\ ~Governs(head, item)
                  /\ idx' = [idx EXCEPT ![t] = i + 1]
                  /\ UNCHANGED <<level, cached_site_list>>
<1>0. /\ pc[t] = "set_walk" /\ idx[t] <= Len(cached_site_list) /\ idx[t] \in Nat
      /\ cached_site_list \in Seq(Sites)
  BY DEF SetWalk, Walking, IInv, TypeOK
<1>1. /\ idx[t] \in 1..Len(cached_site_list) /\ Len(vmodule_list) >= 1
      /\ ptr[t] = Len(vmodule_list)
      /\ vmodule_list[Len(vmodule_list)].module_pattern = arg[t][1]
  BY <1>0 DEF IInv, LocalsOK
<1> DEFINE item == cached_site_list[idx[t]]
<1>2. item \in Sites
  BY <1>0, <1>1
<1>3. level[item] = Default
  BY <1>0, <1>1, <1>2 DEF IInv, CachedListExact
<1>4. UNCHANGED <<vmodule_list, base_name, pc>>
  BY DEF SetWalk
<1>5. Governs(vmodule_list[Len(vmodule_list)], item) <=> Matches[arg[t][1]][Module[item]]
  BY <1>1 DEF Governs
<1>6. CASE Matches[arg[t][1]][Module[item]]
  <2>1. /\ level' = [level EXCEPT ![item] = ptr[t]]
        /\ cached_site_list' = RemoveAt(cached_site_list, idx[t])
        /\ idx' = idx
    BY <1>6, Zenon DEF SetWalk
  <2> QED BY <1>1, <1>2, <1>3, <1>4, <1>5, <1>6, <2>1
<1>7. CASE ~Matches[arg[t][1]][Module[item]]
  <2>1. /\ idx' = [idx EXCEPT ![t] = idx[t] + 1]
        /\ UNCHANGED <<level, cached_site_list>>
    BY <1>7, Zenon DEF SetWalk
  <2> QED BY <1>1, <1>2, <1>3, <1>4, <1>5, <1>7, <2>1
<1> QED BY <1>6, <1>7

\* The list stays exact when an element that is in it is bound to an entry
\* and taken off.
LEMMA RemoveExact ==
  ASSUME IInv, NEW i \in 1..Len(cached_site_list), NEW k \in 1..Len(vmodule_list),
         level' = [level EXCEPT ![cached_site_list[i]] = k],
         cached_site_list' = RemoveAt(cached_site_list, i), base_name' = base_name
  PROVE  CachedListExact'
<1> DEFINE old == cached_site_list
           new == cached_site_list'
           item == old[i]
<1>0. /\ old \in Seq(Sites) /\ item \in Sites
      /\ level \in [Sites -> Unset..Len(vmodule_list)]
      /\ DOMAIN old = 1..Len(old) /\ i \in 1..Len(old)
  BY DEF IInv, TypeOK
<1>1. /\ new \in Seq(Sites) /\ Len(new) = Len(old) - 1
      /\ \A j \in 1..(i - 1) : new[j] = old[j]
      /\ \A j \in i..(Len(old) - 1) : new[j] = old[j + 1]
  BY <1>0, RemoveAtFacts
<1>2. /\ \A s \in Sites : level[s] = Default <=> \E j \in DOMAIN old : old[j] = s
      /\ \A j, m \in DOMAIN old : old[j] = old[m] => j = m
      /\ \A s \in Sites : /\ level[s] = Default => base_name[s]
                          /\ base_name[s] => level[s] # Unset
  BY Zenon DEF IInv, CachedListExact
<1>3. \A s \in Sites : level'[s] = IF s = item THEN k ELSE level[s]
  BY <1>0
<1>4. DOMAIN new = 1..Len(new)
  BY <1>1
<1> HIDE DEF old, new, item
<1>5. /\ \A j, m \in 1..Len(new) : new[j] = new[m] => j = m
      /\ \A x : (\E j \in 1..Len(new) : new[j] = x)
                  <=> (x # item /\ \E j \in 1..Len(old) : old[j] = x)
  <2>1. \A j, m \in 1..Len(old) : old[j] = old[m] => j = m
    BY <1>0, <1>2
  <2>2. new = RemoveAt(old, i) /\ item = old[i]
    BY DEF new, old, item
  <2>3. old \in Seq(Sites) /\ i \in 1..Len(old)
    BY <1>0
  <2>4. /\ \A j, m \in 1..Len(RemoveAt(old, i)) :
             RemoveAt(old, i)[j] = RemoveAt(old, i)[m] => j = m
        /\ \A x : (\E j \in 1..Len(RemoveAt(old, i)) : RemoveAt(old, i)[j] = x)
                    <=> (x # old[i] /\ \E j \in 1..Len(old) : old[j] = x)
    BY ONLY <2>1, <2>3, RemoveDistinct, Zenon
  <2> QED BY <2>2, <2>4, Zenon
<1>6. \A s \in Sites : level'[s] = Default <=> \E j \in DOMAIN new : new[j] = s
  <2> SUFFICES ASSUME NEW s \in Sites
               PROVE  level'[s] = Default <=> \E j \in DOMAIN new : new[j] = s
    OBVIOUS
  <2>1. (\E j \in DOMAIN new : new[j] = s) <=> (s # item /\ level[s] = Default)
    BY <1>0, <1>2, <1>4, <1>5
  <2> QED BY <1>3, <2>1 DEF Default
<1>7. \A s \in Sites : /\ level'[s] = Default => base_name[s]
                       /\ base_name[s] => level'[s] # Unset
  BY <1>2, <1>3 DEF Default, Unset
<1> QED BY <1>4, <1>5, <1>6, <1>7 DEF CachedListExact, new

\* The list stays exact when a site that is not in it is put at its head.
LEMMA PushExact ==
  ASSUME IInv, NEW s \in Sites, level[s] # Default,
         level' = [level EXCEPT ![s] = Default],
         base_name' = [base_name EXCEPT ![s] = TRUE],
         cached_site_list' = <<s>> \o cached_site_list
  PROVE  CachedListExact'
<1> DEFINE old == cached_site_list
           new == cached_site_list'
<1>0. /\ old \in Seq(Sites) /\ DOMAIN old = 1..Len(old) /\ Len(old) \in Nat
      /\ level \in [Sites -> Unset..Len(vmodule_list)]
      /\ base_name \in [Sites -> BOOLEAN]
  BY DEF IInv, TypeOK
<1>1. /\ new \in Seq(Sites) /\ Len(new) = Len(old) + 1 /\ new[1] = s
      /\ \A k \in 1..Len(old) : new[k + 1] = old[k]
  BY <1>0, PushFacts
<1>2. /\ \A q \in Sites : level[q] = Default <=> \E j \in DOMAIN old : old[j] = q
      /\ \A j, m \in DOMAIN old : old[j] = old[m] => j = m
      /\ \A q \in Sites : /\ level[q] = Default => base_name[q]
                          /\ base_name[q] => level[q] # Unset
  BY Zenon DEF IInv, CachedListExact
<1>3. \A q \in Sites : level'[q] = IF q = s THEN Default ELSE level[q]
  BY <1>0
<1>4. \A q \in Sites : q = s \/ (base_name'[q] <=> base_name[q])
  BY <1>0
<1>5. base_name'[s]
  BY <1>0
<1>6. DOMAIN new = 1..(Len(old) + 1)
  BY <1>1
<1> HIDE DEF old, new
<1>7. \A j \in 1..(Len(old) + 1) :
        \/ j = 1 /\ new[j] = s
        \/ j - 1 \in 1..Len(old) /\ new[j] = old[j - 1]
  <2> SUFFICES ASSUME NEW j \in 1..(Len(old) + 1), j # 1
               PROVE  j - 1 \in 1..Len(old) /\ new[j] = old[j - 1]
    BY <1>1
  <2>1. j - 1 \in 1..Len(old) /\ (j - 1) + 1 = j
    BY <1>0
  <2> QED BY <1>1, <2>1
<1>8. \A j \in 1..Len(old) : old[j] # s
  BY <1>0, <1>2
<1>9. ASSUME NEW j \in DOMAIN new, NEW m \in DOMAIN new, new[j] = new[m]
      PROVE  j = m
  <2>1. CASE j = 1 \/ m = 1
    BY <1>0, <1>6, <1>7, <1>8, <1>9, <2>1
  <2>2. CASE j # 1 /\ m # 1
    <3>1. /\ j - 1 \in 1..Len(old) /\ m - 1 \in 1..Len(old)
          /\ old[j - 1] = old[m - 1]
      BY <1>6, <1>7, <1>9, <2>2
    <3>2. j - 1 = m - 1
      BY <1>0, <1>2, <3>1
    <3> QED BY <1>0, <1>6, <3>2
  <2> QED BY <2>1, <2>2
<1>10. ASSUME NEW q \in Sites
       PROVE  level'[q] = Default <=> \E j \in DOMAIN new : new[j] = q
  <2>1. CASE q = s
    <3>1. 1 \in DOMAIN new /\ new[1] = q /\ level'[q] = Default
      BY <1>0, <1>1, <1>3, <1>6, <2>1
    <3> QED BY <3>1
  <2>2. CASE q # s
    <3>1. (\E j \in DOMAIN new : new[j] = q) => (\E j \in DOMAIN old : old[j] = q)
      BY <1>0, <1>6, <1>7, <2>2
    <3>2. ASSUME NEW j \in DOMAIN old, old[j] = q PROVE \E m \in DOMAIN new : new[m] = q
      <4>1. j + 1 \in DOMAIN new /\ new[j + 1] = q
        BY <1>0, <1>1, <1>6, <3>2
      <4> QED BY <4>1
    <3> QED BY <1>2, <1>3, <2>2, <3>1, <3>2
  <2> QED BY <2>1, <2>2
<1>11. ASSUME NEW q \in Sites
       PROVE  /\ level'[q] = Default => base_name'[q]
              /\ base_name'[q] => level'[q] # Unset
  <2>1. Default # Unset
    BY DEF Default, Unset
  <2> QED BY <1>2, <1>3, <1>4, <1>5, <2>1
<1> QED BY <1>9, <1>10, <1>11 DEF CachedListExact, new

\* Every step keeps the list of cached sites exact.
LEMMA CachedListStep == IInv /\ [Next]_vars => CachedListExact'
<1> SUFFICES ASSUME IInv, [Next]_vars PROVE CachedListExact'
  OBVIOUS
<1>0. CachedListExact
  BY DEF IInv
<1>1. ASSUME NEW t \in Threads, NEW s \in Sites, CallVlogIsOn(t, s)
      PROVE  CachedListExact'
  BY <1>1, <1>0 DEF CallVlogIsOn, CachedListExact, globals
<1>2. ASSUME NEW t \in Threads, NEW a \in Args, CallSetVLOGLevel(t, a)
      PROVE  CachedListExact'
  BY <1>2, <1>0 DEF CallSetVLOGLevel, CachedListExact, globals
<1>3. ASSUME NEW t \in Threads, CheckLevel(t) PROVE CachedListExact'
  BY <1>3, <1>0 DEF CheckLevel, CachedListExact, globals
<1>4. ASSUME NEW t \in Threads, DerefLevel(t) PROVE CachedListExact'
  BY <1>4, <1>0 DEF DerefLevel, Return, CachedListExact, globals
<1>5. ASSUME NEW t \in Threads, InitLock(t) PROVE CachedListExact'
  BY <1>5, <1>0 DEF InitLock, Acquire, CachedListExact, globals
<1>6. ASSUME NEW t \in Threads, InitVLOG3(t) PROVE CachedListExact'
  <2>0. /\ site[t] \in Sites /\ pc[t] = "init"
        /\ level \in [Sites -> Unset..Len(vmodule_list)]
    BY <1>6 DEF IInv, TypeOK, InitVLOG3
  <2>1. CASE ~inited_vmodule
    BY <1>6, <1>0, <2>1 DEF InitVLOG3, CachedListExact
  <2>2. CASE inited_vmodule
    <3>1. PICK p \in 0..Len(vmodule_list) :
            FindsLevel(vmodule_list, site[t], p) /\ CacheLevel(site[t], p)
      BY <1>6, <2>2, InitEffect
    <3>2. level' = [level EXCEPT ![site[t]] = p]
      BY <2>0, <3>1, CacheLevelCases
    <3>3. CASE /\ p > 0 /\ level[site[t]] # Default
               /\ UNCHANGED <<base_name, cached_site_list>>
      <4>1. \A s \in Sites : /\ level'[s] = Default <=> level[s] = Default
                             /\ level[s] # Unset => level'[s] # Unset
        BY <2>0, <3>2, <3>3 DEF Default, Unset
      <4>2. cached_site_list' = cached_site_list /\ base_name' = base_name
        BY <3>3
      <4> QED BY <1>0, <4>1, <4>2 DEF CachedListExact
    <3>4. CASE /\ p = Default /\ level[site[t]] = Default
               /\ UNCHANGED <<base_name, cached_site_list>>
      <4>1. level' = level
        BY <2>0, <3>2, <3>4
      <4> QED BY <1>0, <3>4, <4>1 DEF CachedListExact
    <3>5. CASE /\ p = Default /\ level[site[t]] # Default
               /\ base_name' = [base_name EXCEPT ![site[t]] = TRUE]
               /\ cached_site_list' = <<site[t]>> \o cached_site_list
      BY <2>0, <3>2, <3>5, PushExact
    <3> QED BY <2>0, <3>1, <3>3, <3>4, <3>5, CacheLevelCases
  <2> QED BY <2>1, <2>2
<1>7. ASSUME NEW t \in Threads, InitReturn(t) PROVE CachedListExact'
  BY <1>7, <1>0 DEF InitReturn, Return, CachedListExact, globals
<1>8. ASSUME NEW t \in Threads, SetLock(t) PROVE CachedListExact'
  BY <1>8, <1>0 DEF SetLock, Acquire, CachedListExact, globals
<1>9. ASSUME NEW t \in Threads, SetScan(t) PROVE CachedListExact'
  BY <1>9, <1>0 DEF SetScan, CachedListExact, globals
<1>10. ASSUME NEW t \in Threads, SetFound(t) PROVE CachedListExact'
  BY <1>10, <1>0 DEF SetFound, CachedListExact, globals
<1>11. ASSUME NEW t \in Threads, SetInsert(t) PROVE CachedListExact'
  BY <1>11, <1>0 DEF SetInsert, CachedListExact, globals
<1>12. ASSUME NEW t \in Threads, SetWalk(t) PROVE CachedListExact'
  <2>1. CASE /\ level' = [level EXCEPT ![cached_site_list[idx[t]]] = Len(vmodule_list)]
             /\ cached_site_list' = RemoveAt(cached_site_list, idx[t])
    <3>1. /\ idx[t] \in 1..Len(cached_site_list) /\ Len(vmodule_list) >= 1
          /\ base_name' = base_name
      BY <1>12, WalkCases
    <3>2. Len(vmodule_list) \in 1..Len(vmodule_list)
      BY <3>1 DEF IInv, TypeOK
    <3> QED BY <2>1, <3>1, <3>2, RemoveExact
  <2>2. CASE UNCHANGED <<level, cached_site_list>>
    BY <1>12, <1>0, <2>2 DEF SetWalk, CachedListExact
  <2> QED BY <1>12, <2>1, <2>2, WalkCases
<1>13. ASSUME NEW t \in Threads, SetWalked(t) PROVE CachedListExact'
  BY <1>13, <1>0 DEF SetWalked, CachedListExact, globals
<1>14. ASSUME NEW t \in Threads, SetUnlock(t) PROVE CachedListExact'
  BY <1>14, <1>0 DEF SetUnlock, Release, CachedListExact, globals
<1>15. ASSUME NEW v \in Levels, AssignFlag(v) PROVE CachedListExact'
  BY <1>15, <1>0 DEF AssignFlag, CachedListExact, globals
<1>16. CASE UNCHANGED vars
  BY <1>16, <1>0 DEF vars, CachedListExact, globals
<1> QED
  BY <1>1, <1>2, <1>3, <1>4, <1>5, <1>6, <1>7, <1>8, <1>9, <1>10, <1>11,
     <1>12, <1>13, <1>14, <1>15, <1>16
  DEF Next, Step, VlogIsOnStep, SetStep

\* A step that leaves the lists, the sites and the walk alone.
LEMMA QuietCoherent ==
  ASSUME CacheCoherent, UNCHANGED <<vmodule_list, cached_site_list, level>>,
         \A u \in Threads : pc[u] = "set_walk" =>
                              pc'[u] = "set_walk" /\ idx'[u] = idx[u]
  PROVE  CacheCoherent'
<1>1. \A s \in Sites : StillToWalk(s) => StillToWalk(s)'
  BY DEF StillToWalk
<1>2. /\ vmodule_list' = vmodule_list /\ level' = level
  OBVIOUS
<1>3. \A e, s : Governs(e, s)' = Governs(e, s)
  BY DEF Governs
<1> QED BY <1>1, <1>2, <1>3 DEF CacheCoherent

\* Every step keeps the cached pointers coherent with the entries.
LEMMA CoherentStep == IInv /\ [Next]_vars => CacheCoherent'
<1> SUFFICES ASSUME IInv, [Next]_vars PROVE CacheCoherent'
  OBVIOUS
<1>0. /\ CacheCoherent /\ pc \in [Threads -> Pc] /\ idx \in [Threads -> Nat]
      /\ level \in [Sites -> Unset..Len(vmodule_list)]
      /\ vmodule_list \in Seq(VModuleInfo) /\ Len(vmodule_list) \in Nat
      /\ cached_site_list \in Seq(Sites) /\ Len(cached_site_list) \in Nat
      /\ DOMAIN cached_site_list = 1..Len(cached_site_list)
      /\ DOMAIN vmodule_list = 1..Len(vmodule_list)
  BY DEF IInv, TypeOK
<1>1. ASSUME NEW t \in Threads, NEW s \in Sites, CallVlogIsOn(t, s)
      PROVE  CacheCoherent'
  BY <1>1, <1>0, QuietCoherent DEF CallVlogIsOn, Goto, globals, locals
<1>2. ASSUME NEW t \in Threads, NEW a \in Args, CallSetVLOGLevel(t, a)
      PROVE  CacheCoherent'
  BY <1>2, <1>0, QuietCoherent DEF CallSetVLOGLevel, Goto, globals, locals
<1>3. ASSUME NEW t \in Threads, CheckLevel(t) PROVE CacheCoherent'
  BY <1>3, <1>0, QuietCoherent DEF CheckLevel, Goto, globals, locals
<1>4. ASSUME NEW t \in Threads, DerefLevel(t) PROVE CacheCoherent'
  BY <1>4, <1>0, QuietCoherent DEF DerefLevel, Return, Goto, globals, locals
<1>5. ASSUME NEW t \in Threads, InitLock(t) PROVE CacheCoherent'
  BY <1>5, <1>0, QuietCoherent DEF InitLock, Acquire, Goto, globals, locals
<1>6. ASSUME NEW t \in Threads, InitVLOG3(t) PROVE CacheCoherent'
  <2>0. /\ site[t] \in Sites /\ pc[t] = "init"
    BY <1>6 DEF IInv, TypeOK, InitVLOG3
  <2>1. CASE ~inited_vmodule
    <3>1. \A s \in Sites : level'[s] = Unset
      BY <1>6, <2>1 DEF InitVLOG3, IInv, NothingCachedEarly
    <3> QED BY <3>1 DEF CacheCoherent, Unset, Default
  <2>2. CASE inited_vmodule
    <3>1. PICK p \in 0..Len(vmodule_list) :
            /\ FindsLevel(vmodule_list, site[t], p) /\ CacheLevel(site[t], p)
            /\ vmodule_list' = vmodule_list
      BY <1>6, <2>2, InitEffect
    <3>2. /\ level' = [level EXCEPT ![site[t]] = p]
          /\ p > 0 => Governs(vmodule_list[p], site[t])
          /\ p = Default => \A k \in DOMAIN vmodule_list :
                              ~Governs(vmodule_list[k], site[t])
      <4>1. p > 0 => Governs(vmodule_list[p], site[t])
        BY <3>1 DEF FindsLevel, StopsAt
      <4> QED BY <2>0, <3>1, <4>1, CacheLevelCases
    <3>3. \A s \in Sites : level[s] = Default =>
            \A k \in DOMAIN vmodule_list : ~Governs(vmodule_list[k], s)
      BY <2>0, NoWalkCoherent DEF Critical
    <3>4. \A s \in Sites : level[s] > 0 => Governs(vmodule_list[level[s]], s)
      BY <1>0 DEF CacheCoherent
    <3>5. \A s \in Sites : level'[s] = IF s = site[t] THEN p ELSE level[s]
      BY <1>0, <3>2
    <3>6. \A s \in Sites :
            /\ level'[s] = Default =>
                 \A k \in DOMAIN vmodule_list : ~Governs(vmodule_list[k], s)
            /\ level'[s] > 0 => Governs(vmodule_list[level'[s]], s)
      <4> SUFFICES ASSUME NEW s \in Sites
                   PROVE  /\ level'[s] = Default =>
                               \A k \in DOMAIN vmodule_list : ~Governs(vmodule_list[k], s)
                          /\ level'[s] > 0 => Governs(vmodule_list[level'[s]], s)
        OBVIOUS
      <4>1. CASE s = site[t]
        BY <3>2, <3>5, <4>1
      <4>2. CASE s # site[t]
        BY <3>3, <3>4, <3>5, <4>2
      <4> QED BY <4>1, <4>2
    <3> QED BY <3>1, <3>6 DEF CacheCoherent, Governs
  <2> QED BY <2>1, <2>2
<1>7. ASSUME NEW t \in Threads, InitReturn(t) PROVE CacheCoherent'
  BY <1>7, <1>0, QuietCoherent DEF InitReturn, Return, Goto, globals, locals
<1>8. ASSUME NEW t \in Threads, SetLock(t) PROVE CacheCoherent'
  BY <1>8, <1>0, QuietCoherent DEF SetLock, Acquire, Goto, globals, locals
<1>9. ASSUME NEW t \in Threads, SetScan(t) PROVE CacheCoherent'
  <2>1. /\ Len(vmodule_list') = Len(vmodule_list)
        /\ vmodule_list' \in Seq(VModuleInfo)
        /\ \A k \in DOMAIN vmodule_list :
             vmodule_list'[k].module_pattern = vmodule_list[k].module_pattern
    BY <1>9, ListGrows DEF IInv
  <2>2. /\ level' = level /\ cached_site_list' = cached_site_list /\ pc' = pc
        /\ pc[t] = "set_scan"
    BY <1>9 DEF SetScan
  <2>3. \A s \in Sites : level[s] = Default =>
          \A k \in DOMAIN vmodule_list : ~Governs(vmodule_list[k], s)
    BY <2>2, NoWalkCoherent DEF Critical
  <2>4. \A s \in Sites : level[s] > 0 =>
          level[s] \in DOMAIN vmodule_list /\ Governs(vmodule_list[level[s]], s)
    BY <1>0 DEF CacheCoherent
  <2>5. \A s \in Sites, k \in DOMAIN vmodule_list :
          Governs(vmodule_list'[k], s) <=> Governs(vmodule_list[k], s)
    BY <2>1 DEF Governs
  <2>6. DOMAIN vmodule_list' = DOMAIN vmodule_list
    BY <1>0, <2>1
  <2>7. \A s \in Sites :
          /\ level'[s] = Default =>
               \A k \in DOMAIN vmodule_list' : ~Governs(vmodule_list'[k], s)
          /\ level'[s] > 0 => Governs(vmodule_list'[level'[s]], s)
    BY <2>2, <2>3, <2>4, <2>5, <2>6
  <2> QED BY <2>7 DEF CacheCoherent, Governs
<1>10. ASSUME NEW t \in Threads, SetFound(t) PROVE CacheCoherent'
  BY <1>10, <1>0, QuietCoherent DEF SetFound, Goto, globals, locals
<1>11. ASSUME NEW t \in Threads, SetInsert(t) PROVE CacheCoherent'
  <2>1. /\ Len(vmodule_list') = Len(vmodule_list) + 1
        /\ vmodule_list' \in Seq(VModuleInfo)
        /\ \A k \in DOMAIN vmodule_list : vmodule_list'[k] = vmodule_list[k]
    BY <1>11, ListGrows DEF IInv
  <2>2. /\ level' = level /\ cached_site_list' = cached_site_list
        /\ pc[t] = "set_scan" /\ pc'[t] = "set_walk" /\ idx'[t] = 1
    BY <1>11, <1>0 DEF SetInsert, Goto
  <2>3. \A s \in Sites : level[s] = Default =>
          \A k \in DOMAIN vmodule_list : ~Governs(vmodule_list[k], s)
    BY <2>2, NoWalkCoherent DEF Critical
  <2>4. \A s \in Sites : level[s] > 0 =>
          level[s] \in DOMAIN vmodule_list /\ Governs(vmodule_list[level[s]], s)
    BY <1>0 DEF CacheCoherent
  <2>5. \A s \in Sites : level[s] = Default => StillToWalk(s)'
    <3>1. \A s \in Sites : level[s] = Default =>
            \E i \in DOMAIN cached_site_list : cached_site_list[i] = s
      BY Zenon DEF IInv, CachedListExact
    <3>2. \A i \in DOMAIN cached_site_list : i >= idx'[t]
      BY <1>0, <2>2
    <3> QED BY <2>2, <3>1, <3>2 DEF StillToWalk
  <2>6. DOMAIN vmodule_list' = 1..(Len(vmodule_list) + 1)
    BY <1>0, <2>1
  <2>7. \A s \in Sites :
          /\ level'[s] = Default =>
               \A k \in DOMAIN vmodule_list' : Governs(vmodule_list'[k], s) =>
                 k = Len(vmodule_list') /\ StillToWalk(s)'
          /\ level'[s] > 0 => Governs(vmodule_list'[level'[s]], s)
    <3> SUFFICES ASSUME NEW s \in Sites
                 PROVE  /\ level[s] = Default =>
                             \A k \in DOMAIN vmodule_list' :
                               Governs(vmodule_list'[k], s) =>
                                 k = Len(vmodule_list') /\ StillToWalk(s)'
                        /\ level[s] > 0 => Governs(vmodule_list'[level[s]], s)
      BY <2>2
    <3>1. level[s] > 0 => Governs(vmodule_list'[level[s]], s)
      BY <2>1, <2>4
    <3>2. ASSUME level[s] = Default, NEW k \in DOMAIN vmodule_list',
                 Governs(vmodule_list'[k], s)
          PROVE  k = Len(vmodule_list')
      BY <1>0, <2>1, <2>3, <2>6, <3>2
    <3> QED BY <2>5, <3>1, <3>2
  <2> QED BY <2>7 DEF CacheCoherent, Governs
<1>12. ASSUME NEW t \in Threads, SetWalk(t) PROVE CacheCoherent'
  <2> DEFINE i == idx[t]
             item == cached_site_list[i]
             n == Len(vmodule_list)
  <2>1. /\ i \in 1..Len(cached_site_list) /\ n >= 1 /\ item \in Sites
        /\ UNCHANGED <<vmodule_list, pc>> /\ pc[t] = "set_walk"
    BY <1>12, WalkCases DEF SetWalk
  <2>2. \A u \in Threads : pc[u] = "set_walk" => u = t
    BY <2>1, OneInside DEF IInv, Critical
  <2>3. \A s \in Sites : level[s] = Default =>
          \A k \in 1..n : Governs(vmodule_list[k], s) =>
            /\ k = n
            /\ \E j \in 1..Len(cached_site_list) : j >= i /\ cached_site_list[j] = s
    <3> SUFFICES ASSUME NEW s \in Sites, level[s] = Default, NEW k \in 1..n,
                        Governs(vmodule_list[k], s)
                 PROVE  /\ k = n
                        /\ \E j \in 1..Len(cached_site_list) :
                             j >= i /\ cached_site_list[j] = s
      OBVIOUS
    <3>1. k = n /\ StillToWalk(s)
      BY <1>0 DEF CacheCoherent
    <3> QED BY <1>0, <2>2, <3>1 DEF StillToWalk
  <2>4. \A s \in Sites : level[s] > 0 => Governs(vmodule_list[level[s]], s)
    BY <1>0 DEF CacheCoherent
  <2>5. CASE /\ Governs(vmodule_list[n], item)
             /\ level' = [level EXCEPT ![item] = n]
             /\ cached_site_list' = RemoveAt(cached_site_list, i)
             /\ idx' = idx
    <3>1. \A s \in Sites : level'[s] = IF s = item THEN n ELSE level[s]
      BY <1>0, <2>5
    <3>2. /\ cached_site_list' \in Seq(Sites)
          /\ Len(cached_site_list') = Len(cached_site_list) - 1
          /\ \A j \in i..(Len(cached_site_list) - 1) :
               cached_site_list'[j] = cached_site_list[j + 1]
      BY <1>0, <2>1, <2>5, RemoveAtFacts
    <3>3. ASSUME NEW s \in Sites, s # item, NEW j \in 1..Len(cached_site_list),
                 j >= i, cached_site_list[j] = s
          PROVE  StillToWalk(s)'
      <4>1. /\ j - 1 \in i..(Len(cached_site_list) - 1) /\ (j - 1) + 1 = j
        BY <1>0, <2>1, <3>3
      <4>2. /\ cached_site_list'[j - 1] = s /\ j - 1 >= idx'[t]
            /\ j - 1 \in DOMAIN cached_site_list'
        BY <1>0, <2>1, <2>5, <3>2, <3>3, <4>1
      <4> QED BY <2>1, <4>2 DEF StillToWalk
    <3>4. \A s \in Sites :
            /\ level'[s] = Default =>
                 \A k \in 1..n : Governs(vmodule_list[k], s) =>
                                   k = n /\ StillToWalk(s)'
            /\ level'[s] > 0 => Governs(vmodule_list[level'[s]], s)
      BY <2>1, <2>3, <2>4, <2>5, <3>1, <3>3 DEF Default
    <3> QED BY <1>0, <2>1, <3>4 DEF CacheCoherent, Governs
  <2>6. CASE /\ ~Governs(vmodule_list[n], item)
             /\ idx' = [idx EXCEPT ![t] = i + 1]
             /\ UNCHANGED <<level, cached_site_list>>
    <3>1. idx'[t] = i + 1
      BY <1>0, <2>6
    <3>2. ASSUME NEW s \in Sites, s # item, NEW j \in 1..Len(cached_site_list),
                 j >= i, cached_site_list[j] = s
          PROVE  StillToWalk(s)'
      <4>1. j >= idx'[t]
        BY <1>0, <2>1, <3>1, <3>2
      <4> QED BY <1>0, <2>1, <2>6, <3>2, <4>1 DEF StillToWalk
    <3>3. \A s \in Sites :
            level[s] = Default =>
                 \A k \in 1..n : Governs(vmodule_list[k], s) =>
                                   k = n /\ StillToWalk(s)'
      BY <2>3, <2>6, <3>2
    <3> QED BY <1>0, <2>1, <2>4, <2>6, <3>3 DEF CacheCoherent, Governs
  <2> QED BY <1>12, <2>5, <2>6, WalkCases
<1>13. ASSUME NEW t \in Threads, SetWalked(t) PROVE CacheCoherent'
  <2>1. /\ pc[t] = "set_walk" /\ idx[t] > Len(cached_site_list)
        /\ UNCHANGED <<vmodule_list, level>>
    BY <1>13, <1>0 DEF SetWalked, Walking, globals
  <2>2. \A u \in Threads : pc[u] = "set_walk" => u = t
    BY <2>1, OneInside DEF IInv, Critical
  <2>3. \A s \in Sites : ~StillToWalk(s)
    BY <1>0, <2>1, <2>2 DEF StillToWalk
  <2> QED BY <1>0, <2>1, <2>3 DEF CacheCoherent, Governs
<1>14. ASSUME NEW t \in Threads, SetUnlock(t) PROVE CacheCoherent'
  BY <1>14, <1>0, QuietCoherent DEF SetUnlock, Release, Goto, globals, locals
<1>15. ASSUME NEW v \in Levels, AssignFlag(v) PROVE CacheCoherent'
  BY <1>15, <1>0, QuietCoherent DEF AssignFlag, Goto, globals, locals
<1>16. CASE UNCHANGED vars
  BY <1>16, <1>0, QuietCoherent DEF vars, Goto, globals, locals
<1> QED
  BY <1>1, <1>2, <1>3, <1>4, <1>5, <1>6, <1>7, <1>8, <1>9, <1>10, <1>11,
     <1>12, <1>13, <1>14, <1>15, <1>16
  DEF Next, Step, VlogIsOnStep, SetStep

\* The inductive invariant is preserved by every step.
LEMMA StepIInv == IInv /\ [Next]_vars => IInv'
BY TypeStep, LockStep, LocalsStep, EarlyStep, CachedListStep, CoherentStep
   DEF IInv

\* IInv is an inductive invariant of the specification.
THEOREM Invariance == Spec => []IInv
<1>1. Init => IInv
  BY InitIInv
<1>2. IInv /\ [Next]_vars => IInv'
  BY StepIInv
<1> QED BY <1>1, <1>2, PTL DEF Spec

(* However many threads race over however many sites, patterns and calls,  *)
(* every variable keeps its type and no pointer a site or a thread holds   *)
(* ever leads outside the list of entries.                                 *)
THEOREM TypeCorrect == Spec => []TypeOK
<1>1. IInv => TypeOK
  BY DEF IInv
<1> QED BY <1>1, Invariance, PTL

(* The list of cached sites is always exact: InitVLOG3__ calls that race   *)
(* on one site, with SetVLOGLevel calls between them, neither lose a site  *)
(* that is cached to FLAGS_v nor list one twice.                           *)
THEOREM CachedListCorrect == Spec => []CachedListExact
<1>1. IInv => CachedListExact
  BY DEF IInv
<1> QED BY <1>1, Invariance, PTL

(* A cached pointer never governs a site it should not.                    *)
THEOREM CacheCorrect == Spec => []CacheCoherent
<1>1. IInv => CacheCoherent
  BY DEF IInv
<1> QED BY <1>1, Invariance, PTL

-----------------------------------------------------------------------------
(* What a step may do to a site and to the entries. *)

\* No step moves the control of a site back.
LEMMA ForwardStep ==
  IInv /\ [Next]_vars => \A s \in Sites : level'[s] >= level[s]
<1> SUFFICES ASSUME IInv, [Next]_vars PROVE \A s \in Sites : level'[s] >= level[s]
  OBVIOUS
<1> DEFINE Forward == \A s \in Sites : level'[s] >= level[s]
<1>0. /\ level \in [Sites -> Unset..Len(vmodule_list)]
      /\ \A s \in Sites : level[s] \in Int
      /\ Len(vmodule_list) \in Nat
  BY DEF IInv, TypeOK, Unset
<1>a. level' = level => Forward
  BY <1>0
<1> HIDE DEF Forward
<1>1. ASSUME NEW t \in Threads, NEW s \in Sites, CallVlogIsOn(t, s)
      PROVE  Forward
  BY <1>1, <1>a DEF CallVlogIsOn, globals
<1>2. ASSUME NEW t \in Threads, NEW a \in Args, CallSetVLOGLevel(t, a)
      PROVE  Forward
  BY <1>2, <1>a DEF CallSetVLOGLevel, globals
<1>3. ASSUME NEW t \in Threads, CheckLevel(t) PROVE Forward
  BY <1>3, <1>a DEF CheckLevel, globals
<1>4. ASSUME NEW t \in Threads, DerefLevel(t) PROVE Forward
  BY <1>4, <1>a DEF DerefLevel, Return, globals
<1>5. ASSUME NEW t \in Threads, InitLock(t) PROVE Forward
  BY <1>5, <1>a DEF InitLock, Acquire, globals
<1>6. ASSUME NEW t \in Threads, InitVLOG3(t) PROVE Forward
  <2>1. CASE ~inited_vmodule
    BY <1>6, <1>a, <2>1 DEF InitVLOG3
  <2>2. CASE inited_vmodule
    <3>0. site[t] \in Sites
      BY DEF IInv, TypeOK
    <3>1. PICK p \in 0..Len(vmodule_list) :
            FindsLevel(vmodule_list, site[t], p) /\ CacheLevel(site[t], p)
      BY <1>6, <2>2, InitEffect
    <3>2. level' = [level EXCEPT ![site[t]] = p]
      BY <3>1 DEF CacheLevel
    <3>3. level[site[t]] > 0 => Governs(vmodule_list[level[site[t]]], site[t])
      BY <3>0 DEF IInv, CacheCoherent
    <3>4. \A k \in (p + 1)..Len(vmodule_list) : ~Governs(vmodule_list[k], site[t])
      BY <3>1 DEF FindsLevel, StopsAt
    <3>5. p >= level[site[t]]
      BY <1>0, <3>0, <3>3, <3>4 DEF Unset
    <3> QED BY <1>0, <3>0, <3>2, <3>5 DEF Forward
  <2> QED BY <2>1, <2>2
<1>7. ASSUME NEW t \in Threads, InitReturn(t) PROVE Forward
  BY <1>7, <1>a DEF InitReturn, Return, globals
<1>8. ASSUME NEW t \in Threads, SetLock(t) PROVE Forward
  BY <1>8, <1>a DEF SetLock, Acquire, globals
<1>9. ASSUME NEW t \in Threads, SetScan(t) PROVE Forward
  BY <1>9, <1>a DEF SetScan, globals
<1>10. ASSUME NEW t \in Threads, SetFound(t) PROVE Forward
  BY <1>10, <1>a DEF SetFound, globals
<1>11. ASSUME NEW t \in Threads, SetInsert(t) PROVE Forward
  BY <1>11, <1>a DEF SetInsert, globals
<1>12. ASSUME NEW t \in Threads, SetWalk(t) PROVE Forward
  <2>1. CASE /\ level[cached_site_list[idx[t]]] = Default
             /\ level' = [level EXCEPT ![cached_site_list[idx[t]]] = Len(vmodule_list)]
    BY <1>0, <2>1 DEF Forward, Default
  <2> QED BY <1>12, <1>a, <2>1, WalkCases
<1>13. ASSUME NEW t \in Threads, SetWalked(t) PROVE Forward
  BY <1>13, <1>a DEF SetWalked, globals
<1>14. ASSUME NEW t \in Threads, SetUnlock(t) PROVE Forward
  BY <1>14, <1>a DEF SetUnlock, Release, globals
<1>15. ASSUME NEW v \in Levels, AssignFlag(v) PROVE Forward
  BY <1>15, <1>a DEF AssignFlag, globals
<1>16. CASE UNCHANGED vars
  BY <1>16, <1>a DEF vars, globals, Forward
<1> QED
  BY <1>1, <1>2, <1>3, <1>4, <1>5, <1>6, <1>7, <1>8, <1>9, <1>10, <1>11,
     <1>12, <1>13, <1>14, <1>15, <1>16
  DEF Next, Step, VlogIsOnStep, SetStep, Forward

(* What controls a site only ever moves forward.                           *)
THEOREM MovesForward == Spec => ControlMovesForward
<1>1. IInv /\ [Next]_vars => [\A s \in Sites : level'[s] >= level[s]]_vars
  BY ForwardStep
<1> QED BY <1>1, Invariance, PTL DEF Spec, ControlMovesForward

\* No step drops, moves or renames an entry.
LEMMA EntriesStep ==
  IInv /\ [Next]_vars =>
    /\ Len(vmodule_list') >= Len(vmodule_list)
    /\ \A k \in DOMAIN vmodule_list :
         vmodule_list'[k].module_pattern = vmodule_list[k].module_pattern
<1> SUFFICES ASSUME IInv, [Next]_vars
             PROVE  /\ Len(vmodule_list') >= Len(vmodule_list)
                    /\ \A k \in DOMAIN vmodule_list :
                         vmodule_list'[k].module_pattern
                           = vmodule_list[k].module_pattern
  OBVIOUS
<1> DEFINE Kept == /\ Len(vmodule_list') >= Len(vmodule_list)
                   /\ \A k \in DOMAIN vmodule_list :
                        vmodule_list'[k].module_pattern
                          = vmodule_list[k].module_pattern
<1>a. vmodule_list' = vmodule_list => Kept
  BY DEF IInv, TypeOK
<1>0. TypeOK /\ LocalsOK /\ Len(vmodule_list) \in Nat
  BY DEF IInv, TypeOK
<1> HIDE DEF Kept
<1>1. ASSUME NEW t \in Threads, NEW s \in Sites, CallVlogIsOn(t, s)
      PROVE  Kept
  BY <1>1, <1>a DEF CallVlogIsOn, globals
<1>2. ASSUME NEW t \in Threads, NEW a \in Args, CallSetVLOGLevel(t, a)
      PROVE  Kept
  BY <1>2, <1>a DEF CallSetVLOGLevel, globals
<1>3. ASSUME NEW t \in Threads, CheckLevel(t) PROVE Kept
  BY <1>3, <1>a DEF CheckLevel, globals
<1>4. ASSUME NEW t \in Threads, DerefLevel(t) PROVE Kept
  BY <1>4, <1>a DEF DerefLevel, Return, globals
<1>5. ASSUME NEW t \in Threads, InitLock(t) PROVE Kept
  BY <1>5, <1>a DEF InitLock, Acquire, globals
<1>6. ASSUME NEW t \in Threads, InitVLOG3(t) PROVE Kept
  BY <1>6, <1>0, ListGrows DEF Kept
<1>7. ASSUME NEW t \in Threads, InitReturn(t) PROVE Kept
  BY <1>7, <1>a DEF InitReturn, Return, globals
<1>8. ASSUME NEW t \in Threads, SetLock(t) PROVE Kept
  BY <1>8, <1>a DEF SetLock, Acquire, globals
<1>9. ASSUME NEW t \in Threads, SetScan(t) PROVE Kept
  BY <1>9, <1>0, ListGrows DEF Kept
<1>10. ASSUME NEW t \in Threads, SetFound(t) PROVE Kept
  BY <1>10, <1>a DEF SetFound, globals
<1>11. ASSUME NEW t \in Threads, SetInsert(t) PROVE Kept
  BY <1>11, <1>0, ListGrows DEF Kept
<1>12. ASSUME NEW t \in Threads, SetWalk(t) PROVE Kept
  BY <1>12, <1>a DEF SetWalk, globals
<1>13. ASSUME NEW t \in Threads, SetWalked(t) PROVE Kept
  BY <1>13, <1>a DEF SetWalked, globals
<1>14. ASSUME NEW t \in Threads, SetUnlock(t) PROVE Kept
  BY <1>14, <1>a DEF SetUnlock, Release, globals
<1>15. ASSUME NEW v \in Levels, AssignFlag(v) PROVE Kept
  BY <1>15, <1>a DEF AssignFlag, globals
<1>16. CASE UNCHANGED vars
  BY <1>16, <1>a DEF vars, globals
<1> QED
  BY <1>1, <1>2, <1>3, <1>4, <1>5, <1>6, <1>7, <1>8, <1>9, <1>10, <1>11,
     <1>12, <1>13, <1>14, <1>15, <1>16
  DEF Next, Step, VlogIsOnStep, SetStep, Kept

(* No step drops, moves or renames an entry other threads may point into.  *)
THEOREM EntriesKept == Spec => EntriesNeverChange
<1>1. IInv /\ [Next]_vars =>
        [/\ Len(vmodule_list') >= Len(vmodule_list)
         /\ \A k \in DOMAIN vmodule_list :
              vmodule_list'[k].module_pattern = vmodule_list[k].module_pattern]_vars
  BY EntriesStep
<1> QED BY <1>1, Invariance, PTL DEF Spec, EntriesNeverChange

-----------------------------------------------------------------------------
(* VLog implements VLogControl. *)

(* Every entry has one of the patterns the matches are defined for. *)
PatternsKnown == \A k \in DOMAIN vmodule_list :
                   vmodule_list[k].module_pattern \in AllPatterns

\* On those, an entry governs a site when the matcher says so.
LEMMA GovernsIsMatch ==
  ASSUME NEW entry, entry.module_pattern \in AllPatterns, NEW s \in Sites
  PROVE  Governs(entry, s) = MatchesModule(entry.module_pattern, s)
BY DEF Governs, Matches, Module, MatchesModule

\* The patterns of the flag's entries are among the known ones.
LEMMA FlagPatternsKnown ==
  ASSUME NEW given \in VmoduleFlags, NEW k \in DOMAIN Reverse(FlagEntries[given])
  PROVE  Reverse(FlagEntries[given])[k].module_pattern \in AllPatterns
<1>1. FlagEntries[given] \in Seq(VModuleInfo)
  BY FlagEntryTypes
<1>2. \A j \in DOMAIN FlagEntries[given] :
        FlagEntries[given][j].module_pattern \in AllPatterns
  BY DEF AllPatterns
<1>3. PICK j \in DOMAIN FlagEntries[given] :
        Reverse(FlagEntries[given])[k] = FlagEntries[given][j]
  BY <1>1 DEF Reverse
<1> QED BY <1>2, <1>3

\* SetVLOGLevel and the flag only bring in known patterns.
LEMMA KnownStep == IInv /\ PatternsKnown /\ [Next]_vars => PatternsKnown'
<1> SUFFICES ASSUME IInv, PatternsKnown, [Next]_vars PROVE PatternsKnown'
  OBVIOUS
<1>0. /\ TypeOK /\ LocalsOK /\ vmodule_list \in Seq(VModuleInfo)
      /\ FLAGS_vmodule \in VmoduleFlags
  BY DEF IInv, TypeOK
<1>1. ASSUME NEW t \in Threads, NEW s \in Sites, CallVlogIsOn(t, s)
      PROVE  PatternsKnown'
  BY <1>1 DEF CallVlogIsOn, globals, PatternsKnown
<1>2. ASSUME NEW t \in Threads, NEW a \in Args, CallSetVLOGLevel(t, a)
      PROVE  PatternsKnown'
  BY <1>2 DEF CallSetVLOGLevel, globals, PatternsKnown
<1>3. ASSUME NEW t \in Threads, CheckLevel(t) PROVE PatternsKnown'
  BY <1>3 DEF CheckLevel, globals, PatternsKnown
<1>4. ASSUME NEW t \in Threads, DerefLevel(t) PROVE PatternsKnown'
  BY <1>4 DEF DerefLevel, Return, globals, PatternsKnown
<1>5. ASSUME NEW t \in Threads, InitLock(t) PROVE PatternsKnown'
  BY <1>5 DEF InitLock, Acquire, globals, PatternsKnown
<1>6. ASSUME NEW t \in Threads, InitVLOG3(t) PROVE PatternsKnown'
  <2>1. CASE inited_vmodule
    BY <1>6, <1>0, <2>1, ListGrows DEF PatternsKnown
  <2>2. CASE ~inited_vmodule
    <3> DEFINE new == Reverse(FlagEntries[FLAGS_vmodule])
    <3>1. vmodule_list' = vmodule_list \o new
      BY <1>6, <2>2 DEF InitVLOG3, VLOG2Initializer, PutInFront
    <3>2. new \in Seq(VModuleInfo)
      BY <1>0, FlagEntryTypes DEF Reverse
    <3>3. \A k \in DOMAIN new : new[k].module_pattern \in AllPatterns
      BY <1>0, FlagPatternsKnown
    <3> HIDE DEF new
    <3>4. \A k \in DOMAIN vmodule_list' :
            \/ k \in DOMAIN vmodule_list /\ vmodule_list'[k] = vmodule_list[k]
            \/ /\ k - Len(vmodule_list) \in DOMAIN new
               /\ vmodule_list'[k] = new[k - Len(vmodule_list)]
      BY <1>0, <3>1, <3>2
    <3> QED BY <3>3, <3>4 DEF PatternsKnown
  <2> QED BY <2>1, <2>2
<1>7. ASSUME NEW t \in Threads, InitReturn(t) PROVE PatternsKnown'
  BY <1>7 DEF InitReturn, Return, globals, PatternsKnown
<1>8. ASSUME NEW t \in Threads, SetLock(t) PROVE PatternsKnown'
  BY <1>8 DEF SetLock, Acquire, globals, PatternsKnown
<1>9. ASSUME NEW t \in Threads, SetScan(t) PROVE PatternsKnown'
  <2>1. DOMAIN vmodule_list' = DOMAIN vmodule_list
    BY <1>9, <1>0, ListGrows
  <2> QED BY <1>9, <1>0, <2>1, ListGrows DEF PatternsKnown
<1>10. ASSUME NEW t \in Threads, SetFound(t) PROVE PatternsKnown'
  BY <1>10 DEF SetFound, globals, PatternsKnown
<1>11. ASSUME NEW t \in Threads, SetInsert(t) PROVE PatternsKnown'
  <2>1. arg[t][1] \in AllPatterns
    BY <1>0 DEF TypeOK, Args, AllPatterns
  <2>2. \A k \in DOMAIN vmodule_list' :
          k \in DOMAIN vmodule_list \/ k = Len(vmodule_list')
    BY <1>11, <1>0, ListGrows
  <2> QED BY <1>11, <1>0, <2>1, <2>2, ListGrows DEF PatternsKnown
<1>12. ASSUME NEW t \in Threads, SetWalk(t) PROVE PatternsKnown'
  BY <1>12 DEF SetWalk, globals, PatternsKnown
<1>13. ASSUME NEW t \in Threads, SetWalked(t) PROVE PatternsKnown'
  BY <1>13 DEF SetWalked, globals, PatternsKnown
<1>14. ASSUME NEW t \in Threads, SetUnlock(t) PROVE PatternsKnown'
  BY <1>14 DEF SetUnlock, Release, globals, PatternsKnown
<1>15. ASSUME NEW v \in Levels, AssignFlag(v) PROVE PatternsKnown'
  BY <1>15 DEF AssignFlag, globals, PatternsKnown
<1>16. CASE UNCHANGED vars
  BY <1>16 DEF vars, globals, PatternsKnown
<1> QED
  BY <1>1, <1>2, <1>3, <1>4, <1>5, <1>6, <1>7, <1>8, <1>9, <1>10, <1>11,
     <1>12, <1>13, <1>14, <1>15, <1>16
  DEF Next, Step, VlogIsOnStep, SetStep

\* The number of entries of the abstraction, and its patterns.
LEMMA AbstractEntries ==
  ASSUME vmodule_list \in Seq(VModuleInfo)
  PROVE  LET entries == [k \in DOMAIN vmodule_list |-> vmodule_list[k].module_pattern]
         IN /\ Len(entries) = Len(vmodule_list)
            /\ \A k \in 1..Len(vmodule_list) :
                 entries[k] = vmodule_list[k].module_pattern
<1> DEFINE entries == [k \in 1..Len(vmodule_list) |-> vmodule_list[k].module_pattern]
<1>1. DOMAIN vmodule_list = 1..Len(vmodule_list) /\ Len(vmodule_list) \in Nat
  OBVIOUS
<1>2. Len(entries) = Len(vmodule_list)
  BY <1>1
<1> QED BY <1>1, <1>2

\* New entries in front are an AddEntries step of VLogControl.
LEMMA AddEntriesStep ==
  ASSUME IInv, IInv', level' = level,
         Len(vmodule_list') >= Len(vmodule_list),
         \A k \in DOMAIN vmodule_list :
           vmodule_list'[k].module_pattern = vmodule_list[k].module_pattern
  PROVE  Control!AddEntries
<1> DEFINE entries == [k \in DOMAIN vmodule_list |-> vmodule_list[k].module_pattern]
<1>1. /\ vmodule_list \in Seq(VModuleInfo) /\ Len(vmodule_list) \in Nat
      /\ DOMAIN vmodule_list = 1..Len(vmodule_list)
      /\ vmodule_list' \in Seq(VModuleInfo) /\ Len(vmodule_list') \in Nat
  <2>1. TypeOK /\ TypeOK'
    BY DEF IInv
  <2>2. vmodule_list \in Seq(VModuleInfo) /\ vmodule_list' \in Seq(VModuleInfo)
    BY <2>1 DEF TypeOK
  <2> QED BY <2>2
<1>2. /\ Len(entries) = Len(vmodule_list)
      /\ \A k \in 1..Len(vmodule_list) : entries[k] = vmodule_list[k].module_pattern
  BY <1>1, AbstractEntries
<1>3. /\ Len(entries') = Len(vmodule_list')
      /\ \A k \in 1..Len(vmodule_list') : entries'[k] = vmodule_list'[k].module_pattern
  BY <1>1
<1> HIDE DEF entries
<1>4. Len(entries') >= Len(entries) /\ \A k \in 1..Len(entries) : entries'[k] = entries[k]
  BY <1>1, <1>2, <1>3
<1> QED BY <1>4 DEF Control!AddEntries, entries

\* Binding a site to its first matching entry is a HandOver step.
LEMMA HandOverStep ==
  ASSUME IInv, PatternsKnown, NEW s \in Sites, NEW k \in 0..Len(vmodule_list),
         FindsLevel(vmodule_list, s, k), level' = [level EXCEPT ![s] = k],
         vmodule_list' = vmodule_list
  PROVE  Control!HandOver(s)
<1> DEFINE entries == [j \in DOMAIN vmodule_list |-> vmodule_list[j].module_pattern]
<1>1. /\ vmodule_list \in Seq(VModuleInfo) /\ Len(vmodule_list) \in Nat
      /\ DOMAIN vmodule_list = 1..Len(vmodule_list)
  BY DEF IInv, TypeOK
<1>2. /\ Len(entries) = Len(vmodule_list)
      /\ \A j \in 1..Len(vmodule_list) : entries[j] = vmodule_list[j].module_pattern
  BY <1>1, AbstractEntries
<1>3. \A j \in 1..Len(vmodule_list) :
        Governs(vmodule_list[j], s) <=> MatchesModule(entries[j], s)
  BY <1>1, <1>2, GovernsIsMatch DEF PatternsKnown
<1>4. /\ k > 0 => Governs(vmodule_list[k], s)
      /\ \A j \in (k + 1)..Len(vmodule_list) : ~Governs(vmodule_list[j], s)
  BY DEF FindsLevel, StopsAt
<1>5. entries' = entries
  OBVIOUS
<1> HIDE DEF entries
<1>6. /\ k \in 0..Len(entries)
      /\ k > 0 => MatchesModule(entries[k], s)
      /\ \A j \in (k + 1)..Len(entries) : ~MatchesModule(entries[j], s)
  BY <1>1, <1>2, <1>3, <1>4
<1>7. Control!IsFirst(s, k)
  BY <1>6 DEF Control!IsFirst, entries
<1>8. k \in 0..Len(entries)
  BY <1>6
<1> QED BY <1>5, <1>7, <1>8 DEF Control!HandOver, entries

\* Every step of VLog is a step of VLogControl or changes nothing there.
LEMMA ControlStep ==
  IInv /\ IInv' /\ PatternsKnown /\ [Next]_vars =>
    Control!Next \/ UNCHANGED <<[k \in DOMAIN vmodule_list |->
                                   vmodule_list[k].module_pattern], level>>
<1> DEFINE entries == [k \in DOMAIN vmodule_list |-> vmodule_list[k].module_pattern]
           Implemented == Control!Next \/ UNCHANGED <<entries, level>>
<1> SUFFICES ASSUME IInv, IInv', PatternsKnown, [Next]_vars PROVE Implemented
  OBVIOUS
<1>a. vmodule_list' = vmodule_list /\ level' = level => Implemented
  OBVIOUS
<1>b. Control!AddEntries => Implemented
  BY DEF Control!Next
<1>c. \A s \in Sites : Control!HandOver(s) => Implemented
  BY DEF Control!Next
<1>0. /\ TypeOK /\ LocalsOK /\ Len(vmodule_list) \in Nat
  <2>1. TypeOK /\ LocalsOK
    BY DEF IInv
  <2>2. vmodule_list \in Seq(VModuleInfo)
    BY <2>1 DEF TypeOK
  <2> QED BY <2>1, <2>2
<1> HIDE DEF Implemented
<1>1. ASSUME NEW t \in Threads, NEW s \in Sites, CallVlogIsOn(t, s)
      PROVE  Implemented
  BY <1>1, <1>a DEF CallVlogIsOn, globals
<1>2. ASSUME NEW t \in Threads, NEW a \in Args, CallSetVLOGLevel(t, a)
      PROVE  Implemented
  BY <1>2, <1>a DEF CallSetVLOGLevel, globals
<1>3. ASSUME NEW t \in Threads, CheckLevel(t) PROVE Implemented
  BY <1>3, <1>a DEF CheckLevel, globals
<1>4. ASSUME NEW t \in Threads, DerefLevel(t) PROVE Implemented
  BY <1>4, <1>a DEF DerefLevel, Return, globals
<1>5. ASSUME NEW t \in Threads, InitLock(t) PROVE Implemented
  BY <1>5, <1>a DEF InitLock, Acquire, globals
<1>6. ASSUME NEW t \in Threads, InitVLOG3(t) PROVE Implemented
  <2>1. CASE ~inited_vmodule
    <3>1. level' = level
      BY <1>6, <2>1 DEF InitVLOG3
    <3> QED BY <1>6, <1>0, <1>b, <3>1, ListGrows, AddEntriesStep
  <2>2. CASE inited_vmodule
    <3>0. site[t] \in Sites
      BY DEF IInv, TypeOK
    <3>1. PICK p \in 0..Len(vmodule_list) :
            /\ FindsLevel(vmodule_list, site[t], p) /\ CacheLevel(site[t], p)
            /\ vmodule_list' = vmodule_list
      BY <1>6, <2>2, InitEffect
    <3>2. level' = [level EXCEPT ![site[t]] = p]
      BY <3>1 DEF CacheLevel
    <3>3. Control!HandOver(site[t])
      BY <3>0, <3>1, <3>2, HandOverStep
    <3> QED BY <1>c, <3>0, <3>3
  <2> QED BY <2>1, <2>2
<1>7. ASSUME NEW t \in Threads, InitReturn(t) PROVE Implemented
  BY <1>7, <1>a DEF InitReturn, Return, globals
<1>8. ASSUME NEW t \in Threads, SetLock(t) PROVE Implemented
  BY <1>8, <1>a DEF SetLock, Acquire, globals
<1>9. ASSUME NEW t \in Threads, SetScan(t) PROVE Implemented
  <2>1. level' = level
    BY <1>9 DEF SetScan
  <2>2. /\ Len(vmodule_list') >= Len(vmodule_list)
        /\ \A k \in DOMAIN vmodule_list :
             vmodule_list'[k].module_pattern = vmodule_list[k].module_pattern
    BY <1>9, <1>0, ListGrows
  <2> QED BY <1>b, <2>1, <2>2, AddEntriesStep
<1>10. ASSUME NEW t \in Threads, SetFound(t) PROVE Implemented
  BY <1>10, <1>a DEF SetFound, globals
<1>11. ASSUME NEW t \in Threads, SetInsert(t) PROVE Implemented
  <2>1. level' = level
    BY <1>11 DEF SetInsert
  <2>2. /\ Len(vmodule_list') >= Len(vmodule_list)
        /\ \A k \in DOMAIN vmodule_list :
             vmodule_list'[k].module_pattern = vmodule_list[k].module_pattern
    BY <1>11, <1>0, ListGrows
  <2> QED BY <1>b, <2>1, <2>2, AddEntriesStep
<1>12. ASSUME NEW t \in Threads, SetWalk(t) PROVE Implemented
  <2> DEFINE item == cached_site_list[idx[t]]
             n == Len(vmodule_list)
  <2>1. CASE /\ Governs(vmodule_list[n], item)
             /\ level' = [level EXCEPT ![item] = n]
    <3>1. item \in Sites /\ vmodule_list' = vmodule_list /\ n \in 0..n
      BY <1>12, <1>0, WalkCases
    <3>2. FindsLevel(vmodule_list, item, n)
      BY <1>0, <2>1 DEF FindsLevel, StopsAt
    <3>3. Control!HandOver(item)
      BY <2>1, <3>1, <3>2, HandOverStep
    <3> QED BY <1>c, <3>1, <3>3
  <2>2. CASE level' = level
    BY <1>12, <1>a, <2>2, WalkCases
  <2> QED BY <1>12, <2>1, <2>2, WalkCases
<1>13. ASSUME NEW t \in Threads, SetWalked(t) PROVE Implemented
  BY <1>13, <1>a DEF SetWalked, globals
<1>14. ASSUME NEW t \in Threads, SetUnlock(t) PROVE Implemented
  BY <1>14, <1>a DEF SetUnlock, Release, globals
<1>15. ASSUME NEW v \in Levels, AssignFlag(v) PROVE Implemented
  BY <1>15, <1>a DEF AssignFlag, globals
<1>16. CASE UNCHANGED vars
  BY <1>16, <1>a DEF vars, globals
<1> QED
  BY <1>1, <1>2, <1>3, <1>4, <1>5, <1>6, <1>7, <1>8, <1>9, <1>10, <1>11,
     <1>12, <1>13, <1>14, <1>15, <1>16
  DEF Next, Step, VlogIsOnStep, SetStep

(* The machinery implements VLogControl: whatever the threads do, entries  *)
(* are only added in front, and every change of what controls a site hands *)
(* it to the first entry that matches, or to FLAGS_v when none does.       *)
THEOREM ImplementsControl == Spec => ControlSpec
<1>1. Init => Control!Init /\ PatternsKnown
  <2> SUFFICES ASSUME Init PROVE Control!Init /\ PatternsKnown
    OBVIOUS
  <2>1. vmodule_list = <<>> /\ level = [s \in Sites |-> -1]
    BY DEF Init, Unset
  <2>2. DOMAIN vmodule_list = {}
    BY <2>1
  <2>3. [k \in DOMAIN vmodule_list |-> vmodule_list[k].module_pattern] = <<>>
    BY <2>2
  <2> QED BY <2>1, <2>2, <2>3 DEF Control!Init, PatternsKnown
<1>2. IInv /\ PatternsKnown /\ [Next]_vars => PatternsKnown'
  BY KnownStep
<1>3. IInv /\ IInv' /\ PatternsKnown /\ [Next]_vars =>
        [Control!Next]_<<[k \in DOMAIN vmodule_list |->
                            vmodule_list[k].module_pattern], level>>
  BY ControlStep
<1> QED BY <1>1, <1>2, <1>3, Invariance, PTL DEF Spec, ControlSpec, Control!Spec

-----------------------------------------------------------------------------
(* SetVLOGLevel is one read-modify-write. *)

\* What SetVLOGLevel of these arguments makes of an entry.
Changed(entry, a) == IF entry.module_pattern = a[1] THEN WithLevel(entry, a[2]) ELSE entry

\* The first entry from the head which is or matches the pattern is entry k.
AppliesFirst(list, k, pat) ==
  /\ Applies(list[k], pat)
  /\ \A j \in (k + 1)..Len(list) : ~Applies(list[j], pat)

NoneApplies(list, k, pat) ==
  \A j \in (k + 1)..Len(list) : ~Applies(list[j], pat)

(* What a SetVLOGLevel has done of its read-modify-write at each label:    *)
(* while it scans, the entries behind idx are changed and those before it  *)
(* as they were found, and found and result speak of those behind it.      *)
Progress(t) ==
  /\ pc[t] = "set_lock" => ~found[t]
  /\ pc[t] = "set_scan" =>
       /\ Len(vmodule_list) = Len(before)
       /\ \A k \in 1..idx[t] : vmodule_list[k] = before[k]
       /\ \A k \in (idx[t] + 1)..Len(before) :
            vmodule_list[k] = Changed(before[k], arg[t])
       /\ ~found[t] => NoneApplies(before, idx[t], arg[t][1])
       /\ found[t] => \E k \in (idx[t] + 1)..Len(before) :
                        /\ AppliesFirst(before, k, arg[t][1])
                        /\ result[t] = before[k].vlog_level
  /\ pc[t] \in {"set_walk", "set_unlock"} /\ ~found[t] =>
       /\ NoneApplies(before, 0, arg[t][1])
       /\ vmodule_list = Append(before, [module_pattern |-> arg[t][1],
                                         vlog_level |-> arg[t][2]])
  /\ pc[t] = "set_walk" => ~found[t]
  /\ pc[t] = "set_unlock" /\ found[t] =>
       /\ Len(vmodule_list) = Len(before)
       /\ \A k \in 1..Len(before) : vmodule_list[k] = Changed(before[k], arg[t])
       /\ \E k \in 1..Len(before) : /\ AppliesFirst(before, k, arg[t][1])
                                    /\ result[t] = before[k].vlog_level

AllProgress == \A t \in Threads : Progress(t)

\* A thread that does not move, and whose locals and lists stay, stays where it was.
LEMMA ProgressFrame ==
  ASSUME NEW u \in Threads, Progress(u), pc'[u] = pc[u], arg'[u] = arg[u],
         idx'[u] = idx[u], found'[u] = found[u], result'[u] = result[u],
         pc[u] \in Critical => vmodule_list' = vmodule_list /\ before' = before
  PROVE  Progress(u)'
<1>1. CASE pc[u] \in Critical
  <2>1. vmodule_list' = vmodule_list /\ before' = before
    BY <1>1
  <2>2. CASE pc[u] = "set_scan"
    BY <2>1, <2>2 DEF Progress
  <2>3. CASE pc[u] = "set_walk"
    BY <2>1, <2>3 DEF Progress
  <2>4. CASE pc[u] = "set_unlock"
    BY <2>1, <2>4 DEF Progress
  <2>5. CASE pc[u] \notin {"set_scan", "set_walk", "set_unlock"}
    BY <2>5, <1>1 DEF Progress, Critical
  <2> QED BY <2>2, <2>3, <2>4, <2>5
<1>2. CASE pc[u] \notin Critical
  BY <1>2 DEF Progress, Critical
<1> QED BY <1>1, <1>2

\* A thread outside SetVLOGLevel's critical section has nothing to show.
LEMMA ProgressOutside ==
  ASSUME NEW u \in Threads, pc'[u] \notin {"set_lock", "set_scan", "set_walk", "set_unlock"}
  PROVE  Progress(u)'
BY DEF Progress

\* One turn of SetVLOGLevel's loop.
LEMMA ScanProgress ==
  ASSUME IInv, NEW t \in Threads, Progress(t), SetScan(t)
  PROVE  Progress(t)'
<1> DEFINE i == idx[t]
           entry == vmodule_list[i]
           pat == arg[t][1]
           first == ~found[t] /\ Applies(entry, pat)
<1>1. /\ pc \in [Threads -> Pc] /\ idx \in [Threads -> Nat] /\ found \in [Threads -> BOOLEAN]
      /\ result \in [Threads -> Int]
      /\ vmodule_list \in Seq(VModuleInfo) /\ before \in Seq(VModuleInfo)
  BY DEF IInv, TypeOK
<1>2. /\ pc[t] = "set_scan" /\ i \in 1..Len(vmodule_list)
      /\ Len(vmodule_list) = Len(before) /\ Len(before) \in Nat
      /\ entry = before[i]
      /\ \A k \in 1..i : vmodule_list[k] = before[k]
      /\ \A k \in (i + 1)..Len(before) : vmodule_list[k] = Changed(before[k], arg[t])
      /\ ~found[t] => NoneApplies(before, i, pat)
      /\ found[t] => \E k \in (i + 1)..Len(before) :
                       /\ AppliesFirst(before, k, pat)
                       /\ result[t] = before[k].vlog_level
  <2>1. pc[t] = "set_scan" /\ i > 0 /\ i \in Nat /\ i <= Len(vmodule_list)
    BY <1>1 DEF SetScan, IInv, LocalsOK
  <2>2. Len(before) \in Nat
    BY <1>1
  <2> QED BY <2>1, <2>2 DEF Progress
<1>3. /\ pc'[t] = "set_scan" /\ idx'[t] = i - 1 /\ arg'[t] = arg[t] /\ before' = before
      /\ found'[t] = (found[t] \/ first)
      /\ result'[t] = IF first THEN entry.vlog_level ELSE result[t]
  BY <1>1, <1>2 DEF SetScan
<1>4. /\ Len(vmodule_list') = Len(vmodule_list)
      /\ \A k \in 1..Len(vmodule_list) :
           vmodule_list'[k] = IF k = i THEN Changed(entry, arg[t]) ELSE vmodule_list[k]
  <2>1. vmodule_list' = IF Changes(t, entry)
                          THEN [vmodule_list EXCEPT ![i] = WithLevel(entry, arg[t][2])]
                          ELSE vmodule_list
    BY DEF SetScan
  <2>2. Changed(entry, arg[t]) = IF Changes(t, entry) THEN WithLevel(entry, arg[t][2]) ELSE entry
    BY DEF Changed, Changes, Exact
  <2>3. CASE Changes(t, entry)
    <3>1. /\ vmodule_list' = [vmodule_list EXCEPT ![i] = WithLevel(entry, arg[t][2])]
          /\ Changed(entry, arg[t]) = WithLevel(entry, arg[t][2])
      BY <2>1, <2>2, <2>3
    <3> QED BY <1>1, <1>2, <3>1
  <2>4. CASE ~Changes(t, entry)
    <3>1. vmodule_list' = vmodule_list /\ Changed(entry, arg[t]) = entry
      BY <2>1, <2>2, <2>4
    <3> QED BY <1>1, <1>2, <3>1
  <2> QED BY <2>3, <2>4
<1> HIDE DEF i, entry, pat
<1>5. /\ \A k \in 1..(i - 1) : vmodule_list'[k] = before[k]
      /\ \A k \in ((i - 1) + 1)..Len(before) : vmodule_list'[k] = Changed(before[k], arg[t])
  BY <1>2, <1>4
<1>6. ~(found[t] \/ first) => NoneApplies(before, i - 1, pat)
  BY <1>2 DEF NoneApplies
<1>7. ASSUME found[t] \/ first
      PROVE  \E k \in ((i - 1) + 1)..Len(before) :
               /\ AppliesFirst(before, k, pat)
               /\ result'[t] = before[k].vlog_level
  <2>1. CASE found[t]
    BY <1>2, <1>3, <2>1
  <2>2. CASE first
    <3>1. AppliesFirst(before, i, pat) /\ result'[t] = before[i].vlog_level
      BY <1>2, <1>3, <2>2 DEF NoneApplies, AppliesFirst
    <3> QED BY <1>2, <3>1
  <2> QED BY <1>7, <2>1, <2>2
<1> HIDE DEF first
<1>8. /\ found'[t] <=> (found[t] \/ first)
      /\ arg'[t][1] = pat
  BY <1>3 DEF pat
<1>9. /\ Len(vmodule_list') = Len(before')
      /\ \A k \in 1..idx'[t] : vmodule_list'[k] = before'[k]
      /\ \A k \in (idx'[t] + 1)..Len(before') :
           vmodule_list'[k] = Changed(before'[k], arg'[t])
      /\ ~found'[t] => NoneApplies(before', idx'[t], arg'[t][1])
      /\ found'[t] => \E k \in (idx'[t] + 1)..Len(before') :
                        /\ AppliesFirst(before', k, arg'[t][1])
                        /\ result'[t] = before'[k].vlog_level
  BY <1>2, <1>3, <1>4, <1>5, <1>6, <1>7, <1>8
<1>10. /\ pc'[t] # "set_lock" /\ pc'[t] # "set_walk" /\ pc'[t] # "set_unlock"
  BY <1>3
<1> QED BY <1>9, <1>10 DEF Progress

\* Every step keeps what the threads have done so far.
LEMMA ProgressStep == IInv /\ AllProgress /\ [Next]_vars => AllProgress'
<1> SUFFICES ASSUME IInv, AllProgress, [Next]_vars, NEW u \in Threads
             PROVE  Progress(u)'
  BY DEF AllProgress
<1>0. /\ pc \in [Threads -> Pc] /\ arg \in [Threads -> Args] /\ idx \in [Threads -> Nat]
      /\ found \in [Threads -> BOOLEAN] /\ result \in [Threads -> Int]
      /\ Progress(u) /\ LockHeld
      /\ Len(before) \in Nat /\ Len(vmodule_list) \in Nat
  BY DEF IInv, TypeOK, AllProgress
<1>a. ASSUME NEW t \in Threads, u # t, pc[t] \in Critical PROVE pc[u] \notin Critical
  BY <1>0, <1>a, OneInside
<1> DEFINE Still == /\ pc'[u] = pc[u] /\ arg'[u] = arg[u] /\ idx'[u] = idx[u]
                    /\ found'[u] = found[u] /\ result'[u] = result[u]
                    /\ pc[u] \in Critical => vmodule_list' = vmodule_list /\ before' = before
           Outside == pc'[u] \notin {"set_lock", "set_scan", "set_walk", "set_unlock"}
<1>b. Still => Progress(u)'
  BY <1>0, ProgressFrame
<1>c. Outside => Progress(u)'
  BY ProgressOutside
<1> USE DEF globals, locals
<1>1. ASSUME NEW t \in Threads, NEW s \in Sites, CallVlogIsOn(t, s) PROVE Progress(u)'
  <2>1. Still \/ Outside
    BY <1>1, <1>0, <1>a DEF CallVlogIsOn, Goto
  <2> QED BY <2>1, <1>b, <1>c
<1>3. ASSUME NEW t \in Threads, CheckLevel(t) PROVE Progress(u)'
  <2>1. Still \/ Outside
    BY <1>3, <1>0, <1>a DEF CheckLevel, Goto
  <2> QED BY <2>1, <1>b, <1>c
<1>4. ASSUME NEW t \in Threads, DerefLevel(t) PROVE Progress(u)'
  <2>1. Still \/ Outside
    BY <1>4, <1>0, <1>a DEF DerefLevel, Return, Goto
  <2> QED BY <2>1, <1>b, <1>c
<1>5. ASSUME NEW t \in Threads, InitLock(t) PROVE Progress(u)'
  <2>1. Still \/ Outside
    BY <1>5, <1>0, <1>a DEF InitLock, Acquire, Goto
  <2> QED BY <2>1, <1>b, <1>c
<1>7. ASSUME NEW t \in Threads, InitReturn(t) PROVE Progress(u)'
  <2>1. Still \/ Outside
    BY <1>7, <1>0, <1>a DEF InitReturn, Return, Goto
  <2> QED BY <2>1, <1>b, <1>c
<1>2. ASSUME NEW t \in Threads, NEW a \in Args, CallSetVLOGLevel(t, a)
      PROVE  Progress(u)'
  <2>1. CASE u = t
    BY <1>2, <1>0, <2>1 DEF CallSetVLOGLevel, Goto, Progress
  <2>2. CASE u # t
    <3>1. Still
      BY <1>2, <1>0, <2>2 DEF CallSetVLOGLevel, Goto
    <3> QED BY <3>1, <1>b
  <2> QED BY <2>1, <2>2
<1>6. ASSUME NEW t \in Threads, InitVLOG3(t) PROVE Progress(u)'
  <2>1. Still \/ Outside
    BY <1>6, <1>0, <1>a DEF InitVLOG3, Goto, Critical
  <2> QED BY <2>1, <1>b, <1>c
<1>8. ASSUME NEW t \in Threads, SetLock(t) PROVE Progress(u)'
  <2>1. CASE u = t
    <3>1. /\ pc[u] = "set_lock" /\ ~found[u] /\ pc'[u] = "set_scan"
          /\ idx'[u] = Len(vmodule_list) /\ before' = vmodule_list
          /\ vmodule_list' = vmodule_list /\ found' = found
      BY <1>8, <1>0, <2>1 DEF SetLock, Acquire, Goto, Progress
    <3> QED BY <1>0, <3>1 DEF Progress, NoneApplies
  <2>2. CASE u # t
    <3>1. pc[u] \notin Critical
      BY <1>8, <1>0, NoOneAssumption DEF SetLock, Acquire, LockHeld
    <3>2. Still
      BY <1>8, <1>0, <2>2, <3>1 DEF SetLock, Acquire, Goto
    <3> QED BY <3>2, <1>b
  <2> QED BY <2>1, <2>2
<1>9. ASSUME NEW t \in Threads, SetScan(t) PROVE Progress(u)'
  <2>1. CASE u = t
    BY <1>9, <1>0, <2>1, ScanProgress
  <2>2. CASE u # t
    <3>1. Still
      BY <1>9, <1>0, <1>a, <2>2 DEF SetScan, Critical
    <3> QED BY <3>1, <1>b
  <2> QED BY <2>1, <2>2
<1>10. ASSUME NEW t \in Threads, SetFound(t) PROVE Progress(u)'
  <2>1. CASE u = t
    <3>1. /\ pc[u] = "set_scan" /\ idx[u] = 0 /\ found[u] /\ pc'[u] = "set_unlock"
          /\ UNCHANGED <<vmodule_list, arg, found, result, before>>
      BY <1>10, <1>0, <2>1 DEF SetFound, Goto
    <3>2. /\ Len(vmodule_list) = Len(before)
          /\ \A k \in 1..Len(before) : vmodule_list[k] = Changed(before[k], arg[u])
          /\ \E k \in 1..Len(before) : /\ AppliesFirst(before, k, arg[u][1])
                                       /\ result[u] = before[k].vlog_level
      BY <1>0, <3>1 DEF Progress
    <3> QED BY <3>1, <3>2 DEF Progress
  <2>2. CASE u # t
    <3>1. Still
      BY <1>10, <1>0, <2>2 DEF SetFound, Goto
    <3> QED BY <3>1, <1>b
  <2> QED BY <2>1, <2>2
<1>11. ASSUME NEW t \in Threads, SetInsert(t) PROVE Progress(u)'
  <2>1. CASE u = t
    <3>1. /\ pc[u] = "set_scan" /\ idx[u] = 0 /\ ~found[u] /\ pc'[u] = "set_walk"
          /\ vmodule_list' = Append(vmodule_list, [module_pattern |-> arg[u][1],
                                                   vlog_level |-> arg[u][2]])
          /\ UNCHANGED <<arg, found, result, before>>
      BY <1>11, <1>0, <2>1 DEF SetInsert, Goto, Link
    <3>2. /\ Len(vmodule_list) = Len(before)
          /\ NoneApplies(before, 0, arg[u][1])
          /\ \A k \in 1..Len(before) : vmodule_list[k] = Changed(before[k], arg[u])
      BY <1>0, <3>1 DEF Progress
    <3>3. \A k \in 1..Len(before) : Changed(before[k], arg[u]) = before[k]
      <4>1. \A k \in 1..Len(before) : ~Applies(before[k], arg[u][1])
        BY <1>0, <3>2 DEF NoneApplies
      <4>2. \A k \in 1..Len(before) : before[k].module_pattern # arg[u][1]
        BY <4>1 DEF Applies, Exact
      <4> QED BY <4>2 DEF Changed
    <3>4. vmodule_list = before
      <4>1. vmodule_list \in Seq(VModuleInfo) /\ before \in Seq(VModuleInfo)
        BY DEF IInv, TypeOK
      <4>2. \A k \in 1..Len(before) : vmodule_list[k] = before[k]
        BY <3>2, <3>3
      <4> QED BY <3>2, <4>1, <4>2
    <3> QED BY <1>0, <3>1, <3>2, <3>4 DEF Progress
  <2>2. CASE u # t
    <3>1. Still
      BY <1>11, <1>0, <1>a, <2>2 DEF SetInsert, Goto, Critical
    <3> QED BY <3>1, <1>b
  <2> QED BY <2>1, <2>2
<1>12. ASSUME NEW t \in Threads, SetWalk(t) PROVE Progress(u)'
  <2>1. CASE u = t
    <3>1. /\ pc[u] = "set_walk" /\ pc'[u] = "set_walk"
          /\ UNCHANGED <<vmodule_list, arg, found, result, before>>
      BY <1>12, <1>0, <2>1 DEF SetWalk
    <3> QED BY <1>0, <3>1 DEF Progress
  <2>2. CASE u # t
    <3>1. /\ UNCHANGED <<vmodule_list, pc, arg, found, result, before>>
          /\ idx' = idx \/ idx' = [idx EXCEPT ![t] = @ + 1]
      BY <1>12, Zenon DEF SetWalk
    <3>2. Still
      BY <1>0, <2>2, <3>1
    <3> QED BY <3>2, <1>b
  <2> QED BY <2>1, <2>2
<1>13. ASSUME NEW t \in Threads, SetWalked(t) PROVE Progress(u)'
  <2>1. CASE u = t
    <3>1. /\ pc[u] = "set_walk" /\ pc'[u] = "set_unlock"
          /\ UNCHANGED <<vmodule_list, locals>>
      BY <1>13, <1>0, <2>1 DEF SetWalked, Goto
    <3> QED BY <1>0, <3>1 DEF Progress
  <2>2. CASE u # t
    <3>1. Still
      BY <1>13, <1>0, <2>2 DEF SetWalked, Goto
    <3> QED BY <3>1, <1>b
  <2> QED BY <2>1, <2>2
<1>14. ASSUME NEW t \in Threads, SetUnlock(t) PROVE Progress(u)'
  <2>1. Still \/ Outside
    BY <1>14, <1>0, <1>a DEF SetUnlock, Release, Goto, Critical
  <2> QED BY <2>1, <1>b, <1>c
<1>15. ASSUME NEW v \in Levels, AssignFlag(v) PROVE Progress(u)'
  <2>1. Still
    BY <1>15 DEF AssignFlag
  <2> QED BY <2>1, <1>b
<1>16. CASE UNCHANGED vars
  <2>1. Still
    BY <1>16 DEF vars
  <2> QED BY <2>1, <1>b
<1> QED
  BY <1>1, <1>2, <1>3, <1>4, <1>5, <1>6, <1>7, <1>8, <1>9, <1>10, <1>11,
     <1>12, <1>13, <1>14, <1>15, <1>16
  DEF Next, Step, VlogIsOnStep, SetStep

\* What the thread that is about to let go of the lock has done is a
\* read-modify-write.
LEMMA ProgressAtUnlock == IInv /\ AllProgress => SetIsReadModifyWrite
<1> SUFFICES ASSUME IInv, AllProgress, NEW t \in Threads, pc[t] = "set_unlock"
             PROVE
      LET pat == arg[t][1]
          changed == [k \in DOMAIN before |->
                        IF before[k].module_pattern = pat
                          THEN WithLevel(before[k], arg[t][2])
                          ELSE before[k]]
      IN \E k \in 0..Len(before) :
           /\ StopsAt(before, k, LAMBDA e : Applies(e, pat))
           /\ found[t] <=> k > 0
           /\ vmodule_list =
                IF k > 0 THEN changed
                ELSE Append(before, [module_pattern |-> pat,
                                     vlog_level |-> arg[t][2]])
           /\ k > 0 => result[t] = before[k].vlog_level
  BY DEF SetIsReadModifyWrite
<1> DEFINE pat == arg[t][1]
           changed == [k \in DOMAIN before |->
                         IF before[k].module_pattern = pat
                           THEN WithLevel(before[k], arg[t][2])
                           ELSE before[k]]
<1>1. /\ vmodule_list \in Seq(VModuleInfo) /\ before \in Seq(VModuleInfo)
      /\ Len(before) \in Nat /\ DOMAIN before = 1..Len(before) /\ Progress(t)
  BY DEF IInv, TypeOK, AllProgress
<1>2. CASE found[t]
  <2>1. PICK k \in 1..Len(before) :
          AppliesFirst(before, k, pat) /\ result[t] = before[k].vlog_level
    BY <1>1, <1>2 DEF Progress
  <2>2. /\ Len(vmodule_list) = Len(before)
        /\ \A j \in 1..Len(before) : vmodule_list[j] = Changed(before[j], arg[t])
    BY <1>1, <1>2 DEF Progress
  <2>3. vmodule_list = changed
    BY <1>1, <2>2 DEF Changed
  <2>4. StopsAt(before, k, LAMBDA e : Applies(e, pat))
    BY <2>1 DEF StopsAt, AppliesFirst
  <2> HIDE DEF changed
  <2>5. k \in 0..Len(before) /\ k > 0
    BY <1>1
  <2> QED BY <1>2, <2>1, <2>3, <2>4, <2>5 DEF changed
<1>3. CASE ~found[t]
  <2>1. /\ NoneApplies(before, 0, pat)
        /\ vmodule_list = Append(before, [module_pattern |-> pat,
                                          vlog_level |-> arg[t][2]])
    BY <1>1, <1>3 DEF Progress
  <2>2. StopsAt(before, 0, LAMBDA e : Applies(e, pat))
    BY <2>1 DEF StopsAt, NoneApplies
  <2>3. 0 \in 0..Len(before) /\ ~(0 > 0)
    BY <1>1
  <2> QED BY <1>3, <2>1, <2>2, <2>3
<1> QED BY <1>2, <1>3

(* "protect whole read-modify-write": whatever the other threads do while  *)
(* a SetVLOGLevel holds the lock, the list it leaves is what its arguments *)
(* make of the list it found, and the level it returns is the one that     *)
(* applied there.                                                          *)
THEOREM SetAtomic == Spec => []SetIsReadModifyWrite
<1>1. Init => AllProgress
  BY DEF Init, AllProgress, Progress
<1>2. IInv /\ AllProgress /\ [Next]_vars => AllProgress'
  BY ProgressStep
<1>3. IInv /\ AllProgress => SetIsReadModifyWrite
  BY ProgressAtUnlock
<1> QED BY <1>1, <1>2, <1>3, Invariance, PTL DEF Spec

=============================================================================
