--------------------------- MODULE SyncTextsProofs ---------------------------
(***************************************************************************)
(* A text is cut as it should be, whatever its lines and the limit, and the *)
(* mirror shows it so (TextSplit, SyncTexts).                               *)
(*                                                                         *)
(* The cut is a loop over the lines.  What a recursive function does at     *)
(* every number follows from the least number at which it would not: sets   *)
(* of numbers have a least element, and that is all the induction there is. *)
(***************************************************************************)
EXTENDS SyncTexts, MessageSyncProofs

-----------------------------------------------------------------------------
(* Induction and recursion over 0..N *)

\* A set of numbers that is not empty has a least one.
LEMMA LeastOf ==
  ASSUME NEW T \in SUBSET Nat, T # {}
  PROVE  \E x \in T : \A y \in T : x <= y
  <1>. DEFINE R == {p \in Nat \X Nat : p[1] < p[2]}
  <1>1. IsWellFoundedOn(R, Nat)
    BY NatLessThanWellFounded DEF OpToRel
  <1>. HIDE DEF R
  <1>2. PICK x \in T : \A y \in T : <<y, x>> \notin R
    BY <1>1, WFMin
  <1>3. ASSUME NEW y \in T PROVE x <= y
    <2>1. x \in Nat /\ y \in Nat /\ <<y, x>> \notin R
      BY <1>2
    <2>2. y < x => <<y, x>> \in R
      BY <2>1 DEF R
    <2>. QED BY <2>1, <2>2
  <1>. QED BY <1>3

LEMMA UpTo ==
  ASSUME NEW N \in Nat, NEW Passing \in SUBSET Nat, 0 \in Passing,
         \A n \in 1..N : n - 1 \in Passing => n \in Passing
  PROVE  0..N \subseteq Passing
  <1>. DEFINE T == {n \in 0..N : n \notin Passing}
  <1>. SUFFICES ASSUME T # {} PROVE FALSE
    OBVIOUS
  <1>1. PICK x \in T : \A y \in T : x <= y
    <2>1. T \in SUBSET Nat
      OBVIOUS
    <2>. HIDE DEF T
    <2>. QED BY <2>1, LeastOf
  <1>2. x \in 1..N /\ x - 1 \notin T
    BY <1>1
  <1>. QED BY <1>1, <1>2

Builds(f, N, b, G) ==
  f = [n \in 0..N |-> IF n = 0 THEN b ELSE G[n][f[n - 1]]]

\* What a recursive definition over 0..N defines is there, and there is one only.
LEMMA Built ==
  ASSUME NEW N \in Nat, NEW S, NEW b \in S, NEW G \in [1..N -> [S -> S]]
  PROVE  \E f \in [0..N -> S] : Builds(f, N, b, G)
  <1>. DEFINE Passing == {m \in Nat : m <= N => \E f \in [0..m -> S] : Builds(f, m, b, G)}
  <1>1. 0 \in Passing
    <2>. DEFINE f == [n \in 0..0 |-> b]
    <2>1. f \in [0..0 -> S] /\ Builds(f, 0, b, G)
      BY DEF Builds
    <2>. QED BY <2>1
  <1>2. ASSUME NEW m \in 1..N, m - 1 \in Passing PROVE m \in Passing
    <2>1. PICK f \in [0..(m - 1) -> S] : Builds(f, m - 1, b, G)
      BY <1>2
    <2>. DEFINE g == [n \in 0..m |-> IF n = m THEN G[m][f[m - 1]] ELSE f[n]]
    <2>2. G[m][f[m - 1]] \in S
      BY <2>1
    <2>3. g \in [0..m -> S]
      BY <2>1, <2>2
    <2>4. ASSUME NEW n \in 0..m
          PROVE  g[n] = IF n = 0 THEN b ELSE G[n][g[n - 1]]
      <3>0. g[n] = IF n = m THEN G[m][f[m - 1]] ELSE f[n]
        OBVIOUS
      <3>1. CASE n = m
        <4>1. g[n - 1] = f[n - 1] /\ n # 0
          BY <3>1
        <4>. QED BY <3>0, <3>1, <4>1
      <3>2. CASE n # m
        <4>1. f[n] = IF n = 0 THEN b ELSE G[n][f[n - 1]]
          BY <2>1, <3>2 DEF Builds
        <4>2. n # 0 => g[n - 1] = f[n - 1]
          BY <3>2
        <4>. QED BY <3>0, <3>2, <4>1, <4>2
      <3>. QED BY <3>1, <3>2
    <2>. HIDE DEF g
    <2>5. Builds(g, m, b, G)
      BY <2>3, <2>4 DEF Builds
    <2>. QED BY <2>3, <2>5
  <1>. HIDE DEF Passing
  <1>3. N \in Passing
    <2>1. Passing \in SUBSET Nat
      BY DEF Passing
    <2>2. 0..N \subseteq Passing
      BY <1>1, <1>2, <2>1, UpTo
    <2>. QED BY <2>2
  <1>. QED BY <1>3 DEF Passing

LEMMA BuiltOnce ==
  ASSUME NEW N \in Nat, NEW f, NEW g, f[0] = g[0],
         \A n \in 1..N : f[n - 1] = g[n - 1] => f[n] = g[n]
  PROVE  \A n \in 0..N : f[n] = g[n]
  <1>. DEFINE Passing == {n \in Nat : f[n] = g[n]}
  <1>1. 0..N \subseteq Passing
    <2>1. Passing \in SUBSET Nat /\ 0 \in Passing /\ \A n \in 1..N : n - 1 \in Passing => n \in Passing
      OBVIOUS
    <2>. HIDE DEF Passing
    <2>. QED BY <2>1, UpTo
  <1>. QED BY <1>1


-----------------------------------------------------------------------------
(* The length of some lines *)

LEMMA LengthSums ==
  ASSUME NEW s \in Seq(Line)
  PROVE  \E f :
            /\ f \in [0..Len(s) -> Nat]
            /\ Length(s) = f[Len(s)] + (IF s = <<>> THEN 0 ELSE Len(s) - 1)
            /\ f[0] = 0
            /\ \A n \in 1..Len(s) : f[n] = f[n - 1] + s[n].len
  <1>. DEFINE N == Len(s)
  <1>. DEFINE G == [n \in 1..N |-> [x \in Nat |-> x + s[n].len]]
  <1>. DEFINE F == CHOOSE f : f = [n \in 0..N |-> IF n = 0 THEN 0 ELSE f[n - 1] + s[n].len]
  <1>1. N \in Nat /\ \A n \in 1..N : s[n].len \in Nat
    <2>1. N \in Nat /\ \A n \in 1..N : s[n] \in Line
      OBVIOUS
    <2>. QED BY <2>1 DEF Line
  <1>2. G \in [1..N -> [Nat -> Nat]]
    BY <1>1
  <1>3. \A n \in 1..N, x \in Nat : G[n][x] = x + s[n].len
    OBVIOUS
  <1>4. Length(s) = F[N] + (IF s = <<>> THEN 0 ELSE Len(s) - 1)
    BY DEF Length
  <1>. HIDE DEF G, N
  <1>5. PICK f \in [0..N -> Nat] : Builds(f, N, 0, G)
    BY <1>1, <1>2, Built
  <1>6. f[0] = 0 /\ \A n \in 1..N : f[n] = f[n - 1] + s[n].len
    <2>1. ASSUME NEW n \in 1..N PROVE f[n] = f[n - 1] + s[n].len
      <3>1. f[n - 1] \in Nat /\ f[n] = G[n][f[n - 1]]
        BY <1>1, <1>5 DEF Builds
      <3>. QED BY <1>3, <3>1
    <2>2. f[0] = 0
      BY <1>1, <1>5 DEF Builds
    <2>. QED BY <2>1, <2>2
  <1>7. f = [n \in 0..N |-> IF n = 0 THEN 0 ELSE f[n - 1] + s[n].len]
    BY <1>1, <1>6
  <1>8. F = [n \in 0..N |-> IF n = 0 THEN 0 ELSE F[n - 1] + s[n].len]
    BY <1>7
  <1>. HIDE DEF F
  <1>9. \A n \in 0..N : F[n] = f[n]
    <2>1. F[0] = f[0]
      BY <1>1, <1>6, <1>8
    <2>2. ASSUME NEW n \in 1..N, F[n - 1] = f[n - 1] PROVE F[n] = f[n]
      <3>1. n \in 0..N /\ n # 0
        BY <1>1
      <3>2. F[n] = F[n - 1] + s[n].len
        BY <1>8, <3>1
      <3>. QED BY <1>6, <2>2, <3>2
    <2>. QED BY <1>1, <2>1, <2>2, BuiltOnce
  <1>. QED BY <1>1, <1>4, <1>6, <1>9 DEF N

LEMMA LengthOfNone == Length(<<>>) = 0
  <1>1. <<>> \in Seq(Line) /\ Len(<<>>) = 0
    BY EmptySeq
  <1>2. PICK s : s = <<>>
    OBVIOUS
  <1>3. s \in Seq(Line) /\ Len(s) = 0
    BY <1>1, <1>2
  <1>4. PICK f :
           Length(s) = f[Len(s)] + (IF s = <<>> THEN 0 ELSE Len(s) - 1) /\ f[0] = 0
    BY <1>3, LengthSums
  <1>. QED BY <1>2, <1>3, <1>4

LEMMA LengthAppend ==
  ASSUME NEW s \in Seq(Line), NEW x \in Line
  PROVE  /\ Length(s) \in Nat
         /\ Length(Append(s, x)) = Length(s) + x.len + (IF s = <<>> THEN 0 ELSE 1)
  <1>. DEFINE t == Append(s, x)  N == Len(s)
  <1>1. /\ t \in Seq(Line) /\ t # <<>> /\ Len(t) = N + 1 /\ N \in Nat
        /\ t[N + 1] = x /\ \A n \in 1..N : t[n] = s[n]
        /\ s = <<>> <=> N = 0
    OBVIOUS
  <1>2. x.len \in Nat
    BY DEF Line
  <1>3. PICK f :
           /\ f \in [0..Len(s) -> Nat]
           /\ Length(s) = f[Len(s)] + (IF s = <<>> THEN 0 ELSE Len(s) - 1)
           /\ f[0] = 0
           /\ \A n \in 1..Len(s) : f[n] = f[n - 1] + s[n].len
    BY LengthSums
  <1>4. PICK g :
           /\ g \in [0..Len(t) -> Nat]
           /\ Length(t) = g[Len(t)] + (IF t = <<>> THEN 0 ELSE Len(t) - 1)
           /\ g[0] = 0
           /\ \A n \in 1..Len(t) : g[n] = g[n - 1] + t[n].len
    BY <1>1, LengthSums
  <1>. HIDE DEF t, N
  <1>5. f[N] = g[N]
    <2>1. ASSUME NEW n \in 1..N, f[n - 1] = g[n - 1] PROVE f[n] = g[n]
      <3>1. n \in 1..Len(s) /\ n \in 1..Len(t) /\ t[n] = s[n]
        BY <1>1 DEF N
      <3>. QED BY <1>3, <1>4, <2>1, <3>1
    <2>2. f[0] = g[0]
      BY <1>3, <1>4
    <2>3. N \in Nat
      BY <1>1
    <2>4. \A n \in 0..N : f[n] = g[n]
      BY <2>1, <2>2, <2>3, BuiltOnce
    <2>. QED BY <2>3, <2>4
  <1>6. g[N + 1] = g[N] + x.len
    BY <1>1, <1>4
  <1>7. f[N] \in Nat
    BY <1>1, <1>3 DEF N
  <1>8. Length(t) = f[N] + x.len + N
    BY <1>1, <1>2, <1>4, <1>5, <1>6, <1>7
  <1>9. Length(s) = f[N] + (IF s = <<>> THEN 0 ELSE N - 1)
    BY <1>3 DEF N
  <1>10. Length(s) \in Nat
    BY <1>1, <1>7, <1>9
  <1>11. Length(t) = Length(s) + x.len + (IF s = <<>> THEN 0 ELSE 1)
    BY <1>1, <1>2, <1>7, <1>8, <1>9
  <1>. QED BY <1>10, <1>11 DEF t

-----------------------------------------------------------------------------
(* Fences *)

LEMMA FencesOfNone == Fences(<<>>) = 0 /\ Balanced(<<>>)
  <1>1. {i \in DOMAIN <<>> : <<>>[i].fence} = {}
    OBVIOUS
  <1>2. Fences(<<>>) = 0
    BY <1>1, FS_EmptySet DEF Fences
  <1>. QED BY <1>2 DEF Balanced

LEMMA FencesFinite ==
  ASSUME NEW s \in Seq(Line)
  PROVE  IsFiniteSet({i \in DOMAIN s : s[i].fence}) /\ Fences(s) \in Nat
  <1>1. IsFiniteSet(1..Len(s)) 
    BY FS_Interval
  <1>2. {i \in DOMAIN s : s[i].fence} \subseteq 1..Len(s)
    OBVIOUS
  <1>3. IsFiniteSet({i \in DOMAIN s : s[i].fence})
    BY <1>1, <1>2, FS_Subset
  <1>. QED BY <1>3, FS_CardinalityType DEF Fences

LEMMA FencesAppend ==
  ASSUME NEW s \in Seq(Line), NEW x \in Line
  PROVE  Fences(Append(s, x)) = Fences(s) + (IF x.fence THEN 1 ELSE 0)
  <1>. DEFINE t == Append(s, x)  A == {i \in DOMAIN s : s[i].fence}
              B == {i \in DOMAIN t : t[i].fence}
  <1>1. IsFiniteSet(A)
    BY FencesFinite
  <1>2. /\ DOMAIN t = DOMAIN s \cup {Len(s) + 1} /\ t[Len(s) + 1] = x
        /\ Len(s) + 1 \notin DOMAIN s
        /\ \A i \in DOMAIN s : t[i] = s[i]
    OBVIOUS
  <1>3. CASE x.fence
    <2>1. B = A \cup {Len(s) + 1} /\ Len(s) + 1 \notin A
      BY <1>2, <1>3
    <2>. HIDE DEF A, B
    <2>2. Cardinality(B) = Cardinality(A) + 1
      BY <1>1, <2>1, FS_AddElement
    <2>. QED BY <1>3, <2>2 DEF Fences, A, B
  <1>4. CASE ~x.fence
    <2>1. B = A
      BY <1>2, <1>4
    <2>2. Cardinality(A) \in Nat
      BY <1>1, FS_CardinalityType
    <2>. HIDE DEF A, B
    <2>3. Cardinality(B) = Cardinality(A) + 0
      BY <2>1, <2>2
    <2>. QED BY <1>4, <2>3 DEF Fences, A, B
  <1>. QED BY <1>3, <1>4

\* A fence opens or closes a block.
LEMMA BalancedAppend ==
  ASSUME NEW s \in Seq(Line), NEW x \in Line
  PROVE  Balanced(Append(s, x)) <=> (Balanced(s) /\ ~x.fence) \/ (~Balanced(s) /\ x.fence)
  <1>1. Fences(s) \in Nat
    BY FencesFinite
  <1>2. Fences(Append(s, x)) = Fences(s) + (IF x.fence THEN 1 ELSE 0)
    BY FencesAppend
  <1>3. \A n \in Nat : n % 2 = 0 <=> (n + 1) % 2 # 0
    OBVIOUS
  <1>4. CASE x.fence
    BY <1>1, <1>2, <1>3, <1>4 DEF Balanced
  <1>5. CASE ~x.fence
    BY <1>1, <1>2, <1>5 DEF Balanced
  <1>. QED BY <1>4, <1>5

-----------------------------------------------------------------------------
(* What some lines say *)

SaidLine == [line : Line, code : BOOLEAN]
Saying(s, n) == [line |-> s[n], code |-> ~Balanced(SubSeq(s, 1, n))]

LEMMA ContentSays ==
  ASSUME NEW s \in Seq(Line)
  PROVE  \E f :
            /\ f \in [0..Len(s) -> Seq(SaidLine)]
            /\ Content(s) = f[Len(s)] /\ f[0] = <<>>
            /\ \A n \in 1..Len(s) :
                 f[n] = IF s[n].fence THEN f[n - 1] ELSE Append(f[n - 1], Saying(s, n))
  <1>. DEFINE N == Len(s)
  <1>. DEFINE G == [n \in 1..N |-> [x \in Seq(SaidLine) |->
                      IF s[n].fence THEN x ELSE Append(x, Saying(s, n))]]
  <1>. DEFINE F == CHOOSE f : f = [n \in 0..N |->
                     IF n = 0 THEN <<>> ELSE IF s[n].fence THEN f[n - 1]
                     ELSE Append(f[n - 1], [line |-> s[n], code |-> ~Balanced(SubSeq(s, 1, n))])]
  <1>1. N \in Nat /\ \A n \in 1..N : s[n] \in Line
    OBVIOUS
  <1>2. \A n \in 1..N : Saying(s, n) \in SaidLine
    BY <1>1 DEF Saying, SaidLine, Balanced
  <1>3. G \in [1..N -> [Seq(SaidLine) -> Seq(SaidLine)]]
    BY <1>2
  <1>4. \A n \in 1..N, x \in Seq(SaidLine) : G[n][x] = IF s[n].fence THEN x ELSE Append(x, Saying(s, n))
    OBVIOUS
  <1>5. Content(s) = F[N]
    BY DEF Content
  <1>. HIDE DEF G, N
  <1>6. <<>> \in Seq(SaidLine)
    OBVIOUS
  <1>7. PICK f : f \in [0..N -> Seq(SaidLine)] /\ Builds(f, N, <<>>, G)
    BY <1>1, <1>3, <1>6, Built
  <1>8. \A n \in 1..N : f[n] = IF s[n].fence THEN f[n - 1] ELSE Append(f[n - 1], Saying(s, n))
    <2>. SUFFICES ASSUME NEW n \in 1..N
                  PROVE  f[n] = IF s[n].fence THEN f[n - 1] ELSE Append(f[n - 1], Saying(s, n))
      OBVIOUS
    <2>1. f[n - 1] \in Seq(SaidLine) /\ f[n] = G[n][f[n - 1]]
      BY <1>1, <1>7 DEF Builds
    <2>. QED BY <1>4, <2>1
  <1>9. f[0] = <<>>
    BY <1>1, <1>7 DEF Builds
  <1>10. f = [n \in 0..N |-> IF n = 0 THEN <<>> ELSE IF s[n].fence THEN f[n - 1]
                ELSE Append(f[n - 1], [line |-> s[n], code |-> ~Balanced(SubSeq(s, 1, n))])]
    <2>. DEFINE B(n) == IF n = 0 THEN <<>> ELSE IF s[n].fence THEN f[n - 1]
                ELSE Append(f[n - 1], [line |-> s[n], code |-> ~Balanced(SubSeq(s, 1, n))])
    <2>1. \A n \in 1..N : f[n] = B(n)
      BY <1>8 DEF Saying
    <2>2. f[0] = B(0)
      BY <1>9
    <2>3. f = [n \in 0..N |-> f[n]]
      BY <1>7
    <2>. HIDE DEF B
    <2>4. \A n \in 0..N : f[n] = B(n)
      BY <1>1, <2>1, <2>2
    <2>5. f = [n \in 0..N |-> B(n)]
      BY <2>3, <2>4
    <2>. QED BY <2>5 DEF B
  <1>11. F = [n \in 0..N |-> IF n = 0 THEN <<>> ELSE IF s[n].fence THEN F[n - 1]
                ELSE Append(F[n - 1], [line |-> s[n], code |-> ~Balanced(SubSeq(s, 1, n))])]
    BY <1>10
  <1>. HIDE DEF F
  <1>12. F[0] = f[0]
    BY <1>1, <1>9, <1>11
  <1>13. ASSUME NEW n \in 1..N, F[n - 1] = f[n - 1] PROVE F[n] = f[n]
    <2>1. n \in 0..N /\ n # 0
      BY <1>1
    <2>2. F[n] = IF s[n].fence THEN F[n - 1] ELSE Append(F[n - 1], Saying(s, n))
      BY <1>11, <2>1 DEF Saying
    <2>. QED BY <1>8, <1>13, <2>2
  <1>14. \A n \in 0..N : F[n] = f[n]
    <2>1. N \in Nat
      BY <1>1
    <2>. QED BY <1>12, <1>13, <2>1, BuiltOnce
  <1>. QED BY <1>1, <1>5, <1>7, <1>8, <1>9, <1>14 DEF N

LEMMA ContentOfNone == Content(<<>>) = <<>>
  <1>1. PICK s : s = <<>>
    OBVIOUS
  <1>2. s \in Seq(Line) /\ Len(s) = 0
    BY <1>1, EmptySeq
  <1>3. Content(s) = <<>>
    BY <1>2, ContentSays
  <1>. QED BY <1>1, <1>3

LEMMA ContentAppend ==
  ASSUME NEW s \in Seq(Line), NEW x \in Line
  PROVE  /\ Content(s) \in Seq(SaidLine)
         /\ Content(Append(s, x)) =
              IF x.fence THEN Content(s)
              ELSE Append(Content(s), [line |-> x, code |-> ~Balanced(Append(s, x))])
  <1>. DEFINE t == Append(s, x)  N == Len(s)
  <1>1. /\ t \in Seq(Line) /\ Len(t) = N + 1 /\ N \in Nat
        /\ t[N + 1] = x /\ \A n \in 1..N : t[n] = s[n]
    OBVIOUS
  <1>2. SubSeq(t, 1, N + 1) = t /\ \A n \in 1..N : SubSeq(t, 1, n) = SubSeq(s, 1, n)
    <2>1. SubSeq(t, 1, N + 1) = t
      BY <1>1, SubSeqFull
    <2>2. ASSUME NEW n \in 1..N PROVE SubSeq(t, 1, n) = SubSeq(s, 1, n)
      <3>1. SubSeq(t, 1, n) = [i \in 1..n |-> t[i]] /\ SubSeq(s, 1, n) = [i \in 1..n |-> s[i]]
        OBVIOUS
      <3>. QED BY <1>1, <3>1
    <2>. QED BY <2>1, <2>2
  <1>3. PICK f :
           /\ f \in [0..Len(s) -> Seq(SaidLine)]
           /\ Content(s) = f[Len(s)] /\ f[0] = <<>>
           /\ \A n \in 1..Len(s) :
                f[n] = IF s[n].fence THEN f[n - 1] ELSE Append(f[n - 1], Saying(s, n))
    BY ContentSays
  <1>4. PICK g :
           /\ g \in [0..Len(t) -> Seq(SaidLine)]
           /\ Content(t) = g[Len(t)] /\ g[0] = <<>>
           /\ \A n \in 1..Len(t) :
                g[n] = IF t[n].fence THEN g[n - 1] ELSE Append(g[n - 1], Saying(t, n))
    BY <1>1, ContentSays
  <1>. HIDE DEF t, N
  <1>5. f[N] = g[N]
    <2>1. ASSUME NEW n \in 1..N, f[n - 1] = g[n - 1] PROVE f[n] = g[n]
      <3>1. n \in 1..Len(s) /\ n \in 1..Len(t)
        BY <1>1 DEF N
      <3>2. t[n] = s[n]
        BY <1>1
      <3>3. Saying(t, n) = Saying(s, n)
        BY <1>2, <3>2 DEF Saying
      <3>. QED BY <1>3, <1>4, <2>1, <3>1, <3>2, <3>3
    <2>2. f[0] = g[0]
      BY <1>3, <1>4
    <2>3. N \in Nat
      BY <1>1
    <2>4. \A n \in 0..N : f[n] = g[n]
      BY <2>1, <2>2, <2>3, BuiltOnce
    <2>. QED BY <2>3, <2>4
  <1>6. g[N + 1] = IF x.fence THEN g[N] ELSE Append(g[N], Saying(t, N + 1))
    BY <1>1, <1>4
  <1>7. Saying(t, N + 1) = [line |-> x, code |-> ~Balanced(t)]
    BY <1>1, <1>2 DEF Saying
  <1>8. Content(s) = f[N] /\ f[N] \in Seq(SaidLine) /\ Content(t) = g[N + 1]
    <2>1. N \in Nat /\ Len(t) = N + 1 /\ Len(s) = N
      BY <1>1 DEF N
    <2>2. Content(s) = f[N] /\ f \in [0..N -> Seq(SaidLine)]
      BY <1>3, <2>1
    <2>3. Content(t) = g[N + 1]
      BY <1>4, <2>1
    <2>. QED BY <2>1, <2>2, <2>3
  <1>. QED BY <1>5, <1>6, <1>7, <1>8 DEF t

-----------------------------------------------------------------------------
(* One sequence of many *)

LEMMA FlattenJoins ==
  ASSUME NEW S, NEW ss \in Seq(Seq(S)), ss # <<>>
  PROVE  \E f :
            /\ f \in [0..(Len(ss) - 1) -> Seq(S)]
            /\ FlattenSeq(ss) = f[Len(ss) - 1] /\ f[0] = ss[1]
            /\ \A n \in 1..(Len(ss) - 1) : f[n] = f[n - 1] \o ss[n + 1]
  <1>. DEFINE N == Len(ss) - 1
  <1>. DEFINE G == [n \in 1..N |-> [x \in Seq(S) |-> x \o ss[n + 1]]]
  <1>. DEFINE F == CHOOSE f : f = [i \in 1..Len(ss) |-> IF i = 1 THEN ss[i] ELSE f[i - 1] \o ss[i]]
  <1>1. N \in Nat /\ Len(ss) = N + 1 /\ \A i \in 1..(N + 1) : ss[i] \in Seq(S)
    OBVIOUS
  <1>2. G \in [1..N -> [Seq(S) -> Seq(S)]]
    <2>1. ASSUME NEW n \in 1..N, NEW x \in Seq(S) PROVE x \o ss[n + 1] \in Seq(S)
      <3>1. ss[n + 1] \in Seq(S)
        BY <1>1
      <3>. QED BY <3>1
    <2>. QED BY <2>1
  <1>3. \A n \in 1..N, x \in Seq(S) : G[n][x] = x \o ss[n + 1]
    OBVIOUS
  <1>4. FlattenSeq(ss) = F[Len(ss)]
    BY <1>1 DEF FlattenSeq
  <1>. HIDE DEF G, N
  <1>5. PICK f : f \in [0..N -> Seq(S)] /\ Builds(f, N, ss[1], G)
    <2>1. ss[1] \in Seq(S)
      BY <1>1
    <2>. QED BY <1>1, <1>2, <2>1, Built
  <1>6. \A n \in 1..N : f[n] = f[n - 1] \o ss[n + 1]
    <2>. SUFFICES ASSUME NEW n \in 1..N PROVE f[n] = f[n - 1] \o ss[n + 1]
      OBVIOUS
    <2>1. f[n - 1] \in Seq(S) /\ f[n] = G[n][f[n - 1]]
      BY <1>1, <1>5 DEF Builds
    <2>. QED BY <1>3, <2>1
  <1>7. f[0] = ss[1]
    BY <1>1, <1>5 DEF Builds
  <1>8. F = [i \in 1..Len(ss) |-> IF i = 1 THEN ss[i] ELSE F[i - 1] \o ss[i]]
    <2>. DEFINE h == [i \in 1..Len(ss) |-> f[i - 1]]
    <2>1. ASSUME NEW i \in 1..Len(ss)
          PROVE  h[i] = IF i = 1 THEN ss[i] ELSE h[i - 1] \o ss[i]
      <3>1. CASE i = 1
        BY <1>7, <3>1
      <3>2. CASE i # 1
        <4>1. i - 1 \in 1..N /\ i - 1 \in 1..Len(ss) /\ (i - 1) + 1 = i
          BY <1>1, <3>2
        <4>2. h[i] = f[i - 1] /\ h[i - 1] = f[(i - 1) - 1]
          BY <4>1
        <4>3. f[i - 1] = f[(i - 1) - 1] \o ss[(i - 1) + 1]
          BY <1>6, <4>1
        <4>4. h[i] = h[i - 1] \o ss[i]
          BY <4>1, <4>2, <4>3
        <4>. QED BY <3>2, <4>4
      <3>. QED BY <3>1, <3>2
    <2>2. h = [i \in 1..Len(ss) |-> IF i = 1 THEN ss[i] ELSE h[i - 1] \o ss[i]]
      BY <2>1
    <2>. QED BY <2>2
  <1>. HIDE DEF F
  <1>9. \A n \in 0..N : F[n + 1] = f[n]
    <2>. DEFINE H == [n \in 0..N |-> F[n + 1]]
    <2>1. H[0] = f[0]
      BY <1>1, <1>7, <1>8
    <2>2. ASSUME NEW n \in 1..N, H[n - 1] = f[n - 1] PROVE H[n] = f[n]
      <3>1. n + 1 \in 1..Len(ss) /\ n + 1 # 1 /\ (n + 1) - 1 = n
        BY <1>1
      <3>2. F[n + 1] = F[n] \o ss[n + 1]
        BY <1>8, <3>1
      <3>3. H[n] = F[n + 1] /\ H[n - 1] = F[n]
        BY <1>1
      <3>. QED BY <1>6, <2>2, <3>2, <3>3
    <2>. HIDE DEF H
    <2>3. N \in Nat
      BY <1>1
    <2>4. \A n \in 0..N : H[n] = f[n]
      BY <2>1, <2>2, <2>3, BuiltOnce
    <2>. QED BY <2>4 DEF H
  <1>10. FlattenSeq(ss) = f[N]
    BY <1>1, <1>4, <1>9
  <1>. QED BY <1>5, <1>6, <1>7, <1>10 DEF N

LEMMA FlattenAppend ==
  ASSUME NEW S, NEW ss \in Seq(Seq(S)), NEW x \in Seq(S)
  PROVE  /\ FlattenSeq(ss) \in Seq(S)
         /\ FlattenSeq(Append(ss, x)) = FlattenSeq(ss) \o x
  <1>. DEFINE tt == Append(ss, x)  N == Len(ss)
  <1>1. /\ tt \in Seq(Seq(S)) /\ tt # <<>> /\ Len(tt) = N + 1 /\ N \in Nat
        /\ tt[N + 1] = x /\ \A n \in 1..N : tt[n] = ss[n]
    <2>1. PICK T : T = Seq(S)
      OBVIOUS
    <2>2. ss \in Seq(T) /\ x \in T
      BY <2>1
    <2>3. tt \in Seq(T)
      BY <2>2
    <2>4. tt # <<>> /\ Len(tt) = N + 1 /\ N \in Nat /\ tt[N + 1] = x
      BY <2>2
    <2>5. \A n \in 1..N : tt[n] = ss[n]
      BY <2>2
    <2>. QED BY <2>1, <2>3, <2>4, <2>5
  <1>2. PICK g :
           /\ g \in [0..(Len(tt) - 1) -> Seq(S)]
           /\ FlattenSeq(tt) = g[Len(tt) - 1] /\ g[0] = tt[1]
           /\ \A n \in 1..(Len(tt) - 1) : g[n] = g[n - 1] \o tt[n + 1]
    <2>. HIDE DEF tt
    <2>. QED BY <1>1, FlattenJoins
  <1>3. CASE ss = <<>>
    <2>1. FlattenSeq(ss) = <<>>
      BY <1>3 DEF FlattenSeq
    <2>2. FlattenSeq(tt) = x
      BY <1>1, <1>2, <1>3
    <2>. HIDE DEF tt
    <2>. QED BY <2>1, <2>2, ConcatEmptySeq DEF tt
  <1>4. CASE ss # <<>>
    <2>1. N - 1 \in Nat
      BY <1>4
    <2>2. PICK f :
           /\ f \in [0..(Len(ss) - 1) -> Seq(S)]
           /\ FlattenSeq(ss) = f[Len(ss) - 1] /\ f[0] = ss[1]
           /\ \A n \in 1..(Len(ss) - 1) : f[n] = f[n - 1] \o ss[n + 1]
      BY <1>4, FlattenJoins
    <2>. HIDE DEF tt, N
    <2>3. PICK k : k = N - 1
      OBVIOUS
    <2>4. k \in Nat /\ N = k + 1 /\ Len(tt) - 1 = k + 1 /\ Len(ss) - 1 = k
      BY <1>1, <2>1, <2>3 DEF N
    <2>5. f[0] = g[0]
      BY <1>1, <1>2, <2>2, <2>4
    <2>6. ASSUME NEW n \in 1..k, f[n - 1] = g[n - 1] PROVE f[n] = g[n]
      <3>1. tt[n + 1] = ss[n + 1]
        BY <1>1, <2>4
      <3>2. n \in 1..(Len(ss) - 1) /\ n \in 1..(Len(tt) - 1)
        BY <2>4
      <3>. QED BY <1>2, <2>2, <2>6, <3>1, <3>2
    <2>7. k \in Nat
      BY <2>4
    <2>8. \A n \in 0..k : f[n] = g[n]
      BY <2>5, <2>6, <2>7, BuiltOnce
    <2>9. f[k] = g[k]
      BY <2>7, <2>8
    <2>10. g[k + 1] = g[k] \o tt[(k + 1) + 1]
      <3>1. k + 1 \in 1..(Len(tt) - 1) /\ (k + 1) - 1 = k
        BY <2>4
      <3>. QED BY <1>2, <3>1
    <2>11. tt[(k + 1) + 1] = x
      BY <1>1, <2>4
    <2>12. FlattenSeq(ss) = f[k] /\ FlattenSeq(tt) = g[k + 1] /\ f[k] \in Seq(S)
      <3>1. FlattenSeq(tt) = g[k + 1]
        BY <1>2, <2>4
      <3>2. FlattenSeq(ss) = f[k] /\ f \in [0..k -> Seq(S)]
        BY <2>2, <2>4
      <3>. QED BY <2>7, <3>1, <3>2
    <2>. QED BY <2>9, <2>10, <2>11, <2>12 DEF tt
  <1>. QED BY <1>3, <1>4

-----------------------------------------------------------------------------
(* Lines that are too long *)

Fitting == {l \in Line : l.len <= MaxLine}

LEMMA MaxLineRoom == MaxLine \in Nat /\ MaxLine > 0 /\ MaxLine + 8 = Limit
BY LimitAssumption DEF MaxLine, FenceLen

LEMMA PieceCount ==
  ASSUME NEW n \in Nat, NEW m \in Nat, m > 0, NEW q, q = (n + m - 1) \div m
  PROVE  q \in Nat /\ m * q <= n + m - 1 /\ n + m - 1 < m * q + m
  <1>1. PICK a \in Nat : a = n + m - 1
    OBVIOUS
  <1>2. \A x \in Nat, y \in Nat : y > 0 => x \div y \in Int /\ x % y \in 0..(y - 1) /\ x = (y * (x \div y)) + (x % y)
    OBVIOUS
  <1>3. q \in Int /\ m * q <= a /\ a < m * q + m
    <2>1. q = a \div m
      BY <1>1
    <2>. QED BY <1>1, <1>2, <2>1
  <1>4. q >= 0
    BY <1>1, <1>3
  <1>. QED BY <1>1, <1>3, <1>4

\* The pieces of a line are together as long as it is, and each fits.
LEMMA PiecesFit ==
  ASSUME NEW l \in Line
  PROVE  Pieces(l) \in Seq(Fitting) /\ Pieces(l) # <<>>
  <1>1. l.len \in Nat /\ l.fence \in BOOLEAN /\ l.late \in SUBSET Nat
    BY DEF Line
  <1>2. PICK M \in Nat : M = MaxLine /\ M > 0
    BY MaxLineRoom
  <1>3. PICK n : n = IF l.len <= M THEN 1 ELSE (l.len + M - 1) \div M
    OBVIOUS
  <1>4. /\ n \in Nat \ {0} /\ l.len <= n * M
        /\ l.len - (n - 1) * M \in Nat /\ l.len - (n - 1) * M <= M
    <2>1. CASE l.len <= M
      BY <1>1, <1>2, <1>3, <2>1
    <2>2. CASE l.len > M
      <3>1. n = (l.len + M - 1) \div M
        BY <1>1, <1>2, <1>3, <2>2
      <3>2. n \in Nat /\ M * n <= l.len + M - 1 /\ l.len + M - 1 < M * n + M
        BY <1>1, <1>2, <3>1, PieceCount
      <3>3. n # 0
        BY <1>1, <1>2, <2>2, <3>2
      <3>4. (n - 1) * M = M * n - M /\ n * M = M * n
        BY <1>2, <3>2
      <3>5. M * n \in Nat
        BY <1>2, <3>2
      <3>6. PICK k \in Nat : k = M * n
        BY <3>5
      <3>. QED BY <1>1, <1>2, <3>2, <3>3, <3>4, <3>6
    <2>. QED BY <1>1, <1>2, <2>1, <2>2
  <1>5. ASSUME NEW k \in 1..n
        PROVE  [len |-> IF k < n THEN M ELSE l.len - (n - 1) * M,
                fence |-> IF k = 1 THEN l.fence ELSE k \in l.late, late |-> {}] \in Fitting
    <2>1. PICK x \in Nat : x = (IF k < n THEN M ELSE l.len - (n - 1) * M) /\ x <= M
      BY <1>2, <1>4
    <2>2. PICK b \in BOOLEAN : b = (IF k = 1 THEN l.fence ELSE k \in l.late)
      <3>1. CASE k = 1
        BY <1>1, <3>1
      <3>2. CASE k # 1
        <4>1. (k \in l.late) \in BOOLEAN
          OBVIOUS
        <4>. QED BY <3>2, <4>1
      <3>. QED BY <3>1, <3>2
    <2>3. [len |-> x, fence |-> b, late |-> {}] \in Fitting
      <3>1. {} \in SUBSET Nat
        OBVIOUS
      <3>2. PICK none : none = {}
        OBVIOUS
      <3>3. [len |-> x, fence |-> b, late |-> none] \in Line
        BY <3>1, <3>2 DEF Line
      <3>. QED BY <1>2, <2>1, <3>2, <3>3 DEF Fitting
    <2>. QED BY <2>1, <2>2, <2>3
  <1>6. Pieces(l) = [k \in 1..n |-> [len |-> IF k < n THEN M ELSE l.len - (n - 1) * M,
                       fence |-> IF k = 1 THEN l.fence ELSE k \in l.late, late |-> {}]]
    BY <1>2, <1>3 DEF Pieces
  <1>7. Pieces(l) \in Seq(Fitting) /\ Len(Pieces(l)) = n
    <2>1. Pieces(l) \in [1..n -> Fitting]
      BY <1>5, <1>6
    <2>2. n \in Nat
      BY <1>4
    <2>. QED BY <2>1, <2>2
  <1>. QED BY <1>4, <1>7

LEMMA WrappedFits ==
  ASSUME NEW s \in Seq(Line)
  PROVE  Wrapped(s) \in Seq(Fitting)
  <1>. DEFINE ps == [i \in DOMAIN s |-> Pieces(s[i])]
  <1>1. \A i \in 1..Len(s) : Pieces(s[i]) \in Seq(Fitting)
    BY PiecesFit
  <1>2. PICK T : T = Seq(Fitting)
    OBVIOUS
  <1>3. ps \in Seq(T)
    BY <1>1, <1>2
  <1>4. FlattenSeq(ps) \in Seq(Fitting)
    <2>. HIDE DEF ps
    <2>1. ps \in Seq(Seq(Fitting)) /\ <<>> \in Seq(Fitting)
      BY <1>2, <1>3
    <2>. QED BY <2>1, FlattenAppend
  <1>. QED BY <1>4 DEF Wrapped

-----------------------------------------------------------------------------
(* The loop *)

States == [chunks : Seq(Seq(Line)), cur : Seq(Line), curLen : Nat, inFence : BOOLEAN]

LEMMA FenceIsLine == Fence \in Line /\ Fence.fence /\ Fence.len = 3
BY DEF Fence, Line, FenceLen

LEMMA FlushTyped ==
  ASSUME NEW st \in States
  PROVE  /\ Flush(st) \in States /\ Closer(st) \in Seq(Line)
         /\ Flush(st).chunks = Append(st.chunks, st.cur \o Closer(st))
         /\ Flush(st).cur = Closer(st)
         /\ Flush(st).curLen = (IF st.inFence THEN 3 ELSE 0)
         /\ Flush(st).inFence = st.inFence
  <1>1. /\ st.chunks \in Seq(Seq(Line)) /\ st.cur \in Seq(Line) /\ st.inFence \in BOOLEAN
    BY DEF States
  <1>2. Closer(st) \in Seq(Line)
    BY FenceIsLine DEF Closer
  <1>3. PICK T : T = Seq(Line)
    OBVIOUS
  <1>4. st.cur \o Closer(st) \in T
    BY <1>1, <1>2, <1>3
  <1>5. Append(st.chunks, st.cur \o Closer(st)) \in Seq(T)
    BY <1>1, <1>3, <1>4
  <1>6. PICK cs \in Seq(T) : cs = Append(st.chunks, st.cur \o Closer(st))
    BY <1>5
  <1>7. Flush(st) = [chunks |-> cs, cur |-> Closer(st),
                     curLen |-> IF st.inFence THEN 3 ELSE 0, inFence |-> st.inFence]
    BY <1>6 DEF Flush, FenceLen
  <1>8. (IF st.inFence THEN 3 ELSE 0) \in Nat
    OBVIOUS
  <1>. QED BY <1>1, <1>2, <1>3, <1>6, <1>7, <1>8 DEF States

LEMMA AddTyped ==
  ASSUME NEW st \in States, NEW l \in Line
  PROVE  /\ Add(st, l) \in States /\ Cost(st, l) \in Nat
         /\ Add(st, l).chunks = st.chunks
         /\ Add(st, l).cur = Append(st.cur, l)
         /\ Add(st, l).curLen = st.curLen + Cost(st, l)
         /\ Add(st, l).inFence = NextFence(st, l)
  <1>1. /\ st.chunks \in Seq(Seq(Line)) /\ st.cur \in Seq(Line) /\ st.inFence \in BOOLEAN
        /\ st.curLen \in Nat
    BY DEF States
  <1>2. l.len \in Nat /\ l.fence \in BOOLEAN
    BY DEF Line
  <1>3. Cost(st, l) \in Nat
    BY <1>2 DEF Cost
  <1>4. Append(st.cur, l) \in Seq(Line) /\ st.curLen + Cost(st, l) \in Nat
    BY <1>1, <1>3
  <1>5. NextFence(st, l) \in BOOLEAN
    BY DEF NextFence
  <1>6. Add(st, l) = [chunks |-> st.chunks, cur |-> Append(st.cur, l),
                      curLen |-> st.curLen + Cost(st, l), inFence |-> NextFence(st, l)]
    BY DEF Add
  <1>. QED BY <1>1, <1>3, <1>4, <1>5, <1>6 DEF States

LEMMA TakeTyped ==
  ASSUME NEW st \in States, NEW l \in Line
  PROVE  Take(st, l) \in States
BY FlushTyped, AddTyped DEF Take

LEMMA CutTakes ==
  ASSUME NEW s \in Seq(Line)
  PROVE  \E f :
            /\ f \in [0..Len(s) -> States]
            /\ Cut(s) = f[Len(s)] /\ f[0] = Start
            /\ \A n \in 1..Len(s) : f[n] = Take(f[n - 1], s[n])
  <1>. DEFINE N == Len(s)
  <1>. DEFINE G == [n \in 1..N |-> [x \in States |-> Take(x, s[n])]]
  <1>. DEFINE F == CHOOSE f : f = [n \in 0..N |-> IF n = 0 THEN Start ELSE Take(f[n - 1], s[n])]
  <1>1. N \in Nat /\ \A n \in 1..N : s[n] \in Line
    OBVIOUS
  <1>2. G \in [1..N -> [States -> States]]
    BY <1>1, TakeTyped
  <1>3. \A n \in 1..N, x \in States : G[n][x] = Take(x, s[n])
    OBVIOUS
  <1>4. Cut(s) = F[N]
    BY DEF Cut
  <1>. HIDE DEF G, N
  <1>5. Start \in States
    BY DEF Start, States
  <1>6. PICK f : f \in [0..N -> States] /\ Builds(f, N, Start, G)
    BY <1>1, <1>2, <1>5, Built
  <1>7. \A n \in 1..N : f[n] = Take(f[n - 1], s[n])
    <2>. SUFFICES ASSUME NEW n \in 1..N PROVE f[n] = Take(f[n - 1], s[n])
      OBVIOUS
    <2>1. f[n - 1] \in States /\ f[n] = G[n][f[n - 1]]
      BY <1>1, <1>6 DEF Builds
    <2>. QED BY <1>3, <2>1
  <1>8. f[0] = Start
    BY <1>1, <1>6 DEF Builds
  <1>9. f = [n \in 0..N |-> IF n = 0 THEN Start ELSE Take(f[n - 1], s[n])]
    <2>1. f = [n \in 0..N |-> f[n]]
      BY <1>6
    <2>2. \A n \in 0..N : f[n] = IF n = 0 THEN Start ELSE Take(f[n - 1], s[n])
      BY <1>1, <1>7, <1>8
    <2>. QED BY <2>1, <2>2
  <1>10. F = [n \in 0..N |-> IF n = 0 THEN Start ELSE Take(F[n - 1], s[n])]
    BY <1>9
  <1>. HIDE DEF F
  <1>11. F[0] = f[0]
    BY <1>1, <1>8, <1>10
  <1>12. ASSUME NEW n \in 1..N, F[n - 1] = f[n - 1] PROVE F[n] = f[n]
    <2>1. n \in 0..N /\ n # 0
      BY <1>1
    <2>2. F[n] = Take(F[n - 1], s[n])
      BY <1>10, <2>1
    <2>. QED BY <1>7, <1>12, <2>2
  <1>13. \A n \in 0..N : F[n] = f[n]
    <2>1. N \in Nat
      BY <1>1
    <2>. QED BY <1>11, <1>12, <2>1, BuiltOnce
  <1>14. Cut(s) = f[N]
    BY <1>1, <1>4, <1>13
  <1>. QED BY <1>6, <1>7, <1>8, <1>14 DEF N

-----------------------------------------------------------------------------
(* What the loop keeps *)

\* The lines taken so far are in the messages cut off and the one being filled;
\* with its fence closed, that one still fits.
Faithful(st, seen) ==
  /\ st \in States
  /\ \A k \in 1..Len(st.chunks) : Renders(st.chunks[k])
  /\ Contents(st.chunks) \o Content(st.cur) = Content(seen)
  /\ st.curLen = Length(st.cur)
  /\ st.curLen + (IF st.inFence THEN 4 ELSE 0) <= Limit
  /\ st.inFence <=> ~Balanced(st.cur)
  /\ st.inFence <=> ~Balanced(seen)

LEMMA ContentsAppend ==
  ASSUME NEW cs \in Seq(Seq(Line)), NEW c \in Seq(Line)
  PROVE  /\ Contents(cs) \in Seq(SaidLine)
         /\ Contents(Append(cs, c)) = Contents(cs) \o Content(c)
  <1>. DEFINE E(x) == [k \in DOMAIN x |-> Content(x[k])]
  <1>1. \A x \in Seq(Line) : Content(x) \in Seq(SaidLine)
    BY FenceIsLine, ContentAppend
  <1>2. PICK T : T = Seq(Line)
    OBVIOUS
  <1>3. PICK U : U = Seq(SaidLine)
    OBVIOUS
  <1>4. cs \in Seq(T) /\ c \in T /\ Content(c) \in U
    BY <1>1, <1>2, <1>3
  <1>5. E(cs) \in Seq(U)
    <2>1. \A k \in 1..Len(cs) : Content(cs[k]) \in U
      BY <1>1, <1>2, <1>3, <1>4
    <2>2. E(cs) \in [1..Len(cs) -> U] /\ Len(cs) \in Nat
      <3>1. DOMAIN cs = 1..Len(cs) /\ Len(cs) \in Nat
        BY <1>4
      <3>. QED BY <2>1, <3>1
    <2>3. PICK es, n : es = E(cs) /\ n = Len(cs)
      OBVIOUS
    <2>4. es \in Seq(U)
      <3>1. es \in [1..n -> U] /\ n \in Nat
        BY <2>2, <2>3
      <3>. QED BY <3>1
    <2>. QED BY <2>3, <2>4
  <1>6. E(Append(cs, c)) = Append(E(cs), Content(c))
    <2>1. /\ DOMAIN cs = 1..Len(cs) /\ Len(cs) \in Nat
          /\ DOMAIN Append(cs, c) = 1..(Len(cs) + 1)
          /\ \A k \in 1..Len(cs) : Append(cs, c)[k] = cs[k]
          /\ Append(cs, c)[Len(cs) + 1] = c
      BY <1>4
    <2>2. Len(E(cs)) = Len(cs) /\ \A k \in 1..Len(cs) : E(cs)[k] = Content(cs[k])
      BY <1>4, <1>5, <2>1
    <2>3. PICK es : es = E(cs)
      OBVIOUS
    <2>4. Append(es, Content(c)) = [k \in 1..(Len(cs) + 1) |-> IF k = Len(cs) + 1 THEN Content(c) ELSE es[k]]
      BY <1>4, <1>5, <2>2, <2>3
    <2>5. E(Append(cs, c)) = [k \in 1..(Len(cs) + 1) |-> IF k = Len(cs) + 1 THEN Content(c) ELSE es[k]]
      BY <2>1, <2>2, <2>3
    <2>. QED BY <2>3, <2>4, <2>5
  <1>7. Contents(cs) = FlattenSeq(E(cs)) /\ Contents(Append(cs, c)) = FlattenSeq(E(Append(cs, c)))
    BY DEF Contents
  <1>. HIDE DEF E
  <1>8. E(cs) \in Seq(Seq(SaidLine)) /\ Content(c) \in Seq(SaidLine)
    BY <1>3, <1>4, <1>5
  <1>. QED BY <1>6, <1>7, <1>8, FlattenAppend

LEMMA FencedMessage ==
  ASSUME NEW x \in Seq(Line)
  PROVE  /\ Append(x, Fence) \in Seq(Line)
         /\ Content(Append(x, Fence)) = Content(x)
         /\ Length(x) \in Nat
         /\ x # <<>> => Length(Append(x, Fence)) = Length(x) + 4
         /\ x = <<>> => Length(Append(x, Fence)) = 3
         /\ Balanced(Append(x, Fence)) <=> ~Balanced(x)
  <1>1. Fence \in Line /\ Fence.fence /\ Fence.len = 3
    BY FenceIsLine
  <1>2. Content(Append(x, Fence)) = Content(x)
    BY <1>1, ContentAppend
  <1>3. Length(x) \in Nat /\ Length(Append(x, Fence)) = Length(x) + 3 + (IF x = <<>> THEN 0 ELSE 1)
    BY <1>1, LengthAppend
  <1>4. Balanced(Append(x, Fence)) <=> ~Balanced(x)
    BY <1>1, BalancedAppend
  <1>5. x = <<>> => Length(x) = 0
    BY LengthOfNone
  <1>6. Append(x, Fence) \in Seq(Line)
    BY <1>1
  <1>. QED BY <1>2, <1>3, <1>4, <1>5, <1>6

LEMMA LengthTyped ==
  ASSUME NEW s \in Seq(Line)
  PROVE  Length(s) \in Nat
BY FenceIsLine, LengthAppend

LEMMA ContentsOfNone == Contents(<<>>) = <<>>
  <1>1. PICK e : e = <<>>
    OBVIOUS
  <1>2. [k \in DOMAIN e |-> Content(e[k])] = e
    BY <1>1
  <1>. QED BY <1>1, <1>2 DEF Contents, FlattenSeq

LEMMA StartFaithful == Faithful(Start, <<>>)
  <1>1. PICK e : e = <<>>
    OBVIOUS
  <1>2. e \in Seq(Line) /\ Len(e) = 0 /\ e \in Seq(Seq(Line)) /\ e \in Seq(SaidLine)
    BY <1>1, EmptySeq
  <1>3. Start = [chunks |-> e, cur |-> e, curLen |-> 0, inFence |-> FALSE]
    BY <1>1 DEF Start
  <1>4. Start \in States
    BY <1>2, <1>3 DEF States
  <1>5. Content(e) = e /\ Length(e) = 0 /\ Balanced(e)
    BY <1>1, ContentOfNone, LengthOfNone, FencesOfNone
  <1>6. Contents(e) = e
    BY <1>1, ContentsOfNone
  <1>7. e \o e = e
    BY <1>1
  <1>8. PICK st : st = Start
    OBVIOUS
  <1>9. st.chunks = e /\ st.cur = e /\ st.curLen = 0 /\ st.inFence = FALSE
    BY <1>3, <1>8
  <1>10. \A k \in 1..Len(e) : Renders(e[k])
    BY <1>2
  <1>11. Contents(st.chunks) \o Content(st.cur) = Content(e)
    BY <1>5, <1>6, <1>7, <1>9
  <1>12. Faithful(st, e)
    BY <1>4, <1>5, <1>8, <1>9, <1>10, <1>11, LimitAssumption DEF Faithful
  <1>. QED BY <1>1, <1>8, <1>12

\* A message that is cut off renders, and nothing of it is lost.
LEMMA FlushFaithful ==
  ASSUME NEW st, NEW seen, Faithful(st, seen)
  PROVE  /\ Faithful(Flush(st), seen)
         /\ Flush(st).cur = Closer(st) /\ Flush(st).curLen <= 3
         /\ Contents(Flush(st).chunks) = Content(seen)
         /\ Len(Flush(st).chunks) = Len(st.chunks) + 1
  <1>1. /\ st \in States /\ Contents(st.chunks) \o Content(st.cur) = Content(seen)
        /\ st.curLen = Length(st.cur) /\ st.curLen + (IF st.inFence THEN 4 ELSE 0) <= Limit
        /\ st.inFence <=> ~Balanced(st.cur)
        /\ st.inFence <=> ~Balanced(seen)
        /\ \A k \in 1..Len(st.chunks) : Renders(st.chunks[k])
    BY DEF Faithful
  <1>2. /\ st.chunks \in Seq(Seq(Line)) /\ st.cur \in Seq(Line) /\ st.inFence \in BOOLEAN
        /\ st.curLen \in Nat
    BY <1>1 DEF States
  <1>3. PICK m : m = st.cur \o Closer(st)
    OBVIOUS
  <1>4. /\ m \in Seq(Line) /\ Renders(m) /\ Content(m) = Content(st.cur)
    <2>1. CASE st.inFence
      <3>1. m = Append(st.cur, Fence)
        <4>1. m = st.cur \o <<Fence>>
          BY <1>3, <2>1 DEF Closer
        <4>2. Fence \in Line
          BY FenceIsLine
        <4>. QED BY <1>2, <4>1, <4>2
      <3>2. st.cur # <<>>
        BY <1>1, <2>1, FencesOfNone
      <3>3. Length(m) = Length(st.cur) + 4 /\ Balanced(m) /\ m \in Seq(Line) /\ Content(m) = Content(st.cur)
        BY <1>1, <1>2, <2>1, <3>1, <3>2, FencedMessage
      <3>. QED BY <1>1, <2>1, <3>3 DEF Renders
    <2>2. CASE ~st.inFence
      <3>1. m = st.cur
        BY <1>2, <1>3, <2>2, ConcatEmptySeq DEF Closer
      <3>2. Length(m) <= Limit /\ Balanced(m)
        BY <1>1, <1>2, <2>2, <3>1
      <3>. QED BY <1>2, <3>1, <3>2 DEF Renders
    <2>. QED BY <1>2, <2>1, <2>2
  <1>5. PICK e, ft : e = <<>> /\ ft = Flush(st)
    OBVIOUS
  <1>6. /\ ft \in States /\ ft.chunks = Append(st.chunks, m) /\ ft.cur = Closer(st)
        /\ ft.curLen = (IF st.inFence THEN 3 ELSE 0) /\ ft.inFence = st.inFence
    BY <1>1, <1>3, <1>5, FlushTyped
  <1>7. /\ Closer(st) \in Seq(Line) /\ Content(Closer(st)) = e
        /\ Length(Closer(st)) = (IF st.inFence THEN 3 ELSE 0)
        /\ st.inFence <=> ~Balanced(Closer(st))
    <2>1. e \in Seq(Line) /\ Content(e) = e /\ Length(e) = 0 /\ Balanced(e)
      BY <1>5, EmptySeq, ContentOfNone, LengthOfNone, FencesOfNone
    <2>2. CASE st.inFence
      <3>1. Closer(st) = Append(e, Fence)
        BY <1>5, <2>2 DEF Closer
      <3>2. Content(Append(e, Fence)) = e /\ Length(Append(e, Fence)) = 3 /\ ~Balanced(Append(e, Fence))
        BY <1>5, <2>1, FencedMessage
      <3>3. Append(e, Fence) \in Seq(Line)
        BY <2>1, FencedMessage
      <3>. QED BY <2>2, <3>1, <3>2, <3>3
    <2>3. CASE ~st.inFence
      BY <1>5, <2>1, <2>3 DEF Closer
    <2>. QED BY <1>2, <2>2, <2>3
  <1>8. Contents(ft.chunks) = Content(seen)
    BY <1>1, <1>2, <1>4, <1>6, ContentsAppend
  <1>9. Contents(ft.chunks) \in Seq(SaidLine)
    <2>1. ft.chunks \in Seq(Seq(Line))
      BY <1>6 DEF States
    <2>. QED BY <1>2, <2>1, ContentsAppend
  <1>10. Contents(ft.chunks) \o Content(ft.cur) = Content(seen)
    BY <1>5, <1>6, <1>7, <1>8, <1>9, ConcatEmptySeq
  <1>11. Len(ft.chunks) = Len(st.chunks) + 1 /\ \A k \in 1..Len(ft.chunks) : Renders(ft.chunks[k])
    <2>1. PICK T : T = Seq(Line)
      OBVIOUS
    <2>2. st.chunks \in Seq(T) /\ m \in T
      BY <1>2, <1>4, <2>1
    <2>3. /\ Len(ft.chunks) = Len(st.chunks) + 1 /\ Len(st.chunks) \in Nat
          /\ \A k \in 1..Len(st.chunks) : ft.chunks[k] = st.chunks[k]
          /\ ft.chunks[Len(st.chunks) + 1] = m
      BY <1>6, <2>2
    <2>. SUFFICES ASSUME NEW k \in 1..Len(ft.chunks) PROVE Renders(ft.chunks[k])
      BY <2>3
    <2>4. CASE k \in 1..Len(st.chunks)
      BY <1>1, <2>3, <2>4
    <2>5. CASE k = Len(st.chunks) + 1
      BY <1>4, <2>3, <2>5
    <2>. QED BY <2>3, <2>4, <2>5
  <1>12. ft.curLen + (IF ft.inFence THEN 4 ELSE 0) <= Limit
    BY <1>2, <1>6, LimitAssumption
  <1>13. Faithful(ft, seen)
    BY <1>1, <1>6, <1>7, <1>10, <1>11, <1>12 DEF Faithful
  <1>. QED BY <1>2, <1>5, <1>6, <1>8, <1>11, <1>13

-----------------------------------------------------------------------------
(* A line goes into the message that is being filled, or starts the next *)

\* A line goes in when there is room for it and for the fence it leaves open.
LEMMA AddFaithful ==
  ASSUME NEW st, NEW seen \in Seq(Line), NEW l \in Line, Faithful(st, seen),
         st.curLen + Cost(st, l) + Reserve(st, l) <= Limit
  PROVE  Faithful(Add(st, l), Append(seen, l))
  <1>1. /\ st \in States /\ Contents(st.chunks) \o Content(st.cur) = Content(seen)
        /\ st.curLen = Length(st.cur)
        /\ st.inFence <=> ~Balanced(st.cur)
        /\ st.inFence <=> ~Balanced(seen)
        /\ \A k \in 1..Len(st.chunks) : Renders(st.chunks[k])
    BY DEF Faithful
  <1>2. /\ st.chunks \in Seq(Seq(Line)) /\ st.cur \in Seq(Line) /\ st.inFence \in BOOLEAN
        /\ st.curLen \in Nat
    BY <1>1 DEF States
  <1>3. l.len \in Nat /\ l.fence \in BOOLEAN
    BY DEF Line
  <1>4. PICK ad : ad = Add(st, l)
    OBVIOUS
  <1>5. /\ ad \in States /\ ad.chunks = st.chunks /\ ad.cur = Append(st.cur, l)
        /\ ad.curLen = st.curLen + Cost(st, l) /\ ad.inFence = NextFence(st, l)
        /\ Cost(st, l) \in Nat
    BY <1>1, <1>4, AddTyped
  <1>6. ad.curLen = Length(ad.cur)
    <2>1. Length(Append(st.cur, l)) = Length(st.cur) + l.len + (IF st.cur = <<>> THEN 0 ELSE 1)
      BY <1>2, LengthAppend
    <2>. QED BY <1>1, <1>2, <1>3, <1>5, <2>1 DEF Cost
  <1>7. ad.curLen + (IF ad.inFence THEN 4 ELSE 0) <= Limit
    BY <1>5 DEF Reserve, FenceLen
  <1>8. ad.inFence <=> ~Balanced(ad.cur)
    <2>1. Balanced(Append(st.cur, l)) <=> (Balanced(st.cur) /\ ~l.fence) \/ (~Balanced(st.cur) /\ l.fence)
      BY <1>2, BalancedAppend
    <2>2. ad.inFence = (st.inFence # l.fence)
      BY <1>5 DEF NextFence
    <2>3. CASE l.fence
      BY <1>1, <1>2, <1>3, <1>5, <2>1, <2>2, <2>3
    <2>4. CASE ~l.fence
      BY <1>1, <1>2, <1>3, <1>5, <2>1, <2>2, <2>4
    <2>. QED BY <2>3, <2>4
  <1>9. ad.inFence <=> ~Balanced(Append(seen, l))
    <2>1. Balanced(Append(seen, l)) <=> (Balanced(seen) /\ ~l.fence) \/ (~Balanced(seen) /\ l.fence)
      BY BalancedAppend
    <2>2. ad.inFence = (st.inFence # l.fence)
      BY <1>5 DEF NextFence
    <2>3. CASE l.fence
      BY <1>1, <1>2, <1>3, <1>5, <2>1, <2>2, <2>3
    <2>4. CASE ~l.fence
      BY <1>1, <1>2, <1>3, <1>5, <2>1, <2>2, <2>4
    <2>. QED BY <2>3, <2>4
  <1>10. Contents(ad.chunks) \o Content(ad.cur) = Content(Append(seen, l))
    <2>1. PICK A, B, x : /\ A = Contents(st.chunks) /\ B = Content(st.cur)
                         /\ x = [line |-> l, code |-> ~Balanced(Append(st.cur, l))]
      OBVIOUS
    <2>2. A \in Seq(SaidLine) /\ B \in Seq(SaidLine)
      BY <1>2, <2>1, ContentsAppend, ContentAppend
    <2>3. x = [line |-> l, code |-> ~Balanced(Append(seen, l))]
      BY <1>5, <1>8, <1>9, <2>1
    <2>4. A \o B = Content(seen)
      BY <1>1, <2>1
    <2>5. CASE l.fence
      <3>1. Content(Append(st.cur, l)) = B /\ Content(Append(seen, l)) = Content(seen)
        BY <1>2, <2>1, <2>5, ContentAppend
      <3>. QED BY <1>5, <2>1, <2>4, <3>1
    <2>6. CASE ~l.fence
      <3>1. Content(Append(st.cur, l)) = Append(B, x)
        BY <1>2, <2>1, <2>6, ContentAppend
      <3>2. Content(Append(seen, l)) = Append(Content(seen), x)
        BY <2>3, <2>6, ContentAppend
      <3>3. x \in SaidLine
        BY <2>1 DEF SaidLine
      <3>4. A \o Append(B, x) = Append(A \o B, x)
        BY <2>2, <3>3
      <3>. QED BY <1>5, <2>1, <2>4, <3>1, <3>2, <3>4
    <2>. QED BY <2>5, <2>6
  <1>11. Faithful(ad, Append(seen, l))
    BY <1>1, <1>5, <1>6, <1>7, <1>8, <1>9, <1>10 DEF Faithful
  <1>. QED BY <1>4, <1>11

\* Taking a line that fits a message: the guard leaves room for it, or the
\* message is cut off, and an empty one with at most a fence in it has room.
LEMMA TakeFaithful ==
  ASSUME NEW st, NEW seen \in Seq(Line), NEW l \in Fitting, Faithful(st, seen)
  PROVE  Faithful(Take(st, l), Append(seen, l))
  <1>1. l \in Line /\ l.len \in Nat /\ l.len + 8 <= Limit /\ l.fence \in BOOLEAN
    BY MaxLineRoom DEF Fitting, Line
  <1>2. \A x : Cost(x, l) <= l.len + 1 /\ Cost(x, l) \in Nat /\ Reserve(x, l) \in 0..4
    BY <1>1 DEF Cost, Reserve, FenceLen
  <1>3. CASE Overflows(st, l)
    <2>1. PICK ft : ft = Flush(st)
      OBVIOUS
    <2>2. Faithful(ft, seen) /\ ft.curLen <= 3 /\ ft.curLen \in Nat
      BY <2>1, FlushFaithful DEF Faithful, States
    <2>3. ft.curLen + Cost(ft, l) + Reserve(ft, l) <= Limit
      BY <1>1, <1>2, <2>2, LimitAssumption
    <2>4. Take(st, l) = Add(ft, l)
      BY <1>3, <2>1 DEF Take
    <2>. QED BY <1>1, <2>2, <2>3, <2>4, AddFaithful
  <1>4. CASE ~Overflows(st, l)
    <2>1. Take(st, l) = Add(st, l)
      BY <1>4 DEF Take
    <2>2. st.curLen \in Nat /\ st.cur \in Seq(Line) /\ st.curLen = Length(st.cur)
      BY DEF Faithful, States
    <2>3. st.curLen + Cost(st, l) + Reserve(st, l) <= Limit
      <3>1. CASE st.cur = <<>>
        <4>1. st.curLen = 0
          BY <2>2, <3>1, LengthOfNone
        <4>. QED BY <1>1, <1>2, <4>1, LimitAssumption
      <3>2. CASE st.cur # <<>>
        BY <1>2, <1>4, <2>2, <3>2, LimitAssumption DEF Overflows
      <3>. QED BY <3>1, <3>2
    <2>. QED BY <1>1, <2>1, <2>3, AddFaithful
  <1>. QED BY <1>3, <1>4

LEMMA CutFaithful ==
  ASSUME NEW s \in Seq(Fitting)
  PROVE  Faithful(Cut(s), s)
  <1>1. s \in Seq(Line) /\ Len(s) \in Nat /\ \A n \in 1..Len(s) : s[n] \in Fitting
    BY DEF Fitting
  <1>2. PICK f : /\ f \in [0..Len(s) -> States]
                 /\ Cut(s) = f[Len(s)] /\ f[0] = Start
                 /\ \A n \in 1..Len(s) : f[n] = Take(f[n - 1], s[n])
    BY <1>1, CutTakes
  <1>. DEFINE P == {n \in 0..Len(s) : Faithful(f[n], SubSeq(s, 1, n))}
  <1>3. 0 \in P
    <2>1. SubSeq(s, 1, 0) = <<>>
      BY <1>1
    <2>2. Faithful(f[0], SubSeq(s, 1, 0))
      BY <1>2, <2>1, StartFaithful
    <2>3. 0 \in 0..Len(s)
      BY <1>1
    <2>. QED BY <2>2, <2>3
  <1>4. ASSUME NEW n \in 1..Len(s), n - 1 \in P PROVE n \in P
    <2>1. SubSeq(s, 1, n - 1) \in Seq(Line)
      BY <1>1
    <2>2. SubSeq(s, 1, n) = Append(SubSeq(s, 1, n - 1), s[n])
      BY <1>1, SubSeqRecursiveSecond
    <2>3. Faithful(Take(f[n - 1], s[n]), Append(SubSeq(s, 1, n - 1), s[n]))
      BY <1>1, <1>4, <2>1, TakeFaithful
    <2>. QED BY <1>1, <1>2, <2>2, <2>3
  <1>5. Len(s) \in P
    <2>1. PICK Q \in SUBSET Nat : Q = P
      <3>1. P \subseteq Nat
        BY <1>1
      <3>. QED BY <3>1
    <2>2. PICK N : N = Len(s) /\ N \in Nat
      BY <1>1
    <2>. HIDE DEF P
    <2>3. 0 \in Q /\ \A n \in 1..N : n - 1 \in Q => n \in Q
      BY <1>3, <1>4, <2>1, <2>2
    <2>4. N \in 0..N
      BY <2>2
    <2>5. 0..N \subseteq Q
      BY <2>2, <2>3, UpTo
    <2>. QED BY <2>1, <2>2, <2>4, <2>5
  <1>6. SubSeq(s, 1, Len(s)) = s
    BY <1>1
  <1>. QED BY <1>2, <1>5, <1>6

-----------------------------------------------------------------------------
(* What Split promises *)

\* Every message of a text that has to be cut renders on its own: it is within
\* Slack's limit and its fences come in pairs (split_for_slack).
THEOREM SplitRenders ==
  ASSUME NEW lines \in Seq(Line)
  PROVE  /\ Split(lines) \in Seq(Seq(Line)) /\ Split(lines) # <<>>
         /\ Length(lines) <= Limit => Split(lines) = <<lines>>
         /\ Length(lines) > Limit =>
              \A k \in 1..Len(Split(lines)) : Renders(Split(lines)[k])
  <1>1. CASE Length(lines) <= Limit
    <2>1. PICK T : T = Seq(Line)
      OBVIOUS
    <2>2. <<lines>> \in Seq(T) /\ <<lines>> # <<>>
      BY <2>1
    <2>3. Length(lines) \in Nat
      BY LengthTyped
    <2>. QED BY <1>1, <2>1, <2>2, <2>3, LimitAssumption DEF Split
  <1>2. CASE ~(Length(lines) <= Limit)
    <2>1. PICK st : st = Cut(Wrapped(lines))
      OBVIOUS
    <2>2. Faithful(st, Wrapped(lines))
      BY <2>1, WrappedFits, CutFaithful
    <2>3. PICK ft : ft = Flush(st)
      OBVIOUS
    <2>4. /\ ft.chunks \in Seq(Seq(Line)) /\ Len(ft.chunks) = Len(st.chunks) + 1
          /\ Len(st.chunks) \in Nat
          /\ \A k \in 1..Len(ft.chunks) : Renders(ft.chunks[k])
      <3>1. Faithful(ft, Wrapped(lines)) /\ Len(ft.chunks) = Len(st.chunks) + 1
        BY <2>2, <2>3, FlushFaithful
      <3>2. st \in States /\ ft \in States /\ \A k \in 1..Len(ft.chunks) : Renders(ft.chunks[k])
        BY <2>2, <3>1 DEF Faithful
      <3>3. ft.chunks \in Seq(Seq(Line)) /\ st.chunks \in Seq(Seq(Line))
        BY <3>2 DEF States
      <3>. QED BY <3>1, <3>2, <3>3, LenProperties
    <2>5. Split(lines) = ft.chunks
      BY <1>2, <2>1, <2>3 DEF Split
    <2>6. ft.chunks # <<>>
      BY <2>4
    <2>. QED BY <1>2, <2>4, <2>5, <2>6
  <1>. QED BY <1>1, <1>2

\* Cut or not, the messages hold the text's lines, all of them and in order, and
\* what was code in the text is code in its message.
THEOREM SplitKeepsText ==
  ASSUME NEW lines \in Seq(Line)
  PROVE  KeepsText(lines)
  <1>1. CASE Length(lines) <= Limit
    <2>1. PICK e : e = <<>>
      OBVIOUS
    <2>2. e \in Seq(Seq(Line)) /\ e \in Seq(Seq(SaidLine)) /\ Append(e, lines) = <<lines>>
      BY <2>1, EmptySeq
    <2>3. Contents(e) = e
      BY <2>1, ContentsOfNone
    <2>4. Content(lines) \in Seq(SaidLine)
      BY FenceIsLine, ContentAppend
    <2>5. Contents(<<lines>>) = Content(lines)
      <3>1. Contents(Append(e, lines)) = Contents(e) \o Content(lines)
        BY <2>2, ContentsAppend
      <3>2. PICK c : c = Content(lines) /\ c \in Seq(SaidLine)
        BY <2>4
      <3>3. <<>> \o c = c
        BY <3>2, ConcatEmptySeq
      <3>. QED BY <2>1, <2>2, <2>3, <3>1, <3>2, <3>3
    <2>. QED BY <1>1, <2>5 DEF KeepsText, Split, Whole
  <1>2. CASE ~(Length(lines) <= Limit)
    <2>1. Faithful(Cut(Wrapped(lines)), Wrapped(lines))
      BY WrappedFits, CutFaithful
    <2>2. Contents(Flush(Cut(Wrapped(lines))).chunks) = Content(Wrapped(lines))
      BY <2>1, FlushFaithful
    <2>. QED BY <1>2, <2>2 DEF KeepsText, Split, Whole
  <1>. QED BY <1>1, <1>2

-----------------------------------------------------------------------------
(* What wrapping and quoting leave alone *)

\* The length of a text without its line ends.
Chars(s) == Length(s) - (IF s = <<>> THEN 0 ELSE Len(s) - 1)

LEMMA CharsAppend ==
  ASSUME NEW s \in Seq(Line), NEW x \in Line
  PROVE  Chars(s) \in Int /\ Chars(Append(s, x)) = Chars(s) + x.len
  <1>1. Length(s) \in Nat /\ Length(Append(s, x)) = Length(s) + x.len + (IF s = <<>> THEN 0 ELSE 1)
    BY LengthAppend
  <1>2. PICK n \in Nat : n = Len(s) /\ Len(Append(s, x)) = n + 1 /\ Append(s, x) # <<>> /\ (s = <<>> <=> n = 0)
    OBVIOUS
  <1>3. x.len \in Nat
    BY DEF Line
  <1>. QED BY <1>1, <1>2, <1>3 DEF Chars

LEMMA CharsOfNone == Chars(<<>>) = 0
BY LengthOfNone DEF Chars

LEMMA CharsTyped ==
  ASSUME NEW s \in Seq(Line)
  PROVE  Chars(s) \in Int
BY FenceIsLine, CharsAppend

LEMMA CharsJoin ==
  ASSUME NEW a \in Seq(Line), NEW b \in Seq(Line)
  PROVE  Chars(a \o b) = Chars(a) + Chars(b)
  <1>1. PICK N \in Nat : N = Len(b)
    OBVIOUS
  <1>. DEFINE f == [n \in 0..N |-> Chars(a \o SubSeq(b, 1, n))]
              g == [n \in 0..N |-> Chars(a) + Chars(SubSeq(b, 1, n))]
  <1>2. f[0] = g[0]
    <2>1. PICK e : e = <<>>
      OBVIOUS
    <2>2. SubSeq(b, 1, 0) = e /\ a \o e = a
      BY <1>1, <2>1
    <2>3. PICK p \in Int : p = Chars(a)
      BY CharsTyped
    <2>4. Chars(e) = 0
      BY <2>1, CharsOfNone
    <2>5. f[0] = p /\ g[0] = p + 0
      <3>1. 0 \in 0..N
        OBVIOUS
      <3>. QED BY <2>2, <2>3, <2>4, <3>1
    <2>. QED BY <2>3, <2>5
  <1>3. ASSUME NEW n \in 1..N, f[n - 1] = g[n - 1] PROVE f[n] = g[n]
    <2>1. PICK c, x : c = SubSeq(b, 1, n - 1) /\ x = b[n]
      OBVIOUS
    <2>2. c \in Seq(Line) /\ x \in Line /\ SubSeq(b, 1, n) = Append(c, x)
      BY <1>1, <2>1, SubSeqRecursiveSecond
    <2>3. a \o Append(c, x) = Append(a \o c, x) /\ a \o c \in Seq(Line)
      BY <2>2
    <2>4. Chars(a \o c) = Chars(a) + Chars(c)
      <3>1. n - 1 \in 0..N
        OBVIOUS
      <3>. QED BY <1>3, <2>1, <3>1
    <2>5. Chars(Append(a \o c, x)) = Chars(a \o c) + x.len /\ Chars(Append(c, x)) = Chars(c) + x.len
      BY <2>2, <2>3, CharsAppend
    <2>6. PICK p \in Int, r \in Int, d \in Nat : p = Chars(a) /\ r = Chars(c) /\ d = x.len
      <3>1. Chars(a) \in Int /\ Chars(c) \in Int
        BY <2>2, CharsTyped
      <3>2. x.len \in Nat
        BY <2>2 DEF Line
      <3>. QED BY <3>1, <3>2
    <2>7. n \in 0..N
      OBVIOUS
    <2>8. f[n] = Chars(Append(a \o c, x)) /\ g[n] = Chars(a) + Chars(Append(c, x))
      BY <2>2, <2>3, <2>7
    <2>9. f[n] = p + r + d /\ g[n] = p + (r + d)
      BY <2>4, <2>5, <2>6, <2>8
    <2>. QED BY <2>6, <2>9
  <1>4. f[N] = g[N]
    <2>. HIDE DEF f, g
    <2>1. N \in 0..N
      OBVIOUS
    <2>. QED BY <1>2, <1>3, <2>1, BuiltOnce
  <1>5. SubSeq(b, 1, N) = b
    BY <1>1
  <1>6. f[N] = Chars(a \o b) /\ g[N] = Chars(a) + Chars(b)
    <2>1. N \in 0..N
      OBVIOUS
    <2>. QED BY <1>5, <2>1
  <1>. QED BY <1>4, <1>6

LEMMA PiecesTyped ==
  ASSUME NEW l \in Line
  PROVE  Pieces(l) \in Seq(Line) /\ Pieces(l) # <<>>
  <1>1. PICK ps : ps = Pieces(l) /\ ps \in Seq(Fitting) /\ ps # <<>>
    BY PiecesFit
  <1>2. \A k \in 1..Len(ps) : ps[k] \in Line
    BY <1>1 DEF Fitting
  <1>3. ps \in Seq(Line)
    BY <1>1, <1>2
  <1>. QED BY <1>1, <1>3

LEMMA WrappedTyped ==
  ASSUME NEW s \in Seq(Line)
  PROVE  Wrapped(s) \in Seq(Line)
  <1>1. PICK ps : ps = Wrapped(s) /\ ps \in Seq(Fitting)
    BY WrappedFits
  <1>2. \A k \in 1..Len(ps) : ps[k] \in Line
    BY <1>1 DEF Fitting
  <1>3. ps \in Seq(Line)
    BY <1>1, <1>2
  <1>. QED BY <1>1, <1>3

LEMMA CharsPieces ==
  ASSUME NEW l \in Line
  PROVE  Chars(Pieces(l)) = l.len
  <1>1. PICK ps : ps = Pieces(l) /\ ps \in Seq(Line) /\ ps # <<>>
    BY PiecesTyped
  <1>2. PICK M \in Nat, n \in Nat : M = MaxLine /\ n = Len(ps) /\ n # 0
    BY <1>1, MaxLineRoom
  <1>3. l.len \in Nat
    BY DEF Line
  <1>4. ps[n].len = l.len - (n - 1) * M /\ \A k \in 1..(n - 1) : ps[k].len = M
    <2>1. PICK c : c = IF l.len <= MaxLine THEN 1 ELSE (l.len + MaxLine - 1) \div MaxLine
      OBVIOUS
    <2>2. ps = [k \in 1..c |->
                 [len   |-> IF k < c THEN MaxLine ELSE l.len - (c - 1) * MaxLine,
                  fence |-> IF k = 1 THEN l.fence ELSE k \in l.late,
                  late  |-> {}]]
      BY <1>1, <2>1 DEF Pieces
    <2>3. DOMAIN ps = 1..c
      BY <2>2
    <2>4. DOMAIN ps = 1..n
      BY <1>1, <1>2
    <2>5. c \in Int
      <3>1. PICK m \in Nat : m = MaxLine /\ m > 0
        BY MaxLineRoom
      <3>2. (l.len + m - 1) \div m \in Int
        BY <1>3, <3>1
      <3>. QED BY <2>1, <3>1, <3>2
    <2>6. c = n
      <3>1. 1..c = 1..n
        BY <2>3, <2>4
      <3>2. n \in 1..n
        BY <1>2
      <3>3. n \in 1..c
        BY <3>1, <3>2
      <3>4. c >= n
        BY <1>2, <2>5, <3>3
      <3>5. c \in 1..c
        BY <1>2, <2>5, <3>4
      <3>6. c \in 1..n
        BY <3>1, <3>5
      <3>7. c <= n
        BY <3>6
      <3>. QED BY <2>5, <3>4, <3>7
    <2>7. PICK r : r = [k \in 1..n |->
                          [len   |-> IF k < n THEN M ELSE l.len - (n - 1) * M,
                           fence |-> IF k = 1 THEN l.fence ELSE k \in l.late,
                           late  |-> {}]]
      OBVIOUS
    <2>8. ps = r
      BY <1>2, <2>2, <2>6, <2>7
    <2>9. \A k \in 1..n : r[k].len = IF k < n THEN M ELSE l.len - (n - 1) * M
      BY <2>7
    <2>10. n \in 1..n /\ ~(n < n) /\ \A k \in 1..(n - 1) : k \in 1..n /\ k < n
      BY <1>2
    <2>. QED BY <2>8, <2>9, <2>10
  <1>. DEFINE P == {k \in 0..(n - 1) : Chars(SubSeq(ps, 1, k)) = k * M}
  <1>5. 0 \in P
    <2>1. SubSeq(ps, 1, 0) = <<>>
      BY <1>1
    <2>2. Chars(SubSeq(ps, 1, 0)) = 0
      BY <2>1, CharsOfNone
    <2>3. 0 * M = 0 /\ 0 \in 0..(n - 1)
      BY <1>2
    <2>. QED BY <2>2, <2>3
  <1>6. ASSUME NEW k \in 1..(n - 1), k - 1 \in P PROVE k \in P
    <2>1. SubSeq(ps, 1, k - 1) \in Seq(Line) /\ ps[k] \in Line
          /\ SubSeq(ps, 1, k) = Append(SubSeq(ps, 1, k - 1), ps[k])
      BY <1>1, <1>2, SubSeqRecursiveSecond
    <2>2. Chars(SubSeq(ps, 1, k)) = (k - 1) * M + M
      BY <1>4, <1>6, <2>1, CharsAppend
    <2>3. (k - 1) * M + M = k * M
      BY <1>2
    <2>. QED BY <1>2, <2>2, <2>3
  <1>7. n - 1 \in P
    <2>1. PICK Q \in SUBSET Nat : Q = P
      <3>1. P \subseteq Nat
        BY <1>2
      <3>. QED BY <3>1
    <2>2. PICK m \in Nat : m = n - 1
      BY <1>2
    <2>. HIDE DEF P
    <2>3. 0 \in Q /\ \A k \in 1..m : k - 1 \in Q => k \in Q
      BY <1>5, <1>6, <2>1, <2>2
    <2>4. 0..m \subseteq Q /\ m \in 0..m
      BY <2>2, <2>3, UpTo
    <2>. QED BY <2>1, <2>2, <2>4
  <1>8. SubSeq(ps, 1, n - 1) \in Seq(Line) /\ ps[n] \in Line
        /\ ps = Append(SubSeq(ps, 1, n - 1), ps[n])
    <2>1. SubSeq(ps, 1, n) = ps
      BY <1>1, <1>2
    <2>. QED BY <1>1, <1>2, <2>1, SubSeqRecursiveSecond
  <1>9. PICK w \in Int : w = (n - 1) * M
    BY <1>2
  <1>10. Chars(ps) = w + (l.len - w)
    BY <1>4, <1>7, <1>8, <1>9, CharsAppend
  <1>. QED BY <1>1, <1>3, <1>9, <1>10

LEMMA WrappedAppend ==
  ASSUME NEW s \in Seq(Line), NEW x \in Line
  PROVE  Wrapped(Append(s, x)) = Wrapped(s) \o Pieces(x)
  <1>. DEFINE E(y) == [i \in DOMAIN y |-> Pieces(y[i])]
  <1>1. PICK T : T = Seq(Line)
    OBVIOUS
  <1>2. \A l \in Line : Pieces(l) \in T
    BY <1>1, PiecesTyped
  <1>3. PICK n \in Nat : n = Len(s) /\ DOMAIN s = 1..n /\ DOMAIN Append(s, x) = 1..(n + 1)
                         /\ Append(s, x)[n + 1] = x /\ \A i \in 1..n : Append(s, x)[i] = s[i]
    OBVIOUS
  <1>4. PICK es : es = E(s)
    OBVIOUS
  <1>5. es = [i \in 1..n |-> Pieces(s[i])]
    BY <1>3, <1>4
  <1>6. es \in Seq(T) /\ Len(es) = n
    <2>1. \A i \in 1..n : Pieces(s[i]) \in T
      BY <1>2, <1>3
    <2>2. PICK fs : fs = es /\ fs \in [1..n -> T]
      BY <1>5, <2>1
    <2>3. fs \in Seq(T) /\ Len(fs) = n
      BY <1>3, <2>2
    <2>. QED BY <2>2, <2>3
  <1>7. E(Append(s, x)) = Append(es, Pieces(x))
    <2>1. Append(es, Pieces(x)) = [i \in 1..(n + 1) |-> IF i = n + 1 THEN Pieces(x) ELSE es[i]]
      <3>1. PICK p : p = Pieces(x) /\ p \in T
        BY <1>2
      <3>2. Append(es, p) = [i \in 1..(n + 1) |-> IF i = n + 1 THEN p ELSE es[i]]
        BY <1>3, <1>5, <1>6, <3>1
      <3>. QED BY <3>1, <3>2
    <2>2. E(Append(s, x)) = [i \in 1..(n + 1) |-> IF i = n + 1 THEN Pieces(x) ELSE es[i]]
      BY <1>3, <1>5
    <2>. QED BY <2>1, <2>2
  <1>8. Wrapped(s) = FlattenSeq(es) /\ Wrapped(Append(s, x)) = FlattenSeq(E(Append(s, x)))
    BY <1>4 DEF Wrapped
  <1>. HIDE DEF E
  <1>9. es \in Seq(Seq(Line)) /\ Pieces(x) \in Seq(Line)
    BY <1>1, <1>2, <1>6
  <1>. QED BY <1>7, <1>8, <1>9, FlattenAppend

\* Wrapping a line that is too long adds line ends to the text and nothing else.
THEOREM WrapKeepsLength ==
  ASSUME NEW s \in Seq(Line)
  PROVE  Chars(Whole(s)) = Chars(s)
  <1>1. PICK N \in Nat : N = Len(s)
    OBVIOUS
  <1>. DEFINE f == [n \in 0..N |-> Chars(Wrapped(SubSeq(s, 1, n)))]
              g == [n \in 0..N |-> Chars(SubSeq(s, 1, n))]
  <1>2. f[0] = g[0]
    <2>1. PICK e : e = <<>>
      OBVIOUS
    <2>2. SubSeq(s, 1, 0) = e /\ DOMAIN e = {}
      BY <1>1, <2>1
    <2>3. Wrapped(e) = e
      <3>1. [i \in DOMAIN e |-> Pieces(e[i])] = e
        BY <2>1
      <3>. QED BY <2>1, <3>1 DEF Wrapped, FlattenSeq
    <2>4. 0 \in 0..N
      OBVIOUS
    <2>. QED BY <2>2, <2>3, <2>4
  <1>3. ASSUME NEW n \in 1..N, f[n - 1] = g[n - 1] PROVE f[n] = g[n]
    <2>1. PICK c, x : c = SubSeq(s, 1, n - 1) /\ x = s[n]
      OBVIOUS
    <2>2. c \in Seq(Line) /\ x \in Line /\ SubSeq(s, 1, n) = Append(c, x)
      BY <1>1, <2>1, SubSeqRecursiveSecond
    <2>3. PICK w, ps : w = Wrapped(c) /\ ps = Pieces(x) /\ w \in Seq(Line) /\ ps \in Seq(Line)
      BY <2>2, WrappedTyped, PiecesTyped
    <2>4. Chars(Wrapped(Append(c, x))) = Chars(w) + x.len
      <3>1. Wrapped(Append(c, x)) = w \o ps
        BY <2>2, <2>3, WrappedAppend
      <3>2. Chars(w \o ps) = Chars(w) + Chars(ps) /\ Chars(ps) = x.len
        BY <2>2, <2>3, CharsJoin, CharsPieces
      <3>. QED BY <3>1, <3>2
    <2>5. Chars(w) = Chars(c)
      <3>1. n - 1 \in 0..N
        OBVIOUS
      <3>. QED BY <1>3, <2>1, <2>3, <3>1
    <2>6. Chars(Append(c, x)) = Chars(c) + x.len
      BY <2>2, CharsAppend
    <2>7. n \in 0..N
      OBVIOUS
    <2>. QED BY <2>2, <2>4, <2>5, <2>6, <2>7
  <1>4. f[N] = g[N]
    <2>. HIDE DEF f, g
    <2>1. N \in 0..N
      OBVIOUS
    <2>. QED BY <1>2, <1>3, <2>1, BuiltOnce
  <1>5. SubSeq(s, 1, N) = s
    BY <1>1
  <1>6. f[N] = Chars(Wrapped(s)) /\ g[N] = Chars(s)
    <2>1. N \in 0..N
      OBVIOUS
    <2>. QED BY <1>5, <2>1
  <1>. QED BY <1>4, <1>6 DEF Whole

LEMMA QuoteTyped ==
  ASSUME NEW s \in Seq(Line)
  PROVE  Blockquote(s) \in Seq(Line)
  <1>1. PICK n \in Nat : n = Len(s) /\ DOMAIN s = 1..n
    BY LenProperties
  <1>. DEFINE q(i) == IF s[i].fence \/ ~Balanced(SubSeq(s, 1, i)) THEN s[i]
                      ELSE [s[i] EXCEPT !.len = @ + (IF @ = 0 THEN 1 ELSE 2)]
  <1>2. ASSUME NEW i \in 1..n PROVE q(i) \in Line
    <2>1. PICK l \in Line : l = s[i]
      BY <1>1
    <2>2. [l EXCEPT !.len = @ + (IF @ = 0 THEN 1 ELSE 2)] \in Line
      <3>1. l.len + (IF l.len = 0 THEN 1 ELSE 2) \in Nat
        BY DEF Line
      <3>. QED BY <3>1 DEF Line
    <2>. QED BY <2>1, <2>2
  <1>3. Blockquote(s) = [i \in 1..n |-> q(i)]
    BY <1>1 DEF Blockquote
  <1>. HIDE DEF q
  <1>4. [i \in 1..n |-> q(i)] \in [1..n -> Line]
    BY <1>2
  <1>. QED BY <1>3, <1>4

\* Quoting touches no fence and no line of code, and what is code stays code.
THEOREM QuoteKeepsCode ==
  ASSUME NEW s \in Seq(Line), NEW i \in 1..Len(s)
  PROVE  /\ Len(Blockquote(s)) = Len(s)
         /\ Balanced(SubSeq(Blockquote(s), 1, i)) <=> Balanced(SubSeq(s, 1, i))
         /\ Blockquote(s)[i].fence = s[i].fence
         /\ s[i].fence \/ ~Balanced(SubSeq(s, 1, i)) => Blockquote(s)[i] = s[i]
  <1>1. PICK q, n : q = Blockquote(s) /\ n = Len(s) /\ n \in Nat
    BY LenProperties
  <1>2. q \in Seq(Line) /\ DOMAIN q = 1..n /\ DOMAIN s = 1..n /\ Len(q) = n
    <2>1. q \in Seq(Line) /\ DOMAIN q = DOMAIN s
      BY <1>1, QuoteTyped DEF Blockquote
    <2>. QED BY <1>1, <2>1
  <1>3. ASSUME NEW j \in 1..n
        PROVE  /\ q[j].fence = s[j].fence
               /\ s[j].fence \/ ~Balanced(SubSeq(s, 1, j)) => q[j] = s[j]
    <2>1. q[j] = IF s[j].fence \/ ~Balanced(SubSeq(s, 1, j)) THEN s[j]
                 ELSE [s[j] EXCEPT !.len = @ + (IF @ = 0 THEN 1 ELSE 2)]
      BY <1>1, <1>2 DEF Blockquote
    <2>2. s[j] \in Line
      BY <1>2
    <2>3. \A l \in Line : \A d : [l EXCEPT !.len = d].fence = l.fence
      BY DEF Line
    <2>. QED BY <2>1, <2>2, <2>3
  <1>4. Fences(SubSeq(q, 1, i)) = Fences(SubSeq(s, 1, i))
    <2>1. /\ DOMAIN SubSeq(q, 1, i) = 1..i /\ DOMAIN SubSeq(s, 1, i) = 1..i
          /\ \A j \in 1..i : SubSeq(q, 1, i)[j] = q[j] /\ SubSeq(s, 1, i)[j] = s[j] /\ j \in 1..n
      BY <1>1, <1>2
    <2>2. {j \in DOMAIN SubSeq(q, 1, i) : SubSeq(q, 1, i)[j].fence}
            = {j \in DOMAIN SubSeq(s, 1, i) : SubSeq(s, 1, i)[j].fence}
      BY <1>3, <2>1
    <2>. QED BY <2>2 DEF Fences
  <1>. QED BY <1>1, <1>2, <1>3, <1>4 DEF Balanced

-----------------------------------------------------------------------------
(* The mirror *)

LEMMA RenderedTyped ==
  ASSUME NEW t \in Texts
  PROVE  Rendered(t) \in Seq(Line) /\ Parts[t] = Split(Rendered(t))
  <1>1. /\ Heading \in Line /\ Bodies[t] \in Seq(Line) /\ Parts[t] = Split(Rendered(t))
    BY SyncTextsAssumption
  <1>2. PICK q \in Seq(Line) : q = Blockquote(Bodies[t])
    BY <1>1, QuoteTyped
  <1>3. <<Heading>> \o q \in Seq(Line)
    BY <1>1
  <1>. QED BY <1>1, <1>2, <1>3 DEF Rendered

LEMMA PartRenders ==
  ASSUME NEW part \in Shows
  PROVE  /\ Length(part) <= Limit
         /\ ~Balanced(part) => \E t \in Texts : part = Rendered(t)
  <1>1. PICK t \in Texts : \E k \in 1..Len(Parts[t]) : part = Parts[t][k]
    BY DEF Shows
  <1>2. PICK lines \in Seq(Line) : lines = Rendered(t) /\ Parts[t] = Split(lines)
    BY RenderedTyped
  <1>. PICK k \in 1..Len(Parts[t]) : part = Parts[t][k]
    BY <1>1
  <1>3. CASE Length(lines) <= Limit
    <2>1. Parts[t] = <<lines>>
      BY <1>2, <1>3, SplitRenders
    <2>2. k = 1 /\ part = lines
      BY <1>1, <2>1
    <2>. QED BY <1>2, <1>3, <2>2
  <1>4. CASE ~(Length(lines) <= Limit)
    <2>1. Length(lines) > Limit
      BY <1>4, LengthTyped, LimitAssumption
    <2>2. Renders(part)
      BY <1>1, <1>2, <2>1, SplitRenders
    <2>. QED BY <2>2 DEF Renders
  <1>. QED BY <1>3, <1>4

\* Only parts of texts are posted in the app's messages.
AppsShow == \A m \in DOMAIN messages : messages[m].by = "app" => messages[m].part \in Shows

LEMMA PartsStay ==
  ASSUME Sound, AppsShow,
         \/ UNCHANGED messages
         \/ \E new : messages' = Append(messages, new) /\ (new.by = "app" => new.part \in Shows)
         \/ \E j, part : part \in Shows /\ messages' = [messages EXCEPT ![j].part = part]
         \/ \E j : messages' = [messages EXCEPT ![j].live = FALSE]
         \/ \E j, text : messages' = [messages EXCEPT ![j].text = text]
  PROVE  AppsShow'
  <1>1. PICK s, n : s = messages /\ n = Len(messages)
    OBVIOUS
  <1>2. s \in Seq(Messages) /\ n \in Nat /\ DOMAIN s = 1..n
    BY <1>1 DEF Sound, Stored
  <1>3. \A m \in 1..n : s[m] \in Messages /\ (s[m].by = "app" => s[m].part \in Shows)
    BY <1>1, <1>2 DEF AppsShow
  <1>4. CASE UNCHANGED messages
    BY <1>4 DEF AppsShow
  <1>5. ASSUME NEW new, messages' = Append(messages, new), new.by = "app" => new.part \in Shows
        PROVE  AppsShow'
    <2>1. PICK t : t = Append(s, new)
      OBVIOUS
    <2>2. DOMAIN t = 1..(n + 1) /\ t[n + 1] = new /\ \A m \in 1..n : t[m] = s[m]
      BY <1>1, <1>2, <2>1
    <2>3. \A m \in DOMAIN t : m \in 1..n \/ m = n + 1
      BY <1>2, <2>2
    <2>. QED BY <1>1, <1>3, <1>5, <2>1, <2>2, <2>3 DEF AppsShow
  <1>6. ASSUME NEW j, NEW part,
               \/ part \in Shows /\ messages' = [messages EXCEPT ![j].part = part]
               \/ messages' = [messages EXCEPT ![j].live = FALSE]
               \/ messages' = [messages EXCEPT ![j].text = part]
        PROVE  AppsShow'
    <2>1. DOMAIN messages' = 1..n
      BY <1>1, <1>2, <1>6
    <2>2. ASSUME NEW m \in 1..n, messages'[m].by = "app" PROVE messages'[m].part \in Shows
      <3>1. CASE m # j
        BY <1>1, <1>2, <1>3, <1>6, <2>2, <3>1
      <3>2. CASE m = j
        <4>1. PICK r \in Messages : r = messages[m]
          BY <1>1, <1>3
        <4>2. CASE part \in Shows /\ messages' = [messages EXCEPT ![j].part = part]
          BY <1>1, <1>2, <3>2, <4>1, <4>2 DEF Messages
        <4>3. CASE messages' = [messages EXCEPT ![j].live = FALSE]
          BY <1>1, <1>2, <1>3, <2>2, <3>2, <4>1, <4>3 DEF Messages
        <4>4. CASE messages' = [messages EXCEPT ![j].text = part]
          BY <1>1, <1>2, <1>3, <2>2, <3>2, <4>1, <4>4 DEF Messages
        <4>. QED BY <1>6, <4>2, <4>3, <4>4
      <3>. QED BY <3>1, <3>2
    <2>. QED BY <2>1, <2>2 DEF AppsShow
  <1>. QED BY <1>4, <1>5, <1>6

LEMMA PostShows ==
  ASSUME Sound, AppsShow, NEW h \in Handlers, Post(h)
  PROVE  AppsShow'
  <1>1. PICK t, n, k : t = job[h].text /\ n = Len(sent[h]) /\ k = n + 1
    OBVIOUS
  <1>2. /\ StageOK(h) /\ EventOK(job[h])
        /\ job[h].plain => Len(Parts[t]) \in Nat \ {0}
    BY <1>1, Holding DEF Post
  <1>3. t \in Texts /\ n < Len(Parts[t]) /\ sent[h] \in Seq(AppsOf(job[h].item))
    BY <1>1, <1>2 DEF Post, StageOK, EventOK
  <1>4. k \in 1..Len(Parts[t])
    <2>1. n \in Nat /\ Len(Parts[t]) \in Nat
      BY <1>1, <1>3, PartsKnown
    <2>. QED BY <1>1, <1>3, <2>1
  <1>5. PICK part \in Shows : part = Parts[t][k]
    BY <1>3, <1>4, PartShown
  <1>6. messages' = Append(messages, Message("app", job[h].item, Reply(h), None, part))
    BY <1>1, <1>5 DEF Post, Say
  <1>7. Message("app", job[h].item, Reply(h), None, part).part \in Shows
    BY <1>5 DEF Message
  <1>. QED BY <1>6, <1>7, PartsStay

LEMMA ResyncShows ==
  ASSUME Sound, AppsShow, NEW h \in Handlers, Resync(h)
  PROVE  AppsShow'
  <1>1. PICK t, n, k, q : t = job[h].text /\ n = Len(sent[h]) /\ k = n + 1 /\ q = shown[h]
    OBVIOUS
  <1>2. /\ StageOK(h) /\ EventOK(job[h]) /\ pc[h] = "resync"
    BY <1>1, Holding DEF Resync
  <1>3. /\ t \in Texts /\ n < Longest(Len(Parts[t]), Len(q)) /\ sent[h] \in Seq(AppsOf(job[h].item))
        /\ q \in Seq(AppsOf(job[h].item))
    BY <1>1, <1>2 DEF StageOK, EventOK, FoundGitHub
  <1>4. n \in Nat /\ Len(Parts[t]) \in Nat /\ Len(q) \in Nat
    BY <1>1, <1>3, PartsKnown
  <1>5. ~(k <= Len(q)) => k <= Len(Parts[t])
    BY <1>1, <1>3, <1>4 DEF Longest
  <1>6. k <= Len(Parts[t]) => Parts[t][k] \in Shows
    BY <1>1, <1>3, <1>4, PartShown
  <1>7. \/ UNCHANGED messages
        \/ ~(k <= Len(q)) /\ Say("app", job[h].item, q[1], Parts[t][k])
        \/ k <= Len(Parts[t]) /\ \E j : messages' = [messages EXCEPT ![j].part = Parts[t][k]]
        \/ \E j : messages' = [messages EXCEPT ![j].live = FALSE]
    BY <1>1 DEF Resync
  <1>8. CASE ~(k <= Len(q)) /\ Say("app", job[h].item, q[1], Parts[t][k])
    <2>1. PICK part \in Shows : part = Parts[t][k]
      BY <1>5, <1>6, <1>8
    <2>2. messages' = Append(messages, Message("app", job[h].item, q[1], None, part))
      BY <1>8, <2>1 DEF Say
    <2>3. Message("app", job[h].item, q[1], None, part).part \in Shows
      BY <2>1 DEF Message
    <2>. QED BY <2>2, <2>3, PartsStay
  <1>9. CASE k <= Len(Parts[t]) /\ \E j : messages' = [messages EXCEPT ![j].part = Parts[t][k]]
    BY <1>6, <1>9, PartsStay
  <1>. QED BY <1>7, <1>8, <1>9, PartsStay

LEMMA AppsShowNext ==
  ASSUME Sound, AppsShow, [Next]_vars
  PROVE  AppsShow'
  <1>1. CASE UNCHANGED vars
    BY <1>1, PartsStay DEF vars, world
  <1>2. CASE People
    <2>1. \/ UNCHANGED messages
          \/ \E r, t : messages' = Append(messages, Message("person", 0, r, t, None))
          \/ \E j : messages' = [messages EXCEPT ![j].live = FALSE]
          \/ \E j, t : messages' = [messages EXCEPT ![j].text = t]
      BY <1>2, Acts DEF WriteComment, EditComment, DeleteComment, MeddleComment, MeddleDelete,
                        WriteMessage, DeleteMessage, EditMessage, MeddleMessage, Toggle
    <2>2. \A r, t : Message("person", 0, r, t, None).by # "app"
      BY DEF Message
    <2>3. ASSUME NEW r, NEW t, messages' = Append(messages, Message("person", 0, r, t, None))
          PROVE  AppsShow'
      <3>1. PICK new : new = Message("person", 0, r, t, None) /\ new.by # "app"
        BY <2>2
      <3>. QED BY <2>3, <3>1, PartsStay
    <2>. QED BY <2>1, <2>3, PartsStay
  <1>3. ASSUME NEW h \in Handlers, Handle(h) PROVE AppsShow'
    <2>1. CASE Unpost(h)
      <3>1. UNCHANGED messages \/ \E j : messages' = [messages EXCEPT ![j].live = FALSE]
        BY <2>1 DEF Unpost
      <3>. QED BY <3>1, PartsStay
    <2>2. CASE Notify(h)
      <3>1. messages' = Append(messages, Message("notice", job[h].item, job[h].item, None, None))
        BY <2>2 DEF Notify, Say
      <3>2. Message("notice", job[h].item, job[h].item, None, None).by # "app"
        BY DEF Message
      <3>. QED BY <3>1, <3>2, PartsStay
    <2>3. CASE ~(Post(h) \/ Resync(h) \/ Unpost(h) \/ Notify(h))
      <3>1. UNCHANGED messages
        BY <1>3, <2>3 DEF Handle, Receive, FallBack, MapComment, SetExtra, DropRow, Comment, Record,
                          Rewrite, Uncomment, Die, world
      <3>. QED BY <3>1, PartsStay
    <2>. QED BY <2>1, <2>2, <2>3, PostShows, ResyncShows
  <1>. QED BY <1>1, <1>2, <1>3 DEF Next

LEMMA AppsShowInvariant == Spec => [](Sound /\ AppsShow)
  <1>1. Init => AppsShow
    BY DEF Init, Message, AppsShow
  <1>2. Sound /\ AppsShow /\ [Next]_vars => AppsShow'
    BY AppsShowNext
  <1>. QED BY <1>1, <1>2, MessagesInvariant, PTL DEF Spec

\* In every reachable state every message the app posted is within Slack's limit
\* and shows its code as code, save a text posted whole whose author left a fence
\* open (split_for_slack, _post_attributed_to_github_user, _resync_slack_messages).
THEOREM MessagesRender == Spec => []PartsRender
  <1>1. AppsShow => PartsRender
    <2>. SUFFICES ASSUME AppsShow, NEW m \in DOMAIN messages, messages[m].by = "app"
                  PROVE  /\ Length(messages[m].part) <= Limit
                         /\ ~Balanced(messages[m].part) => \E t \in Texts : messages[m].part = Rendered(t)
      BY DEF PartsRender
    <2>1. messages[m].part \in Shows
      BY DEF AppsShow
    <2>. QED BY <2>1, PartRenders
  <1>. QED BY <1>1, AppsShowInvariant, PTL

\* What a reader of Slack sees of a comment whose events were handled one by one is
\* its latest text, no line lost, doubled or out of order, and code as code: the
\* messages are the parts of the text, and the parts hold the text.
THEOREM CommentsReadAsWritten == Spec => []ReadsAsWritten
  <1>1. Sound /\ CommentsShown => ReadsAsWritten
    <2>. SUFFICES ASSUME Sound, CommentsShown, NEW c \in DOMAIN comments, NEW ms, ms = ShownFor(c),
                         comments[c].of = 0, comments[c].live, Settled(<<"github", c>>)
                  PROVE  Contents([k \in DOMAIN ms |-> messages[ms[k]].part])
                           = Content(Whole(Rendered(comments[c].text)))
      BY DEF ReadsAsWritten
    <2>1. PICK t \in Texts : t = comments[c].text
      <3>1. comments[c] \in Comments
        BY DEF Sound, Stored
      <3>. QED BY <3>1 DEF Comments
    <2>2. [k \in DOMAIN ms |-> messages[ms[k]].part] = Parts[t]
      BY <2>1 DEF CommentsShown
    <2>3. PICK lines \in Seq(Line) : lines = Rendered(t) /\ Parts[t] = Split(lines)
      BY RenderedTyped
    <2>4. Contents(Split(lines)) = Content(Whole(lines))
      BY SplitKeepsText DEF KeepsText
    <2>. QED BY <2>1, <2>2, <2>3, <2>4
  <1>. QED BY <1>1, MessagesInvariant, GitHubReachesSlack, PTL

=============================================================================
