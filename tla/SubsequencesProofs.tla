------------------------- MODULE SubsequencesProofs -------------------------
(***************************************************************************)
(* What the subsequence of the elements in a set is, by induction on the   *)
(* sequence.  Induction itself comes from the well-foundedness of the      *)
(* finite subsets of the natural numbers, applied to the intervals 0..n.   *)
(***************************************************************************)
EXTENDS Subsequences, FiniteSetTheorems, TLAPS

LEMMA NatSetInduction ==
  ASSUME NEW S \in SUBSET Nat, 0 \in S, \A n \in S : n + 1 \in S
  PROVE  S = Nat
<1> SUFFICES ASSUME NEW k \in Nat, k \notin S PROVE FALSE
  OBVIOUS
<1> DEFINE T == {0..n : n \in Nat \ S}
<1>1. IsWellFoundedOn(StrictSubsetOrdering(Nat), FiniteSubsetsOf(Nat))
  BY FS_StrictSubsetOrderingWellFounded
<1>2. T \subseteq FiniteSubsetsOf(Nat) /\ T # {}
  <2>1. ASSUME NEW n \in Nat
        PROVE  0..n \in FiniteSubsetsOf(Nat)
    <3>1. IsFiniteSet(0..n)
      BY FS_Interval
    <3>2. 0..n \subseteq Nat
      OBVIOUS
    <3>3. QED
      BY <3>1, <3>2 DEF FiniteSubsetsOf
  <2>2. 0..k \in T
    OBVIOUS
  <2>3. QED
    BY <2>1, <2>2
<1> HIDE DEF T
<1>3. \E x \in T : \A y \in T : <<y, x>> \notin StrictSubsetOrdering(Nat)
  BY <1>1, <1>2, WFMin
<1>4. PICK n \in Nat \ S : \A y \in T : <<y, 0..n>> \notin StrictSubsetOrdering(Nat)
  BY <1>3 DEF T
<1>5. n # 0
  OBVIOUS
<1>6. n - 1 \in Nat /\ 0..(n - 1) \subseteq 0..n /\ 0..(n - 1) # 0..n
  <2>1. n \in 0..n /\ n \notin 0..(n - 1)
    OBVIOUS
  <2>2. QED
    BY <1>5, <2>1
<1>7. n - 1 \in S
  <2>1. SUFFICES ASSUME n - 1 \notin S PROVE FALSE
    OBVIOUS
  <2>2. 0..(n - 1) \in T
    BY <1>6, <2>1 DEF T
  <2>3. <<0..(n - 1), 0..n>> \in StrictSubsetOrdering(Nat)
    BY <1>6 DEF StrictSubsetOrdering
  <2>4. QED
    BY <1>4, <2>2, <2>3
<1>8. QED
  BY <1>6, <1>7

\* A set of sequences over T that holds the empty one and is closed under Append
\* holds all of them.
LEMMA SeqSetInduction ==
  ASSUME NEW T, NEW P \in SUBSET Seq(T), <<>> \in P,
         \A s \in P : \A x \in T : Append(s, x) \in P
  PROVE  P = Seq(T)
<1> DEFINE N == {n \in Nat : \A s \in Seq(T) : Len(s) = n => s \in P}
<1>1. 0 \in N
  OBVIOUS
<1>2. ASSUME NEW n \in N
      PROVE  n + 1 \in N
  <2>1. ASSUME NEW s \in Seq(T), Len(s) = n + 1
        PROVE  s \in P
    <3> DEFINE front == [i \in 1..n |-> s[i]]
    <3>1. front \in Seq(T) /\ Len(front) = n /\ s[n + 1] \in T
      BY <2>1
    <3>2. s = Append(front, s[n + 1])
      BY <2>1, <3>1
    <3>3. QED
      BY <3>1, <3>2
  <2>2. QED
    BY <2>1
<1>3. N = Nat
  BY <1>1, <1>2, NatSetInduction
<1>4. \A s \in Seq(T) : Len(s) \in Nat
  OBVIOUS
<1>5. QED
  BY <1>3, <1>4

-----------------------------------------------------------------------------
\* One step of the recursion of Kept, for f in the place of kept.
KeptStep(s, S, f, i) ==
  IF i = 0 THEN <<>> ELSE IF s[i] \in S THEN Append(f[i - 1], s[i]) ELSE f[i - 1]

\* Kept satisfies its recursive equation.
LEMMA KeptDef ==
  ASSUME NEW T, NEW s \in Seq(T), NEW S
  PROVE  \A i \in 0..Len(s) : Kept(s, S)[i] = KeptStep(s, S, Kept(s, S), i)
<1> DEFINE Solves(f, n) == f = [i \in 0..n |-> KeptStep(s, S, f, i)]
           N == {n \in Nat : \E f : Solves(f, n)}
<1>1. 0 \in N
  <2>1. Solves([i \in 0..0 |-> <<>>], 0)
    BY DEF KeptStep
  <2>2. QED
    BY <2>1
<1>2. ASSUME NEW n \in N
      PROVE  n + 1 \in N
  <2>1. PICK f : Solves(f, n)
    OBVIOUS
  <2> DEFINE g == [i \in 0..(n + 1) |-> IF i = n + 1 THEN KeptStep(s, S, f, i) ELSE f[i]]
  <2>2. \A i \in 0..n : g[i] = f[i]
    OBVIOUS
  <2>3. ASSUME NEW i \in 0..n
        PROVE  f[i] = KeptStep(s, S, f, i)
    BY <2>1
  <2>4. ASSUME NEW i \in 0..(n + 1)
        PROVE  KeptStep(s, S, f, i) = KeptStep(s, S, g, i)
    <3>1. i # 0 => i - 1 \in 0..n
      OBVIOUS
    <3>2. i # 0 => g[i - 1] = f[i - 1]
      BY <2>2, <3>1
    <3>3. QED
      BY <3>2 DEF KeptStep
  <2>5. ASSUME NEW i \in 0..(n + 1)
        PROVE  g[i] = KeptStep(s, S, f, i)
    BY <2>3
  <2>6. ASSUME NEW i \in 0..(n + 1)
        PROVE  g[i] = KeptStep(s, S, g, i)
    BY <2>4, <2>5
  <2>7. Solves(g, n + 1)
    BY <2>6
  <2>8. QED
    BY <2>7
<1>3. N = Nat
  BY <1>1, <1>2, NatSetInduction
<1>4. \E f : Solves(f, Len(s))
  BY <1>3
<1>5. Kept(s, S) = CHOOSE f : Solves(f, Len(s))
  BY DEF Kept, KeptStep
<1>6. QED
  BY <1>4, <1>5

\* The elements kept of the first i do not depend on what comes behind them.
LEMMA KeptOfPrefix ==
  ASSUME NEW T, NEW s \in Seq(T), NEW x \in T, NEW S
  PROVE  \A i \in 0..Len(s) : Kept(Append(s, x), S)[i] = Kept(s, S)[i]
<1> DEFINE f == Kept(Append(s, x), S)
           g == Kept(s, S)
           N == {n \in Nat : n <= Len(s) => f[n] = g[n]}
<1>1. Append(s, x) \in Seq(T) /\ Len(Append(s, x)) = Len(s) + 1 /\ Len(s) \in Nat
  OBVIOUS
<1>2. \A i \in 1..Len(s) : Append(s, x)[i] = s[i]
  OBVIOUS
<1>3. \A i \in 0..(Len(s) + 1) : f[i] = KeptStep(Append(s, x), S, f, i)
  BY <1>1, KeptDef
<1>4. \A i \in 0..Len(s) : g[i] = KeptStep(s, S, g, i)
  BY KeptDef
<1> HIDE DEF f, g
<1>5. 0 \in N
  BY <1>1, <1>3, <1>4 DEF KeptStep
<1>6. ASSUME NEW n \in N
      PROVE  n + 1 \in N
  <2>1. SUFFICES ASSUME n + 1 <= Len(s)
                 PROVE  f[n + 1] = g[n + 1]
    OBVIOUS
  <2>2. n \in Nat /\ n + 1 \in 1..Len(s) /\ n + 1 # 0 /\ (n + 1) - 1 = n /\ f[n] = g[n]
    BY <1>1, <2>1
  <2>3. f[n + 1] = KeptStep(Append(s, x), S, f, n + 1) /\ g[n + 1] = KeptStep(s, S, g, n + 1)
    BY <1>1, <1>3, <1>4, <2>2
  <2>4. Append(s, x)[n + 1] = s[n + 1]
    BY <1>2, <2>2
  <2>5. QED
    BY <2>2, <2>3, <2>4 DEF KeptStep
<1>7. N = Nat
  BY <1>5, <1>6, NatSetInduction
<1>8. QED
  BY <1>1, <1>7 DEF f, g

LEMMA OnlyEmpty ==
  ASSUME NEW S
  PROVE  Only(<<>>, S) = <<>>
<1>1. <<>> \in Seq({}) /\ Len(<<>>) = 0
  OBVIOUS
<1>2. \A i \in 0..0 : Kept(<<>>, S)[i] = KeptStep(<<>>, S, Kept(<<>>, S), i)
  <2> DEFINE e == <<>>
  <2>1. e \in Seq({}) /\ Len(e) = 0
    BY <1>1
  <2> HIDE DEF e
  <2>2. \A i \in 0..Len(e) : Kept(e, S)[i] = KeptStep(e, S, Kept(e, S), i)
    BY <2>1, KeptDef
  <2>3. QED
    BY <2>1, <2>2 DEF e
<1>3. QED
  BY <1>1, <1>2 DEF Only, KeptStep

LEMMA OnlyAppend ==
  ASSUME NEW T, NEW s \in Seq(T), NEW x \in T, NEW S
  PROVE  Only(Append(s, x), S) = IF x \in S THEN Append(Only(s, S), x) ELSE Only(s, S)
<1> DEFINE n == Len(s) + 1
           t == Append(s, x)
<1>1. t \in Seq(T) /\ Len(t) = n /\ t[n] = x /\ Len(s) \in Nat /\ n # 0 /\ n - 1 = Len(s)
  OBVIOUS
<1>2. \A i \in 0..Len(t) : Kept(t, S)[i] = KeptStep(t, S, Kept(t, S), i)
  BY <1>1, KeptDef
<1>3. Kept(t, S)[n - 1] = Kept(s, S)[n - 1]
  BY <1>1, KeptOfPrefix
<1> HIDE DEF n, t
<1>4. Kept(t, S)[n] = KeptStep(t, S, Kept(t, S), n)
  BY <1>1, <1>2
<1>5. QED
  BY <1>1, <1>3, <1>4 DEF Only, KeptStep, t

\* Only gives a sequence of elements of the set.
LEMMA OnlyType ==
  ASSUME NEW T, NEW S
  PROVE  \A s \in Seq(T) : Only(s, S) \in Seq(S \cap T)
<1> DEFINE P == {s \in Seq(T) : Only(s, S) \in Seq(S \cap T)}
<1>1. <<>> \in P
  <2>1. <<>> \in Seq(T) /\ <<>> \in Seq(S \cap T)
    OBVIOUS
  <2>2. QED
    BY <2>1, OnlyEmpty
<1>2. ASSUME NEW s \in P, NEW x \in T
      PROVE  Append(s, x) \in P
  <2>1. s \in Seq(T) /\ Only(s, S) \in Seq(S \cap T) /\ Append(s, x) \in Seq(T)
    OBVIOUS
  <2>2. Only(Append(s, x), S) = IF x \in S THEN Append(Only(s, S), x) ELSE Only(s, S)
    BY <2>1, OnlyAppend
  <2>3. x \in S => Append(Only(s, S), x) \in Seq(S \cap T)
    BY <2>1
  <2>4. QED
    BY <2>1, <2>2, <2>3
<1> HIDE DEF P
<1>3. P = Seq(T)
  <2>1. P \in SUBSET Seq(T)
    BY DEF P
  <2>2. QED
    BY <1>1, <1>2, <2>1, SeqSetInduction
<1>4. QED
  BY <1>3 DEF P

LEMMA OnlyConcat ==
  ASSUME NEW T, NEW s \in Seq(T), NEW S
  PROVE  \A t \in Seq(T) : Only(s \o t, S) = Only(s, S) \o Only(t, S)
<1> DEFINE P == {t \in Seq(T) : Only(s \o t, S) = Only(s, S) \o Only(t, S)}
<1>0. Only(s, S) \in Seq(S \cap T) /\ \A t \in Seq(T) : Only(t, S) \in Seq(S \cap T)
  BY OnlyType
<1>1. <<>> \in P
  <2>1. s \o <<>> = s /\ Only(s, S) \o <<>> = Only(s, S)
    BY <1>0
  <2>2. Only(<<>>, S) = <<>> /\ <<>> \in Seq(T)
    BY OnlyEmpty
  <2>3. QED
    BY <2>1, <2>2
<1>2. ASSUME NEW t \in P, NEW x \in T
      PROVE  Append(t, x) \in P
  <2>1. /\ s \o Append(t, x) = Append(s \o t, x)
        /\ s \o t \in Seq(T) /\ Append(t, x) \in Seq(T)
    OBVIOUS
  <2> DEFINE st == s \o t
  <2>2. st \in Seq(T) /\ t \in Seq(T)
    BY <2>1
  <2>3. /\ Only(Append(st, x), S) = IF x \in S THEN Append(Only(st, S), x) ELSE Only(st, S)
        /\ Only(Append(t, x), S) = IF x \in S THEN Append(Only(t, S), x) ELSE Only(t, S)
    <3> HIDE DEF st
    <3>1. QED
      BY <2>2, OnlyAppend
  <2>4. Only(s \o t, S) = Only(s, S) \o Only(t, S)
    OBVIOUS
  <2>5. x \in S => Only(s, S) \o Append(Only(t, S), x) = Append(Only(s, S) \o Only(t, S), x)
    BY <1>0
  <2>6. QED
    BY <2>1, <2>3, <2>4, <2>5
<1> HIDE DEF P
<1>3. P = Seq(T)
  <2>1. P \in SUBSET Seq(T)
    BY DEF P
  <2>2. QED
    BY <1>1, <1>2, <2>1, SeqSetInduction
<1>4. QED
  BY <1>3 DEF P

\* The first element is kept or not, and then the rest.
LEMMA OnlyHead ==
  ASSUME NEW T, NEW s \in Seq(T), s # <<>>, NEW S
  PROVE  Only(s, S) = IF Head(s) \in S THEN <<Head(s)>> \o Only(Tail(s), S) ELSE Only(Tail(s), S)
<1> DEFINE x == Head(s)
           one == Append(<<>>, x)
           rest == Tail(s)
<1>1. /\ x \in T /\ one \in Seq(T) /\ rest \in Seq(T) /\ <<>> \in Seq(T)
      /\ s = one \o rest
  OBVIOUS
<1>2. one = <<x>>
  OBVIOUS
<1> HIDE DEF x, rest
<1>3. Only(one, S) = IF x \in S THEN Append(<<>>, x) ELSE <<>>
  <2> DEFINE e == <<>>
  <2>1. e \in Seq(T) /\ Only(e, S) = <<>>
    BY OnlyEmpty
  <2> HIDE DEF e
  <2>2. Only(Append(e, x), S) = IF x \in S THEN Append(Only(e, S), x) ELSE Only(e, S)
    BY <1>1, <2>1, OnlyAppend
  <2>3. QED
    BY <2>1, <2>2 DEF e
<1> HIDE DEF one
<1>4. Only(one \o rest, S) = Only(one, S) \o Only(rest, S)
  BY <1>1, OnlyConcat
<1>5. Only(rest, S) \in Seq(S \cap T)
  BY <1>1, OnlyType
<1>6. x \notin S => Only(one, S) \o Only(rest, S) = Only(rest, S)
  BY <1>3, <1>5
<1>7. x \in S => Only(one, S) = <<x>>
  BY <1>2, <1>3 DEF one
<1>8. QED
  BY <1>1, <1>4, <1>6, <1>7 DEF x, rest
-----------------------------------------------------------------------------
(* Sequences, whatever they are of *)

LEMMA ConcatFront ==
  ASSUME NEW T, NEW s \in Seq(T), NEW t \in Seq(T)
  PROVE  \A i \in 1..Len(s) : i \in 1..Len(s \o t) /\ (s \o t)[i] = s[i]
OBVIOUS

LEMMA ConcatType ==
  ASSUME NEW T, NEW s \in Seq(T), NEW t \in Seq(T)
  PROVE  s \o t \in Seq(T) /\ Len(s \o t) = Len(s) + Len(t)
OBVIOUS

LEMMA ConcatAssoc ==
  ASSUME NEW T, NEW a \in Seq(T), NEW b \in Seq(T), NEW c \in Seq(T)
  PROVE  a \o (b \o c) = a \o b \o c
OBVIOUS

LEMMA SplitAt ==
  ASSUME NEW T, NEW s \in Seq(T), NEW k \in 0..Len(s)
  PROVE  s = SubSeq(s, 1, k) \o SubSeq(s, k + 1, Len(s))
<1> DEFINE p == SubSeq(s, 1, k)
           q == SubSeq(s, k + 1, Len(s))
<1>1. /\ p \in Seq(T) /\ Len(p) = k /\ \A i \in 1..k : p[i] = s[i]
      /\ k \in Nat /\ Len(s) \in Nat /\ k <= Len(s)
  OBVIOUS
<1>2. q \in Seq(T) /\ Len(q) = Len(s) - k /\ \A i \in 1..(Len(s) - k) : q[i] = s[k + i]
  OBVIOUS
<1> HIDE DEF p, q
<1>3. p \o q \in Seq(T) /\ Len(p \o q) = Len(s)
  BY <1>1, <1>2
<1>4. ASSUME NEW i \in 1..Len(s)
      PROVE  (p \o q)[i] = s[i]
  <2>1. CASE i \in 1..k
    <3>1. p \in Seq(T) /\ q \in Seq(T) /\ i \in 1..Len(p) /\ p[i] = s[i]
      BY <1>1, <1>2, <2>1
    <3>2. (p \o q)[i] = p[i]
      BY <3>1, ConcatFront
    <3>3. QED
      BY <3>1, <3>2
  <2>2. CASE i \notin 1..k
    <3>1. i - k \in 1..(Len(s) - k) /\ k + (i - k) = i
      BY <1>1, <2>2
    <3>2. (p \o q)[i] = q[i - k]
      BY <1>1, <1>2, <2>2, <3>1
    <3>3. QED
      BY <1>2, <3>1, <3>2
  <2>3. QED
    BY <2>1, <2>2
<1>5. p \o q = s
  <2> DEFINE pq == p \o q
  <2>1. pq \in Seq(T) /\ Len(pq) = Len(s) /\ \A i \in 1..Len(s) : pq[i] = s[i]
    BY <1>3, <1>4
  <2> HIDE DEF pq
  <2>2. pq = s
    BY <2>1
  <2>3. QED
    BY <2>2 DEF pq
<1>6. QED
  BY <1>5 DEF p, q

\* A sequence over a set is one over a larger set.
LEMMA SeqMono ==
  ASSUME NEW S, NEW T, \A x \in S : x \in T
  PROVE  \A s \in Seq(S) : s \in Seq(T)
<1>1. ASSUME NEW s \in Seq(S)
      PROVE  s \in Seq(T)
  <2>1. Len(s) \in Nat /\ s = [i \in 1..Len(s) |-> s[i]]
    OBVIOUS
  <2>2. \A i \in 1..Len(s) : s[i] \in S
    OBVIOUS
  <2>3. \A i \in 1..Len(s) : s[i] \in T
    BY <2>2
  <2>4. QED
    BY <2>1, <2>3
<1>2. QED
  BY <1>1

AnySeq(s) == \E T : s \in Seq(T)

LEMMA AnySeqFacts ==
  ASSUME NEW s, AnySeq(s)
  PROVE  /\ Len(s) \in Nat
         /\ \A x : AnySeq(Append(s, x))
         /\ \A t : AnySeq(t) => AnySeq(s \o t)
         /\ \A k \in 0..Len(s) : AnySeq(SubSeq(s, 1, k)) /\ AnySeq(SubSeq(s, k + 1, Len(s)))
         /\ s # <<>> => AnySeq(Tail(s))
<1>1. PICK T : s \in Seq(T)
  BY DEF AnySeq
<1>2. ASSUME NEW x
      PROVE  AnySeq(Append(s, x))
  <2>1. s \in Seq(T \cup {x}) /\ x \in T \cup {x}
    BY <1>1, SeqMono
  <2>2. Append(s, x) \in Seq(T \cup {x})
    BY <2>1
  <2>3. QED
    BY <2>2 DEF AnySeq
<1>3. ASSUME NEW t, AnySeq(t)
      PROVE  AnySeq(s \o t)
  <2>1. PICK U : t \in Seq(U)
    BY <1>3 DEF AnySeq
  <2>2. s \in Seq(T \cup U) /\ t \in Seq(T \cup U)
    BY <1>1, <2>1, SeqMono
  <2>3. s \o t \in Seq(T \cup U)
    BY <2>2
  <2>4. QED
    BY <2>3 DEF AnySeq
<1>4. ASSUME NEW k \in 0..Len(s)
      PROVE  AnySeq(SubSeq(s, 1, k)) /\ AnySeq(SubSeq(s, k + 1, Len(s)))
  <2>1. SubSeq(s, 1, k) \in Seq(T) /\ SubSeq(s, k + 1, Len(s)) \in Seq(T)
    BY <1>1
  <2>2. QED
    BY <2>1 DEF AnySeq
<1>5. s # <<>> => AnySeq(Tail(s))
  <2>1. s # <<>> => Tail(s) \in Seq(T)
    BY <1>1
  <2>2. QED
    BY <2>1 DEF AnySeq
<1>6. Len(s) \in Nat
  BY <1>1
<1>7. QED
  BY <1>2, <1>3, <1>4, <1>5, <1>6

\* How many elements of s are in S.
Count(s, S) == Len(Only(s, S))

LEMMA CountIsAtMostAll ==
  ASSUME NEW T, NEW S
  PROVE  \A s \in Seq(T) : Count(s, S) \in 0..Len(s)
<1> DEFINE P == {s \in Seq(T) : Count(s, S) \in 0..Len(s)}
<1>1. <<>> \in P
  BY OnlyEmpty DEF Count
<1>2. ASSUME NEW s \in P, NEW x \in T
      PROVE  Append(s, x) \in P
  <2>1. s \in Seq(T) /\ Append(s, x) \in Seq(T) /\ Len(Append(s, x)) = Len(s) + 1
    OBVIOUS
  <2>2. Only(s, S) \in Seq(S \cap T) /\ Len(Only(s, S)) \in 0..Len(s)
    BY <2>1, OnlyType DEF Count
  <2>3. Only(Append(s, x), S) = IF x \in S THEN Append(Only(s, S), x) ELSE Only(s, S)
    BY <2>1, OnlyAppend
  <2>4. x \in S => Len(Append(Only(s, S), x)) = Len(Only(s, S)) + 1
    BY <2>2
  <2>5. QED
    BY <2>1, <2>2, <2>3, <2>4 DEF Count
<1> HIDE DEF P
<1>3. P = Seq(T)
  <2>1. P \in SUBSET Seq(T)
    BY DEF P
  <2>2. QED
    BY <1>1, <1>2, <2>1, SeqSetInduction
<1>4. QED
  BY <1>3 DEF P

LEMMA CountFacts ==
  ASSUME NEW s, AnySeq(s), NEW S
  PROVE  /\ Count(s, S) \in 0..Len(s)
         /\ \A x : Count(Append(s, x), S) = Count(s, S) + (IF x \in S THEN 1 ELSE 0)
         /\ \A t : AnySeq(t) => Count(s \o t, S) = Count(s, S) + Count(t, S)
         /\ s # <<>> => Count(Tail(s), S) = Count(s, S) - (IF Head(s) \in S THEN 1 ELSE 0)
<1>1. PICK T : s \in Seq(T)
  BY DEF AnySeq
<1>2. Count(s, S) \in 0..Len(s)
  BY <1>1, CountIsAtMostAll
<1>3. ASSUME NEW t, AnySeq(t)
      PROVE  Count(s \o t, S) = Count(s, S) + Count(t, S)
  <2>1. PICK U : t \in Seq(U)
    BY <1>3 DEF AnySeq
  <2>2. s \in Seq(T \cup U) /\ t \in Seq(T \cup U)
    BY <1>1, <2>1, SeqMono
  <2>3. Only(s \o t, S) = Only(s, S) \o Only(t, S)
    BY <2>2, OnlyConcat
  <2>4. Only(s, S) \in Seq(S \cap (T \cup U)) /\ Only(t, S) \in Seq(S \cap (T \cup U))
    BY <2>2, OnlyType
  <2>5. QED
    BY <2>3, <2>4 DEF Count
<1>4. ASSUME NEW x
      PROVE  Count(Append(s, x), S) = Count(s, S) + (IF x \in S THEN 1 ELSE 0)
  <2>1. s \in Seq(T \cup {x}) /\ x \in T \cup {x}
    BY <1>1, SeqMono
  <2>2. Only(Append(s, x), S) = IF x \in S THEN Append(Only(s, S), x) ELSE Only(s, S)
    BY <2>1, OnlyAppend
  <2>3. Only(s, S) \in Seq(S \cap (T \cup {x}))
    BY <2>1, OnlyType
  <2>4. x \in S => Len(Append(Only(s, S), x)) = Len(Only(s, S)) + 1
    BY <2>1, <2>3
  <2>5. QED
    BY <1>2, <2>2, <2>4 DEF Count
<1>5. ASSUME s # <<>>
      PROVE  Count(Tail(s), S) = Count(s, S) - (IF Head(s) \in S THEN 1 ELSE 0)
  <2> DEFINE x == Head(s)
             one == Only(Tail(s), S)
  <2>1. Tail(s) \in Seq(T)
    BY <1>1, <1>5
  <2>2. one \in Seq(S \cap T)
    BY <2>1, OnlyType
  <2>3. Only(s, S) = IF x \in S THEN <<x>> \o one ELSE one
    BY <1>1, <1>5, OnlyHead
  <2> HIDE DEF one
  <2>4. Len(<<x>> \o one) = Len(one) + 1 /\ Len(one) \in Nat
    BY <2>2
  <2>5. Count(s, S) = Len(one) + (IF x \in S THEN 1 ELSE 0)
    BY <2>3, <2>4 DEF Count
  <2>6. QED
    BY <2>4, <2>5 DEF Count, one
<1>6. QED
  BY <1>2, <1>3, <1>4, <1>5
=============================================================================
