--------------------------- MODULE SequenceFacts ----------------------------
(***************************************************************************)
(* Facts about lists that the proofs about several modules cite: taking an *)
(* entry out of a queue, flattening a list of lists (also one that is      *)
(* given element by element), and the induction they rest on.              *)
(***************************************************************************)
EXTENDS QueueOps, FiniteSets, FiniteSetTheorems, SequenceTheorems, WellFoundedInduction, TLAPS

\* Taking one entry out of a list keeps the others, in their order: the pop of
\* queue_store.py (`pending.pop(idx)`) drops nothing else.
LEMMA RemoveAtFacts ==
    ASSUME NEW S, NEW s \in Seq(S), NEW i \in 1..Len(s)
    PROVE  /\ RemoveAt(s, i) \in Seq(S)
           /\ Len(RemoveAt(s, i)) = Len(s) - 1
           /\ \A j \in 1..(Len(s) - 1) :
                 RemoveAt(s, i)[j] = IF j < i THEN s[j] ELSE s[j + 1]
<1> DEFINE front == SubSeq(s, 1, i - 1)
           back == SubSeq(s, i + 1, Len(s))
<1>1. /\ front \in Seq(S) /\ Len(front) = i - 1
      /\ \A j \in 1..(i - 1) : front[j] = s[j]
  OBVIOUS
<1>2. /\ back \in Seq(S) /\ Len(back) = Len(s) - i
      /\ \A j \in 1..(Len(s) - i) : back[j] = s[i + j]
  OBVIOUS
<1>3. RemoveAt(s, i) = front \o back
  BY DEF RemoveAt
<1>4. Len(s) \in Nat
  OBVIOUS
<1> HIDE DEF front, back
<1>5. /\ front \o back \in Seq(S)
      /\ Len(front \o back) = Len(front) + Len(back)
      /\ \A j \in 1..(Len(front) + Len(back)) :
            (front \o back)[j] =
               IF j <= Len(front) THEN front[j] ELSE back[j - Len(front)]
  BY <1>1, <1>2, ConcatProperties
<1>6. ASSUME NEW j \in 1..(Len(s) - 1)
      PROVE  (front \o back)[j] = IF j < i THEN s[j] ELSE s[j + 1]
  <2>1. CASE j < i
    BY <1>1, <1>2, <1>4, <1>5, <2>1
  <2>2. CASE ~(j < i)
    <3>1. (front \o back)[j] = back[j - (i - 1)]
      BY <1>1, <1>2, <1>4, <1>5, <2>2
    <3>2. j - (i - 1) \in 1..(Len(s) - i)
      BY <1>4, <2>2
    <3>3. back[j - (i - 1)] = s[i + (j - (i - 1))]
      BY <1>2, <3>2
    <3>4. i + (j - (i - 1)) = j + 1
      OBVIOUS
    <3>5. QED
      BY <2>2, <3>1, <3>3, <3>4
  <2>3. QED
    BY <2>1, <2>2
<1>7. QED
  BY <1>1, <1>2, <1>3, <1>4, <1>5, <1>6

\* The same for a list without repetition: exactly the entry is gone.
LEMMA RemoveAtSet ==
    ASSUME NEW S, NEW s \in Seq(S), NEW i \in 1..Len(s), IsInjective(s)
    PROVE  /\ RemoveAt(s, i) \in Seq(S)
           /\ ToSet(RemoveAt(s, i)) = ToSet(s) \ {s[i]}
           /\ IsInjective(RemoveAt(s, i))
<1> DEFINE r == RemoveAt(s, i)
<1>0. Len(s) \in Nat /\ DOMAIN s = 1..Len(s)
  OBVIOUS
<1>1. r \in Seq(S) /\ Len(r) = Len(s) - 1
      /\ \A j \in 1..Len(s) - 1 : r[j] = IF j < i THEN s[j] ELSE s[j + 1]
  BY RemoveAtFacts
<1> HIDE DEF r
<1>2. DOMAIN r = 1..Len(s) - 1
  BY <1>1
<1>3. ASSUME NEW j \in 1..Len(s) - 1 PROVE r[j] \in ToSet(s) \ {s[i]}
  <2>1. CASE j < i
    <3>1. r[j] = s[j] /\ j \in DOMAIN s /\ j # i
      BY <1>0, <1>1, <2>1
    <3>2. QED
      BY <1>0, <3>1 DEF IsInjective, ToSet
  <2>2. CASE ~(j < i)
    <3>1. r[j] = s[j + 1] /\ j + 1 \in DOMAIN s /\ j + 1 # i
      BY <1>0, <1>1, <2>2
    <3>2. QED
      BY <1>0, <3>1 DEF IsInjective, ToSet
  <2>3. QED
    BY <2>1, <2>2
<1>4. ASSUME NEW k \in 1..Len(s), k # i PROVE s[k] \in ToSet(r)
  <2>1. CASE k < i
    <3>1. r[k] = s[k] /\ k \in DOMAIN r
      BY <1>0, <1>1, <1>2, <2>1
    <3>2. QED
      BY <3>1 DEF ToSet
  <2>2. CASE k > i
    <3>1. k - 1 \in DOMAIN r /\ ~(k - 1 < i) /\ (k - 1) + 1 = k
      BY <1>0, <1>2, <2>2
    <3>2. r[k - 1] = s[k]
      BY <1>1, <1>2, <3>1
    <3>3. QED
      BY <3>1, <3>2 DEF ToSet
  <2>3. QED
    BY <1>4, <2>1, <2>2
<1>5. ToSet(r) = ToSet(s) \ {s[i]}
  <2>1. ToSet(r) \subseteq ToSet(s) \ {s[i]}
    BY <1>2, <1>3 DEF ToSet
  <2>2. ToSet(s) \ {s[i]} \subseteq ToSet(r)
    BY <1>0, <1>4 DEF ToSet
  <2>3. QED
    BY <2>1, <2>2
<1>6. ASSUME NEW j \in 1..Len(s) - 1, NEW k \in 1..Len(s) - 1, r[j] = r[k] PROVE j = k
  <2> DEFINE at(x) == IF x < i THEN x ELSE x + 1
  <2>1. at(j) \in DOMAIN s /\ at(k) \in DOMAIN s
    BY <1>0
  <2>2. s[at(j)] = s[at(k)]
    BY <1>1, <1>6
  <2> HIDE DEF at
  <2>3. at(j) = at(k)
    BY <2>1, <2>2 DEF IsInjective
  <2>4. QED
    BY <2>3 DEF at
<1>7. IsInjective(r)
  BY <1>2, <1>6 DEF IsInjective
<1>8. QED
  BY <1>1, <1>5, <1>7 DEF r

\* A set of numbers has a least one: the order by strict inclusion of the intervals 0..n is
\* well-founded (the induction theorems of the library, which range over operators, cannot
\* be used).
LEMMA LeastNumber ==
    ASSUME NEW T, T \subseteq Nat, T # {}
    PROVE  \E m \in T : \A k \in T : m <= k
<1> DEFINE R == StrictSubsetOrdering(Nat)
<1> DEFINE F == FiniteSubsetsOf(Nat)
<1> DEFINE U == {0..n : n \in T}
<1>1. IsWellFoundedOn(R, F)
  BY FS_StrictSubsetOrderingWellFounded
<1>2. U \subseteq F
  <2>1. SUFFICES ASSUME NEW n \in T PROVE 0..n \in F
    OBVIOUS
  <2>2. IsFiniteSet(0..n)
    BY FS_Interval
  <2>3. QED
    BY <2>2 DEF FiniteSubsetsOf
<1>3. U # {}
  OBVIOUS
<1> HIDE DEF R, F, U
<1>4. \E x \in U : \A y \in U : ~(<<y, x>> \in R)
  BY <1>1, <1>2, <1>3, WFMin
<1>5. PICK m \in T : \A k \in T : ~(<<0..k, 0..m>> \in R)
  BY <1>4 DEF U
<1>6. ASSUME NEW k \in T, k < m PROVE FALSE
  <2>1. <<0..k, 0..m>> \in R
    BY <1>6 DEF R, StrictSubsetOrdering
  <2>2. QED
    BY <2>1, <1>5
<1>7. QED
  BY <1>6

\* Induction over the numbers, for a property given as the set of the numbers that have it.
LEMMA Induction ==
    ASSUME NEW T, 0 \in T, \A n \in Nat : n \in T => n + 1 \in T
    PROVE  Nat \subseteq T
<1> DEFINE B == {n \in Nat : n \notin T}
<1> SUFFICES ASSUME B # {} PROVE FALSE
  OBVIOUS
<1>1. B \subseteq Nat
  OBVIOUS
<1>2. PICK m \in B : \A k \in B : m <= k
  BY LeastNumber, <1>1
<1>3. m - 1 \in Nat /\ m - 1 \in T
  BY <1>2
<1>4. QED
  BY <1>3

\* The recursion FlattenSeq is defined by has a solution.
LEMMA FlattenUnfolds ==
    ASSUME NEW S, NEW seqs \in Seq(Seq(S)), Len(seqs) # 0
    PROVE  \E f : /\ f = [i \in 1..Len(seqs) |-> IF i = 1 THEN seqs[i] ELSE f[i - 1] \o seqs[i]]
                  /\ FlattenSeq(seqs) = f[Len(seqs)]
<1> DEFINE Unfolds(n, f) == f = [i \in 1..n |-> IF i = 1 THEN seqs[i] ELSE f[i - 1] \o seqs[i]]
<1> DEFINE T == {n \in Nat : \E f : Unfolds(n, f)}
<1>1. 0 \in T
  <2>1. Unfolds(0, [i \in 1..0 |-> 0])
    OBVIOUS
  <2>2. QED
    BY <2>1
<1>2. ASSUME NEW n \in Nat, n \in T PROVE n + 1 \in T
  <2>1. PICK f : Unfolds(n, f)
    BY <1>2
  <2> DEFINE v == IF n = 0 THEN seqs[1] ELSE f[n] \o seqs[n + 1]
  <2> HIDE DEF v
  <2> DEFINE g == [i \in 1..n + 1 |-> IF i = n + 1 THEN v ELSE f[i]]
  <2>2. ASSUME NEW i \in 1..n + 1 PROVE g[i] = IF i = 1 THEN seqs[i] ELSE g[i - 1] \o seqs[i]
    <3>1. CASE i = n + 1
      BY <3>1 DEF v
    <3>2. CASE i # n + 1
      <4>1. i \in 1..n /\ (i # 1 => i - 1 \in 1..n)
        BY <3>2
      <4>2. f[i] = IF i = 1 THEN seqs[i] ELSE f[i - 1] \o seqs[i]
        BY <2>1, <4>1
      <4>3. g[i] = f[i] /\ (i # 1 => g[i - 1] = f[i - 1])
        BY <3>2, <4>1
      <4>4. QED
        BY <4>2, <4>3
    <3>3. QED
      BY <3>1, <3>2
  <2>3. Unfolds(n + 1, g)
    BY <2>2
  <2>4. \E h : Unfolds(n + 1, h)
    <3> HIDE DEF g
    <3>1. QED
      BY <2>3
  <2>5. QED
    <3> HIDE DEF Unfolds
    <3>1. QED
      BY <2>4
<1> HIDE DEF T
<1>3. Len(seqs) \in T
  BY <1>1, <1>2, Induction
<1> DEFINE f == CHOOSE f : Unfolds(Len(seqs), f)
<1>4. Unfolds(Len(seqs), f)
  BY <1>3 DEF T
<1>5. FlattenSeq(seqs) = f[Len(seqs)]
  BY DEF FlattenSeq
<1>6. QED
  BY <1>4, <1>5

\* A concatenation has the elements of both.
LEMMA ToSetConcat ==
    ASSUME NEW S, NEW a \in Seq(S), NEW b \in Seq(S)
    PROVE  /\ a \o b \in Seq(S)
           /\ ToSet(a \o b) = ToSet(a) \cup ToSet(b)
<1>1. /\ a \o b \in Seq(S) /\ Len(a \o b) = Len(a) + Len(b)
      /\ \A i \in 1..Len(a) + Len(b) :
            (a \o b)[i] = IF i <= Len(a) THEN a[i] ELSE b[i - Len(a)]
  BY ConcatProperties
<1> DEFINE c == a \o b
<1> HIDE DEF c
<1>2. ToSet(a) = {a[i] : i \in 1..Len(a)} /\ ToSet(b) = {b[i] : i \in 1..Len(b)}
      /\ ToSet(c) = {c[i] : i \in 1..Len(a) + Len(b)}
  BY <1>1 DEF ToSet, c
<1>3. ASSUME NEW i \in 1..Len(a) PROVE a[i] \in ToSet(c)
  BY <1>1, <1>2 DEF c
<1>4. ASSUME NEW i \in 1..Len(b) PROVE b[i] \in ToSet(c)
  <2>1. Len(a) + i \in 1..Len(a) + Len(b) /\ ~(Len(a) + i <= Len(a)) /\ (Len(a) + i) - Len(a) = i
    OBVIOUS
  <2>2. c[Len(a) + i] = b[i]
    BY <1>1, <2>1 DEF c
  <2>3. QED
    BY <1>2, <2>1, <2>2
<1>5. ASSUME NEW i \in 1..Len(a) + Len(b) PROVE c[i] \in ToSet(a) \cup ToSet(b)
  BY <1>1, <1>2 DEF c
<1>6. ToSet(c) = ToSet(a) \cup ToSet(b)
  BY <1>2, <1>3, <1>4, <1>5
<1>7. QED
  BY <1>1, <1>6 DEF c

\* A flattened sequence has the elements of its parts.
LEMMA FlattenFacts ==
    ASSUME NEW S, NEW seqs \in Seq(Seq(S))
    PROVE  /\ FlattenSeq(seqs) \in Seq(S)
           /\ \A x : x \in ToSet(FlattenSeq(seqs)) <=> \E k \in DOMAIN seqs : x \in ToSet(seqs[k])
<1>1. CASE Len(seqs) = 0
  <2>1. seqs = <<>> /\ FlattenSeq(seqs) = <<>>
    BY <1>1, EmptySeq DEF FlattenSeq
  <2>2. <<>> \in Seq(S) /\ DOMAIN <<>> = {} /\ ToSet(<<>>) = {}
    BY DEF ToSet
  <2>3. QED
    BY <2>1, <2>2
<1>2. CASE Len(seqs) # 0
  <2> DEFINE n == Len(seqs)
  <2>0. n \in Nat \ {0} /\ DOMAIN seqs = 1..n /\ \A i \in 1..n : seqs[i] \in Seq(S)
    BY <1>2
  <2>1. PICK f : /\ f = [i \in 1..n |-> IF i = 1 THEN seqs[i] ELSE f[i - 1] \o seqs[i]]
                 /\ FlattenSeq(seqs) = f[n]
    BY <1>2, FlattenUnfolds
  <2> HIDE DEF n
  <2> DEFINE In(i, x) == \E k \in 1..i : x \in ToSet(seqs[k])
             Good(i) == f[i] \in Seq(S) /\ \A x : x \in ToSet(f[i]) <=> In(i, x)
             T == {m \in Nat : m + 1 <= n => Good(m + 1)}
  <2>2. 0 \in T
    <3>1. f[1] = seqs[1] /\ seqs[1] \in Seq(S)
      BY <2>0, <2>1
    <3>2. \A x : x \in ToSet(seqs[1]) <=> In(1, x)
      OBVIOUS
    <3>3. Good(1)
      <4> HIDE DEF In
      <4>1. QED
        BY <3>1, <3>2
    <3> HIDE DEF Good
    <3>4. QED
      BY <3>3
  <2>3. ASSUME NEW m \in Nat, m \in T PROVE m + 1 \in T
    <3>0. ASSUME m + 2 <= n PROVE Good(m + 2)
      <4>1. Good(m + 1)
        BY <2>0, <2>3, <3>0
      <4>2. m + 2 \in 1..n /\ m + 2 # 1 /\ (m + 2) - 1 = m + 1
        BY <2>0, <3>0
      <4>3. f[m + 2] = f[m + 1] \o seqs[m + 2] /\ seqs[m + 2] \in Seq(S)
        BY <2>0, <2>1, <4>2
      <4>4. f[m + 2] \in Seq(S) /\ ToSet(f[m + 2]) = ToSet(f[m + 1]) \cup ToSet(seqs[m + 2])
        BY <4>1, <4>3, ToSetConcat
      <4>5. ASSUME NEW x PROVE In(m + 2, x) <=> In(m + 1, x) \/ x \in ToSet(seqs[m + 2])
        <5>1. 1..m + 2 = 1..m + 1 \cup {m + 2}
          OBVIOUS
        <5>2. QED
          BY <5>1
      <4> HIDE DEF In
      <4>6. QED
        BY <4>1, <4>4, <4>5
    <3> HIDE DEF Good
    <3>1. (m + 1) + 1 = m + 2
      OBVIOUS
    <3>2. QED
      BY <3>0, <3>1
  <2>4. n - 1 \in T
    <3>1. n - 1 \in Nat
      BY <2>0
    <3> HIDE DEF T
    <3>2. QED
      BY <3>1, <2>2, <2>3, Induction
  <2>5. Good(n)
    <3> HIDE DEF Good
    <3>1. n - 1 + 1 = n /\ n <= n
      BY <2>0
    <3>2. QED
      BY <2>4, <3>1
  <2>6. QED
    BY <2>0, <2>1, <2>5
<1>3. QED
  BY <1>1, <1>2

\* A concatenation of two sequences without repetition that share nothing.
LEMMA DistinctConcat ==
    ASSUME NEW S, NEW a \in Seq(S), NEW b \in Seq(S), IsInjective(a), IsInjective(b),
           \A x : ~(x \in ToSet(a) /\ x \in ToSet(b))
    PROVE  IsInjective(a \o b)
<1>1. /\ a \o b \in Seq(S) /\ Len(a \o b) = Len(a) + Len(b)
      /\ \A i \in 1..Len(a) + Len(b) :
            (a \o b)[i] = IF i <= Len(a) THEN a[i] ELSE b[i - Len(a)]
  BY ConcatProperties
<1> DEFINE c == a \o b
<1> HIDE DEF c
<1>2. SUFFICES ASSUME NEW i \in 1..Len(a) + Len(b), NEW j \in 1..Len(a) + Len(b), c[i] = c[j]
               PROVE  i = j
  BY <1>1 DEF IsInjective, c
<1>3. \A k \in 1..Len(a) : a[k] \in ToSet(a)
  BY DEF ToSet
<1>4. \A k \in 1..Len(b) : b[k] \in ToSet(b)
  BY DEF ToSet
<1>5. \A k \in 1..Len(a) + Len(b) : c[k] = IF k <= Len(a) THEN a[k] ELSE b[k - Len(a)]
  BY <1>1 DEF c
<1>6. CASE i <= Len(a) /\ j <= Len(a)
  <2>1. i \in DOMAIN a /\ j \in DOMAIN a /\ a[i] = a[j]
    BY <1>2, <1>5, <1>6
  <2>2. QED
    BY <2>1 DEF IsInjective
<1>7. CASE i > Len(a) /\ j > Len(a)
  <2>1. i - Len(a) \in DOMAIN b /\ j - Len(a) \in DOMAIN b /\ b[i - Len(a)] = b[j - Len(a)]
    BY <1>2, <1>5, <1>7
  <2>2. i - Len(a) = j - Len(a)
    BY <2>1 DEF IsInjective
  <2>3. QED
    BY <2>2
<1>8. CASE i <= Len(a) /\ j > Len(a)
  <2>1. i \in 1..Len(a) /\ j - Len(a) \in 1..Len(b) /\ a[i] = b[j - Len(a)]
    BY <1>2, <1>5, <1>8
  <2>2. QED
    BY <1>3, <1>4, <2>1
<1>9. CASE i > Len(a) /\ j <= Len(a)
  <2>1. j \in 1..Len(a) /\ i - Len(a) \in 1..Len(b) /\ a[j] = b[i - Len(a)]
    BY <1>2, <1>5, <1>9
  <2>2. QED
    BY <1>3, <1>4, <2>1
<1>10. QED
  BY <1>6, <1>7, <1>8, <1>9

\* Parts without repetition that share nothing make a sequence without repetition.
LEMMA FlattenDistinct ==
    ASSUME NEW S, NEW seqs \in Seq(Seq(S)),
           \A k \in DOMAIN seqs : IsInjective(seqs[k]),
           \A j, k \in DOMAIN seqs : \A x :
              x \in ToSet(seqs[j]) /\ x \in ToSet(seqs[k]) => j = k
    PROVE  IsInjective(FlattenSeq(seqs))
<1>1. CASE Len(seqs) = 0
  <2>1. seqs = <<>> /\ FlattenSeq(seqs) = <<>>
    BY <1>1, EmptySeq DEF FlattenSeq
  <2>2. QED
    BY <2>1 DEF IsInjective
<1>2. CASE Len(seqs) # 0
  <2> DEFINE n == Len(seqs)
  <2>0. n \in Nat \ {0} /\ DOMAIN seqs = 1..n /\ \A i \in 1..n : seqs[i] \in Seq(S) /\ IsInjective(seqs[i])
    BY <1>2
  <2>1. PICK f : /\ f = [i \in 1..n |-> IF i = 1 THEN seqs[i] ELSE f[i - 1] \o seqs[i]]
                 /\ FlattenSeq(seqs) = f[n]
    BY <1>2, FlattenUnfolds
  <2> HIDE DEF n
  <2> DEFINE In(i, x) == \E k \in 1..i : x \in ToSet(seqs[k])
             Good(i) == /\ f[i] \in Seq(S)
                        /\ \A x : x \in ToSet(f[i]) <=> In(i, x)
                        /\ IsInjective(f[i])
             T == {m \in Nat : m + 1 <= n => Good(m + 1)}
  <2>2. 0 \in T
    <3>1. f[1] = seqs[1] /\ 1 \in 1..n
      BY <2>0, <2>1
    <3>2. \A x : x \in ToSet(seqs[1]) <=> In(1, x)
      OBVIOUS
    <3>3. Good(1)
      <4> HIDE DEF In
      <4>1. QED
        BY <2>0, <3>1, <3>2
    <3> HIDE DEF Good
    <3>4. QED
      BY <3>3
  <2>3. ASSUME NEW m \in Nat, m \in T PROVE m + 1 \in T
    <3>0. ASSUME m + 2 <= n PROVE Good(m + 2)
      <4>1. Good(m + 1)
        BY <2>0, <2>3, <3>0
      <4>2. m + 2 \in 1..n /\ m + 2 # 1 /\ (m + 2) - 1 = m + 1
        BY <2>0, <3>0
      <4>3. f[m + 2] = f[m + 1] \o seqs[m + 2] /\ seqs[m + 2] \in Seq(S) /\ IsInjective(seqs[m + 2])
        BY <2>0, <2>1, <4>2
      <4>4. f[m + 2] \in Seq(S) /\ ToSet(f[m + 2]) = ToSet(f[m + 1]) \cup ToSet(seqs[m + 2])
        BY <4>1, <4>3, ToSetConcat
      <4>5. ASSUME NEW x PROVE In(m + 2, x) <=> In(m + 1, x) \/ x \in ToSet(seqs[m + 2])
        <5>1. 1..m + 2 = 1..m + 1 \cup {m + 2}
          OBVIOUS
        <5>2. QED
          BY <5>1
      <4>6. ASSUME NEW x, x \in ToSet(f[m + 1]), x \in ToSet(seqs[m + 2]) PROVE FALSE
        <5>1. PICK k \in 1..m + 1 : x \in ToSet(seqs[k])
          BY <4>1, <4>6
        <5>2. k \in DOMAIN seqs /\ m + 2 \in DOMAIN seqs /\ k # m + 2
          BY <2>0, <4>2
        <5>3. QED
          BY <4>6, <5>1, <5>2
      <4>7. IsInjective(f[m + 2])
        BY <4>1, <4>3, <4>6, DistinctConcat
      <4> HIDE DEF In
      <4>8. QED
        BY <4>1, <4>4, <4>5, <4>7
    <3> HIDE DEF Good
    <3>1. (m + 1) + 1 = m + 2
      OBVIOUS
    <3>2. QED
      BY <3>0, <3>1
  <2>4. n - 1 \in T
    <3>1. n - 1 \in Nat
      BY <2>0
    <3> HIDE DEF T
    <3>2. QED
      BY <3>1, <2>2, <2>3, Induction
  <2>5. Good(n)
    <3> HIDE DEF Good
    <3>1. n - 1 + 1 = n /\ n <= n
      BY <2>0
    <3>2. QED
      BY <2>4, <3>1
  <2>6. QED
    BY <2>0, <2>1, <2>5
<1>3. QED
  BY <1>1, <1>2

-----------------------------------------------------------------------------
(* Flattening, element by element. *)

\* A list that is not empty is a list and its last element.
LEMMA LastApart ==
    ASSUME NEW S, NEW s \in Seq(S), Len(s) # 0
    PROVE  \E t \in Seq(S) : \E x \in S : Len(s) = Len(t) + 1 /\ s = Append(t, x)
<1> DEFINE n == Len(s) - 1
           t == [i \in 1..n |-> s[i]]
<1>1. s \in [1..n + 1 -> S] /\ n \in Nat /\ Len(s) = n + 1
  OBVIOUS
<1> HIDE DEF n
<1>2. t \in Seq(S) /\ Len(t) = n /\ \A i \in 1..n : t[i] = s[i]
  BY <1>1
<1>3. s[n + 1] \in S
  BY <1>1
<1> HIDE DEF t
<1>4. s = Append(t, s[n + 1])
  BY <1>1, <1>2, <1>3
<1>5. QED
  BY <1>1, <1>2, <1>3, <1>4

\* f has what flattening the first lists of a gives, term by term.
Terms(f, a, n) == \A i \in 1..n : f[i] = IF i = 1 THEN a[i] ELSE f[i - 1] \o a[i]

\* Two solutions of the recursion agree as far as both go.
LEMMA UnfoldsOnce ==
    ASSUME NEW m \in Nat, NEW n \in Nat, m <= n, NEW a, NEW b, NEW f, NEW g,
           \A i \in 1..m : b[i] = a[i], Terms(f, a, m), Terms(g, b, n)
    PROVE  \A i \in 1..m : f[i] = g[i]
<1> DEFINE T == {i \in Nat : i \in 1..m => f[i] = g[i]}
<1>1. 0 \in T
  OBVIOUS
<1>2. ASSUME NEW i \in Nat, i \in T PROVE i + 1 \in T
  <2> SUFFICES ASSUME i + 1 \in 1..m PROVE f[i + 1] = g[i + 1]
    OBVIOUS
  <2>1. i + 1 \in 1..n /\ b[i + 1] = a[i + 1] /\ (i + 1) - 1 = i /\ (i + 1 = 1 <=> i = 0)
    OBVIOUS
  <2>2. f[i + 1] = IF i = 0 THEN a[i + 1] ELSE f[i] \o a[i + 1]
    BY <2>1 DEF Terms
  <2>3. g[i + 1] = IF i = 0 THEN b[i + 1] ELSE g[i] \o b[i + 1]
    BY <2>1 DEF Terms
  <2>4. i # 0 => f[i] = g[i]
    BY <1>2
  <2>5. QED
    BY <2>1, <2>2, <2>3, <2>4
<1> HIDE DEF T
<1>3. Nat \subseteq T
  BY <1>1, <1>2, Induction
<1>4. ASSUME NEW i \in 1..m PROVE f[i] = g[i]
  <2>1. i \in T
    BY <1>3
  <2>2. QED
    BY <2>1 DEF T
<1>5. QED
  BY <1>4

\* The recursion of FlattenSeq, term by term.
LEMMA FlattenTerms ==
    ASSUME NEW S, NEW seqs \in Seq(Seq(S)), Len(seqs) # 0
    PROVE  \E f : Terms(f, seqs, Len(seqs)) /\ FlattenSeq(seqs) = f[Len(seqs)]
<1> DEFINE n == Len(seqs)
           Step(f, i) == IF i = 1 THEN seqs[i] ELSE f[i - 1] \o seqs[i]
<1> HIDE DEF n
<1>1. PICK f : f = [i \in 1..n |-> Step(f, i)] /\ FlattenSeq(seqs) = f[n]
  BY FlattenUnfolds DEF n
<1> HIDE DEF Step
<1>2. \A i \in 1..n : f[i] = Step(f, i)
  BY <1>1
<1>3. QED
  BY <1>1, <1>2 DEF n, Step, Terms

\* Flattening a longer list appends its last element's.
LEMMA FlattenAppend ==
    ASSUME NEW S, NEW seqs \in Seq(Seq(S)), NEW s \in Seq(S)
    PROVE  FlattenSeq(Append(seqs, s)) = FlattenSeq(seqs) \o s
<1> DEFINE n == Len(seqs)
           more == Append(seqs, s)
<1>1. /\ n \in Nat /\ more \in Seq(Seq(S)) /\ Len(more) = n + 1 /\ more[n + 1] = s
      /\ \A i \in 1..n : more[i] = seqs[i]
  OBVIOUS
<1>2. n = 0 => seqs = <<>>
  OBVIOUS
<1> HIDE DEF more
<1>3. PICK g : Terms(g, more, n + 1) /\ FlattenSeq(more) = g[n + 1]
  <2>1. Len(more) # 0
    BY <1>1
  <2>2. \E g : Terms(g, more, Len(more)) /\ FlattenSeq(more) = g[Len(more)]
    BY <1>1, <2>1, FlattenTerms
  <2>3. QED
    BY <1>1, <2>2
<1>4. CASE n = 0
  <2>1. seqs = <<>> /\ FlattenSeq(seqs) = <<>>
    BY <1>2, <1>4 DEF FlattenSeq
  <2>2. g[n + 1] = s
    BY <1>1, <1>3, <1>4 DEF Terms
  <2>3. QED
    BY <1>3, <2>1, <2>2, ConcatEmptySeq DEF more
<1>5. CASE n # 0
  <2>1. PICK f : Terms(f, seqs, n) /\ FlattenSeq(seqs) = f[n]
    BY <1>5, FlattenTerms
  <2>2. \A i \in 1..n : f[i] = g[i]
    <3> HIDE DEF n
    <3>1. n <= n + 1 /\ n + 1 \in Nat
      BY <1>1
    <3>2. n \in Nat /\ \A i \in 1..n : more[i] = seqs[i]
      BY <1>1
    <3>3. Terms(f, seqs, n) /\ Terms(g, more, n + 1)
      BY <1>3, <2>1
    <3>4. QED
      BY <3>1, <3>2, <3>3, UnfoldsOnce
  <2> HIDE DEF n
  <2>3. n + 1 \in 1..n + 1 /\ n + 1 # 1 /\ (n + 1) - 1 = n /\ n \in 1..n
    BY <1>1, <1>5
  <2>4. g[n + 1] = g[n] \o s
    BY <1>1, <1>3, <2>3 DEF Terms
  <2>5. QED
    BY <1>3, <2>1, <2>2, <2>3, <2>4 DEF more
<1>6. QED
  BY <1>4, <1>5

\* F gives lists over S for the elements of I.
Gives(F, I, S) == F \in [I -> Seq(S)]

\* The lists a function gives for the elements of a list, one after the other.
Flat(F, s) == FlattenSeq([k \in DOMAIN s |-> F[s[k]]])

LEMMA FlatType ==
    ASSUME NEW I, NEW S, NEW F, Gives(F, I, S), NEW s \in Seq(I)
    PROVE  /\ Flat(F, s) \in Seq(S)
           /\ \A y : y \in ToSet(Flat(F, s)) <=> \E k \in DOMAIN s : y \in ToSet(F[s[k]])
<1> DEFINE a == [k \in DOMAIN s |-> F[s[k]]]
<1>0. F \in [I -> Seq(S)]
  BY DEF Gives
<1>1. a \in Seq(Seq(S)) /\ DOMAIN a = DOMAIN s /\ \A k \in DOMAIN s : a[k] = F[s[k]]
  <2>1. DOMAIN s = 1..Len(s) /\ Len(s) \in Nat /\ \A k \in 1..Len(s) : s[k] \in I
    OBVIOUS
  <2>2. \A k \in 1..Len(s) : F[s[k]] \in Seq(S)
    BY <1>0, <2>1
  <2>3. QED
    BY <2>1, <2>2
<1> HIDE DEF a
<1>2. /\ FlattenSeq(a) \in Seq(S)
      /\ \A x : x \in ToSet(FlattenSeq(a)) <=> \E k \in DOMAIN a : x \in ToSet(a[k])
  BY <1>1, FlattenFacts
<1>3. Flat(F, s) = FlattenSeq(a)
  BY DEF Flat, a
<1>4. QED
  BY <1>1, <1>2, <1>3

LEMMA FlatAppend ==
    ASSUME NEW I, NEW S, NEW F, Gives(F, I, S), NEW s \in Seq(I), NEW x \in I
    PROVE  Flat(F, Append(s, x)) = Flat(F, s) \o F[x]
<1> DEFINE more == Append(s, x)
           a == [k \in DOMAIN s |-> F[s[k]]]
           b == [k \in DOMAIN more |-> F[more[k]]]
           n == Len(s)
<1>0. F \in [I -> Seq(S)]
  BY DEF Gives
<1>1. n \in Nat /\ DOMAIN s = 1..n /\ more \in Seq(I) /\ Len(more) = n + 1 /\ DOMAIN more = 1..n + 1
      /\ more[n + 1] = x /\ \A k \in 1..n : more[k] = s[k] /\ s[k] \in I
  OBVIOUS
<1> HIDE DEF more, n
<1>2. a \in Seq(Seq(S)) /\ Len(a) = n /\ \A k \in 1..n : a[k] = F[s[k]]
  BY <1>0, <1>1
<1>3. b \in Seq(Seq(S)) /\ Len(b) = n + 1 /\ \A k \in 1..n + 1 : b[k] = F[more[k]]
  BY <1>0, <1>1
<1> HIDE DEF a, b
<1>4. b = Append(a, F[x])
  <2>0. F[x] \in Seq(S)
    BY <1>0
  <2>1. Append(a, F[x]) \in Seq(Seq(S)) /\ Len(Append(a, F[x])) = n + 1
        /\ \A k \in 1..n + 1 : Append(a, F[x])[k] = IF k = n + 1 THEN F[x] ELSE a[k]
    BY <1>1, <1>2, <2>0
  <2>2. \A k \in 1..n + 1 : b[k] = Append(a, F[x])[k]
    <3>1. ASSUME NEW k \in 1..n + 1 PROVE b[k] = Append(a, F[x])[k]
      <4>1. CASE k = n + 1
        BY <1>1, <1>3, <2>1, <4>1
      <4>2. CASE k # n + 1
        <5>1. k \in 1..n
          BY <1>1, <4>2
        <5>2. QED
          <6>1. Append(a, F[x])[k] = a[k]
            BY <2>1, <4>2
          <6>2. more[k] = s[k] /\ b[k] = F[more[k]] /\ a[k] = F[s[k]]
            BY <1>1, <1>2, <1>3, <5>1
          <6>3. QED
            BY <6>1, <6>2
      <4>3. QED
        BY <4>1, <4>2
    <3>2. QED
      BY <3>1
  <2>3. QED
    BY <1>1, <1>3, <2>1, <2>2, SeqEqual
<1>5. FlattenSeq(b) = FlattenSeq(a) \o F[x]
  BY <1>0, <1>2, <1>4, FlattenAppend
<1>6. QED
  BY <1>5 DEF Flat, a, b, more

LEMMA FlatNone == ASSUME NEW F PROVE Flat(F, <<>>) = <<>>
<1>1. [k \in DOMAIN <<>> |-> F[<<>>[k]]] = <<>>
  OBVIOUS
<1>2. Len(<<>>) = 0
  OBVIOUS
<1>3. QED
  BY <1>1, <1>2 DEF Flat, FlattenSeq

LEMMA FlatOne ==
    ASSUME NEW I, NEW S, NEW F, Gives(F, I, S), NEW x \in I
    PROVE  Flat(F, <<x>>) = F[x]
<1>1. <<x>> = Append(<<>>, x) /\ <<>> \in Seq(I) /\ F[x] \in Seq(S)
  BY DEF Gives
<1>2. Flat(F, Append(<<>>, x)) = Flat(F, <<>>) \o F[x]
  BY <1>1, FlatAppend
<1>3. QED
  BY <1>1, <1>2, FlatNone, ConcatEmptySeq

LEMMA FlatConcat ==
    ASSUME NEW I, NEW S, NEW F, Gives(F, I, S), NEW a \in Seq(I), NEW b \in Seq(I)
    PROVE  Flat(F, a \o b) = Flat(F, a) \o Flat(F, b)
<1>0. \A u, v, w \in Seq(S) : (u \o v) \o w = u \o (v \o w)
  BY ConcatAssociative
<1> DEFINE Splits(c) == Flat(F, a \o c) = Flat(F, a) \o Flat(F, c)
           T == {n \in Nat : \A c \in Seq(I) : Len(c) = n => Splits(c)}
<1>1. 0 \in T
  <2>1. \A c \in Seq(I) : Len(c) = 0 => c = <<>>
    OBVIOUS
  <2>2. Splits(<<>>)
    <3>1. a \o <<>> = a /\ Flat(F, <<>>) = <<>> /\ Flat(F, a) \in Seq(S)
      BY FlatNone, FlatType, ConcatEmptySeq
    <3>2. Flat(F, a) \o <<>> = Flat(F, a)
      BY <3>1, ConcatEmptySeq
    <3>3. QED
      BY <3>1, <3>2
  <2> HIDE DEF Splits
  <2>3. QED
    BY <2>1, <2>2
<1>2. ASSUME NEW n \in Nat, n \in T PROVE n + 1 \in T
  <2>1. ASSUME NEW c \in Seq(I), Len(c) = n + 1 PROVE Splits(c)
    <3>1. PICK t \in Seq(I) : \E x \in I : Len(c) = Len(t) + 1 /\ c = Append(t, x)
      <4>1. Len(c) # 0
        BY <2>1
      <4>2. QED
        BY <4>1, LastApart
    <3>2. PICK x \in I : c = Append(t, x)
      BY <3>1
    <3>0. Splits(t)
      <4>1. Len(t) = n
        BY <2>1, <3>1
      <4> HIDE DEF Splits
      <4>2. QED
        BY <1>2, <4>1
    <3>3. a \o c = Append(a \o t, x) /\ a \o t \in Seq(I)
      BY <3>2
    <3>4. Flat(F, a \o c) = Flat(F, a \o t) \o F[x]
      <4> DEFINE u == a \o t
      <4>1. u \in Seq(I)
        BY <3>3
      <4> HIDE DEF u
      <4>2. Flat(F, Append(u, x)) = Flat(F, u) \o F[x]
        BY <4>1, FlatAppend
      <4>3. QED
        BY <3>3, <4>2 DEF u
    <3>6. Flat(F, c) = Flat(F, t) \o F[x]
      BY <3>2, FlatAppend
    <3>5. Flat(F, a) \in Seq(S) /\ Flat(F, t) \in Seq(S) /\ F[x] \in Seq(S)
      BY FlatType DEF Gives
    <3>7. (Flat(F, a) \o Flat(F, t)) \o F[x] = Flat(F, a) \o (Flat(F, t) \o F[x])
      BY <1>0, <3>5
    <3>8. QED
      BY <3>0, <3>4, <3>6, <3>7
  <2> HIDE DEF Splits
  <2>2. QED
    BY <2>1
<1> HIDE DEF T
<1>3. Len(b) \in T
  BY <1>1, <1>2, Induction
<1>4. QED
  BY <1>3 DEF T

\* H gives for an element what G gives for the elements F gives for it.
Composes(H, G, F) == \A x \in DOMAIN F : Flat(G, F[x]) = H[x]

\* Flattening what was flattened.
LEMMA FlatThrough ==
    ASSUME NEW I, NEW J, NEW S, NEW F, Gives(F, I, J), NEW G, Gives(G, J, S),
           NEW H, Gives(H, I, S), Composes(H, G, F), NEW s \in Seq(I)
    PROVE  Flat(G, Flat(F, s)) = Flat(H, s)
<1>0. \A u, v \in Seq(J) : Flat(G, u \o v) = Flat(G, u) \o Flat(G, v)
  BY FlatConcat
<1> DEFINE Same(c) == Flat(G, Flat(F, c)) = Flat(H, c)
           T == {n \in Nat : \A c \in Seq(I) : Len(c) = n => Same(c)}
<1>1. 0 \in T
  <2>1. \A c \in Seq(I) : Len(c) = 0 => c = <<>>
    OBVIOUS
  <2>2. Same(<<>>)
    BY FlatNone
  <2> HIDE DEF Same
  <2>3. QED
    BY <2>1, <2>2
<1>2. ASSUME NEW n \in Nat, n \in T PROVE n + 1 \in T
  <2>1. ASSUME NEW c \in Seq(I), Len(c) = n + 1 PROVE Same(c)
    <3>1. PICK t \in Seq(I) : \E x \in I : Len(c) = Len(t) + 1 /\ c = Append(t, x)
      <4>1. Len(c) # 0
        BY <2>1
      <4>2. QED
        BY <4>1, LastApart
    <3>2. PICK x \in I : c = Append(t, x)
      BY <3>1
    <3>0. Same(t)
      <4>1. Len(t) = n
        BY <2>1, <3>1
      <4> HIDE DEF Same
      <4>2. QED
        BY <1>2, <4>1
    <3>3. Flat(F, c) = Flat(F, t) \o F[x] /\ Flat(H, c) = Flat(H, t) \o H[x]
      BY <3>2, FlatAppend
    <3>4. Flat(F, t) \in Seq(J) /\ F[x] \in Seq(J)
      BY FlatType DEF Gives
    <3>5. Flat(G, Flat(F, t) \o F[x]) = Flat(G, Flat(F, t)) \o Flat(G, F[x])
      BY <1>0, <3>4
    <3>6. Flat(G, F[x]) = H[x]
      BY DEF Composes, Gives
    <3>7. QED
      BY <3>0, <3>3, <3>5, <3>6
  <2> HIDE DEF Same
  <2>2. QED
    BY <2>1
<1> HIDE DEF T
<1>3. Len(s) \in T
  <2>1. Len(s) \in Nat
    OBVIOUS
  <2>2. QED
    BY <1>1, <1>2, <2>1, Induction
<1>4. QED
  BY <1>3 DEF T
=============================================================================
