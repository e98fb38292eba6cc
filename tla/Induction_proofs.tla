-------------------------- MODULE Induction_proofs --------------------------
(***************************************************************************)
(* What the proofs about data rest on: every set of numbers has a least    *)
(* one, induction over numbers, stated of a set of them, that a fold is    *)
(* what its loop computes, and what sequences put behind one another are.  *)
(***************************************************************************)
EXTENDS Integers, Sequences, SequencesExt, WellFoundedInduction, SequenceTheorems, TLAPS

-----------------------------------------------------------------------------

LEMMA NatWellFounded == IsWellFoundedOn({p \in Nat \X Nat : p[1] < p[2]}, Nat)
<1>1. {p \in Nat \X Nat : p[1] < p[2]} = OpToRel(<, Nat)
  BY DEF OpToRel
<1> QED
  BY <1>1, NatLessThanWellFounded

\* Every set of numbers has a least one, which is what induction over data comes to.
LEMMA LeastNumber ==
  ASSUME NEW T \in SUBSET Nat, T # {}
  PROVE  \E x \in T : \A y \in T : x <= y
<1> DEFINE R == {p \in Nat \X Nat : p[1] < p[2]}
<1>1. \E x \in T : \A y \in T : <<y, x>> \notin R
  <2> HIDE DEF R
  <2>1. IsWellFoundedOn(R, Nat) BY NatWellFounded DEF R
  <2> QED BY <2>1, WFMin
<1>2. PICK x \in T : \A y \in T : <<y, x>> \notin R
  BY <1>1
<1>3. ASSUME NEW y \in T PROVE x <= y
  <2>1. <<y, x>> \notin R /\ x \in Nat /\ y \in Nat
    BY <1>2
  <2>2. <<y, x>> \in Nat \X Nat /\ <<y, x>>[1] = y /\ <<y, x>>[2] = x
    BY <2>1
  <2> QED
    BY <2>1, <2>2
<1> QED
  BY <1>3

\* Induction: a set of numbers up to n that has 0, and with each number the next, has
\* them all.
LEMMA Induction ==
  ASSUME NEW n \in Nat, NEW T \in SUBSET Nat, 0 \in T,
         \A k \in 0 .. n - 1 : k \in T => k + 1 \in T
  PROVE  0..n \subseteq T
<1> DEFINE Rest == {k \in 0..n : k \notin T}
<1> SUFFICES ASSUME Rest # {} PROVE FALSE
  OBVIOUS
<1>1. Rest \in SUBSET Nat
  OBVIOUS
<1> HIDE DEF Rest
<1>2. PICK k \in Rest : \A m \in Rest : k <= m
  BY <1>1, LeastNumber
<1>3. k \in 0..n /\ k \notin T
  BY DEF Rest
<1>4. k # 0
  BY <1>3
<1>5. k - 1 \in 0 .. n - 1 /\ k - 1 \notin Rest
  BY <1>2, <1>3, <1>4
<1>6. k - 1 \in T
  BY <1>5 DEF Rest
<1> QED
  BY <1>3, <1>5, <1>6


\* The greatest element is what FoldLeft takes last.
LEMMA GreatestIsMax ==
  ASSUME NEW s, NEW x \in s, s \subseteq Int, \A y \in s : x >= y
  PROVE  Max(s) = x
<1> DEFINE P(m) == m \in s /\ \A y \in s : m >= y
<1>1. P(x)
  OBVIOUS
<1>2. \A m : P(m) => m = x
  OBVIOUS
<1>3. Max(s) = CHOOSE m \in s : \A y \in s : m >= y
  BY DEF Max
<1> QED
  BY <1>1, <1>2, <1>3

LEMMA MaxExists ==
  ASSUME NEW k \in Nat, NEW s \in SUBSET (1..k), s # {}
  PROVE  Max(s) \in s /\ \A y \in s : Max(s) >= y
<1> DEFINE Bounds == {m \in Nat : \A y \in s : m >= y}
<1>1. k \in Bounds /\ Bounds \in SUBSET Nat
  OBVIOUS
<1> HIDE DEF Bounds
<1>2. PICK m \in Bounds : \A b \in Bounds : m <= b
  BY <1>1, LeastNumber
<1>3. m \in Nat /\ \A y \in s : m >= y
  BY DEF Bounds
<1>4. PICK y \in s : y \in 1..k
  OBVIOUS
<1>5. m - 1 \in Nat /\ m - 1 \notin Bounds
  BY <1>2, <1>3, <1>4
<1>6. PICK z \in s : ~(m - 1 >= z)
  BY <1>5 DEF Bounds
<1>7. m = z
  BY <1>3, <1>6
<1>8. s \subseteq Int
  OBVIOUS
<1> QED
  BY <1>3, <1>6, <1>7, <1>8, GreatestIsMax

\* A fold over the numbers up to n is there, for every function that makes one step.
FoldsUpTo(f, k, base, g) ==
  \A s \in SUBSET (1..k) : f[s] = IF s = {} THEN base ELSE g[<<f[s \ {Max(s)}], Max(s)>>]

LEMMA FoldIsThere ==
  ASSUME NEW n \in Nat, NEW V, NEW base \in V, NEW g \in [V \X (1..n) -> V]
  PROVE  \E f \in [SUBSET (1..n) -> V] : FoldsUpTo(f, n, base, g)
<1> DEFINE T == {k \in 0..n : \E f \in [SUBSET (1..k) -> V] : FoldsUpTo(f, k, base, g)}
<1>1. 0 \in T
  <2> DEFINE f == [s \in SUBSET (1..0) |-> base]
  <2>1. f \in [SUBSET (1..0) -> V]
    OBVIOUS
  <2>2. \A s \in SUBSET (1..0) : s = {}
    OBVIOUS
  <2>3. FoldsUpTo(f, 0, base, g)
    BY <2>2 DEF FoldsUpTo
  <2> QED
    BY <2>1, <2>3
<1>2. ASSUME NEW k \in 0 .. n - 1, k \in T
      PROVE  k + 1 \in T
  <2>1. PICK f \in [SUBSET (1..k) -> V] : FoldsUpTo(f, k, base, g)
    BY <1>2
  <2> DEFINE h == [s \in SUBSET (1..k + 1) |->
                     IF k + 1 \in s THEN g[<<f[s \ {k + 1}], k + 1>>] ELSE f[s]]
  <2>2. ASSUME NEW s \in SUBSET (1..k + 1)
        PROVE  /\ k + 1 \in s => s \ {k + 1} \in SUBSET (1..k)
               /\ k + 1 \notin s => s \in SUBSET (1..k)
    OBVIOUS
  <2>3. h \in [SUBSET (1..k + 1) -> V]
    <3> SUFFICES ASSUME NEW s \in SUBSET (1..k + 1)
                 PROVE  (IF k + 1 \in s THEN g[<<f[s \ {k + 1}], k + 1>>] ELSE f[s]) \in V
      OBVIOUS
    <3>1. CASE k + 1 \in s
      <4>1. f[s \ {k + 1}] \in V /\ k + 1 \in 1..n
        BY <2>2, <3>1
      <4> QED
        BY <3>1, <4>1
    <3>2. CASE k + 1 \notin s
      BY <2>2, <3>2
    <3> QED
      BY <3>1, <3>2
  <2>4. ASSUME NEW s \in SUBSET (1..k + 1)
        PROVE  h[s] = IF s = {} THEN base ELSE g[<<h[s \ {Max(s)}], Max(s)>>]
    <3>1. CASE k + 1 \in s
      <4>1. Max(s) = k + 1
        <5>1. s \subseteq Int /\ \A y \in s : k + 1 >= y
          OBVIOUS
        <5> QED
          BY <3>1, <5>1, GreatestIsMax
      <4>2. s \ {k + 1} \in SUBSET (1..k + 1) /\ k + 1 \notin s \ {k + 1}
        OBVIOUS
      <4>3. h[s \ {k + 1}] = f[s \ {k + 1}]
        BY <4>2
      <4>4. h[s] = g[<<f[s \ {k + 1}], k + 1>>] /\ s # {}
        BY <3>1
      <4> HIDE DEF h
      <4> QED
        BY <4>1, <4>3, <4>4
    <3>2. CASE k + 1 \notin s
      <4>1. s \in SUBSET (1..k) /\ s \ {Max(s)} \in SUBSET (1..k) /\ s \ {Max(s)} \in SUBSET (1..k + 1)
            /\ k + 1 \notin s \ {Max(s)}
        BY <2>2, <3>2
      <4>2. h[s] = f[s] /\ h[s \ {Max(s)}] = f[s \ {Max(s)}]
        BY <3>2, <4>1
      <4>3. f[s] = IF s = {} THEN base ELSE g[<<f[s \ {Max(s)}], Max(s)>>]
        BY <2>1, <4>1 DEF FoldsUpTo
      <4> HIDE DEF h
      <4> QED
        BY <4>2, <4>3
    <3> QED
      BY <3>1, <3>2
  <2>5. FoldsUpTo(h, k + 1, base, g)
    <3> HIDE DEF h
    <3> QED
      BY <2>4 DEF FoldsUpTo
  <2>6. k + 1 \in 0..n
    OBVIOUS
  <2> HIDE DEF h
  <2> QED
    BY <2>3, <2>5, <2>6
<1>3. T \in SUBSET Nat
  OBVIOUS
<1>4. n \in T
  <2> HIDE DEF T
  <2> QED
    BY <1>1, <1>2, <1>3, Induction
<1> QED
  BY <1>4

\* One step of a fold.
LEMMA LastOfPrefix ==
  ASSUME NEW k \in Nat
  PROVE  /\ 1 .. k + 1 # {} /\ Max(1 .. k + 1) = k + 1
         /\ (1 .. k + 1) \ {k + 1} = 1..k
<1>1. k + 1 \in 1 .. k + 1 /\ 1 .. k + 1 \subseteq Int /\ \A y \in 1 .. k + 1 : k + 1 >= y
  OBVIOUS
<1>2. Max(1 .. k + 1) = k + 1
  BY <1>1, GreatestIsMax
<1> QED
  BY <1>1, <1>2

-----------------------------------------------------------------------------
(* Sequences *)

\* A sequence of its elements is one of whatever has them.
LEMMA OfItsElements ==
  ASSUME NEW S, NEW s, s \in Seq(ToSet(s)), ToSet(s) \subseteq S
  PROVE  s \in Seq(S)
<1>1. Len(s) \in Nat /\ DOMAIN s = 1..Len(s) /\ \A i \in 1..Len(s) : s[i] \in S
  BY LenProperties
<1> QED
  BY <1>1

\* A function of the first n numbers is a sequence.
LEMMA IsSequence ==
  ASSUME NEW n \in Nat, NEW S, NEW s \in [1..n -> S]
  PROVE  s \in Seq(S) /\ Len(s) = n
  OBVIOUS

\* The first elements of what is put behind a sequence.
LEMMA OneMore ==
  ASSUME NEW S, NEW d \in Seq(S), NEW s \in Seq(S), NEW k \in 0 .. Len(s) - 1
  PROVE  d \o SubSeq(s, 1, k + 1) = Append(d \o SubSeq(s, 1, k), s[k + 1])
<1>0. Len(s) \in Nat
  BY LenProperties
<1>1. k \in Nat /\ k + 1 \in 1..Len(s) /\ 1 \in 1..Len(s) /\ k + 1 - 1 = k
  BY <1>0
<1>2. SubSeq(s, 1, k + 1) = SubSeq(s, 1, k) \o <<s[k + 1]>>
  <2>1. k + 1 \in 1..Len(s) /\ 1 \in 1..Len(s)
    BY <1>1
  <2>2. SubSeq(s, 1, k + 1) = SubSeq(s, 1, k + 1 - 1) \o <<s[k + 1]>>
    BY <2>1, SubSeqRecursiveSecond
  <2> QED
    BY <1>1, <2>2
<1>3. s[k + 1] \in S
  BY <1>1, ElementOfSeq
<1>4. SubSeq(s, 1, k) \in Seq(S)
  <2>1. \A i \in 1..k : s[i] \in S
    <3>1. \A i \in 1..k : i \in 1..Len(s)
      BY <1>0, <1>1
    <3> QED
      BY <3>1, ElementOfSeq
  <2>2. k \in Int /\ 1 \in Int
    BY <1>1
  <2> QED
    BY <2>1, <2>2, SubSeqProperties
<1>5. <<s[k + 1]>> \in Seq(S)
  BY <1>3
<1>6. (d \o SubSeq(s, 1, k)) \o <<s[k + 1]>> = d \o (SubSeq(s, 1, k) \o <<s[k + 1]>>)
  <2> DEFINE x == SubSeq(s, 1, k)
             y == <<s[k + 1]>>
  <2>1. x \in Seq(S) /\ y \in Seq(S)
    BY <1>4, <1>5
  <2> HIDE DEF x, y
  <2>2. (d \o x) \o y = d \o (x \o y)
    BY <2>1, ConcatAssociative
  <2> QED
    BY <2>2 DEF x, y
<1>7. d \o SubSeq(s, 1, k) \in Seq(S)
  BY <1>4, ConcatProperties
<1>8. Append(d \o SubSeq(s, 1, k), s[k + 1]) = (d \o SubSeq(s, 1, k)) \o <<s[k + 1]>>
  BY <1>3, <1>7, AppendIsConcat
<1> QED
  BY <1>2, <1>6, <1>8

\* The elements of longer sequences.
LEMMA ToSetAppend ==
  ASSUME NEW S, NEW s \in Seq(S), NEW x \in S
  PROVE  ToSet(Append(s, x)) = ToSet(s) \cup {x}
<1> DEFINE n == Len(s)
           t == Append(s, x)
<1>1. /\ n \in Nat /\ DOMAIN s = 1..n /\ \A i \in 1..n : t[i] = s[i]
      /\ t \in Seq(S) /\ Len(t) = n + 1 /\ t[n + 1] = x
  BY LenProperties, AppendProperties
<1>2. DOMAIN t = 1 .. n + 1
  BY <1>1, LenProperties
<1> HIDE DEF n, t
<1>3. 1 .. n + 1 = (1..n) \cup {n + 1}
  <2>1. n \in Nat
    BY <1>1
  <2> QED
    BY <2>1
<1>4. ToSet(t) = ToSet(s) \cup {x}
  BY <1>1, <1>2, <1>3 DEF ToSet
<1> QED
  BY <1>4 DEF t

LEMMA ToSetConcat ==
  ASSUME NEW S, NEW a \in Seq(S), NEW b \in Seq(S)
  PROVE  ToSet(a \o b) = ToSet(a) \cup ToSet(b)
<1> DEFINE m == Len(a)
           n == Len(b)
           ab == a \o b
<1>1. /\ m \in Nat /\ n \in Nat /\ DOMAIN a = 1..m /\ DOMAIN b = 1..n
      /\ ab \in Seq(S) /\ Len(ab) = m + n
      /\ \A i \in 1 .. m + n : ab[i] = IF i <= m THEN a[i] ELSE b[i - m]
  BY LenProperties, ConcatProperties
<1>2. DOMAIN ab = 1 .. m + n
  BY <1>1, LenProperties
<1> HIDE DEF m, n, ab
<1>3. m \in Nat /\ n \in Nat
  BY <1>1
<1>4. ASSUME NEW i \in 1 .. m + n
      PROVE  ab[i] \in {a[j] : j \in 1..m} \cup {b[j] : j \in 1..n}
  <2>1. CASE i <= m
    <3>1. i \in 1..m
      BY <1>3, <2>1
    <3> QED
      BY <1>1, <2>1, <3>1
  <2>2. CASE ~(i <= m)
    <3>1. i - m \in 1..n
      BY <1>3, <2>2
    <3> QED
      BY <1>1, <2>2, <3>1
  <2> QED
    BY <2>1, <2>2
<1>5. ASSUME NEW j \in 1..m
      PROVE  \E i \in 1 .. m + n : ab[i] = a[j]
  <2>1. j \in 1 .. m + n /\ j <= m
    BY <1>3
  <2> QED
    BY <1>1, <2>1
<1>6. ASSUME NEW j \in 1..n
      PROVE  \E i \in 1 .. m + n : ab[i] = b[j]
  <2>1. PICK i \in 1 .. m + n : i = j + m /\ i - m = j /\ ~(i <= m)
    BY <1>3
  <2> QED
    BY <1>1, <2>1
<1>7. {ab[i] : i \in 1 .. m + n} = {a[j] : j \in 1..m} \cup {b[j] : j \in 1..n}
  BY <1>4, <1>5, <1>6
<1> QED
  BY <1>1, <1>2, <1>7 DEF ToSet, ab

\* What RemoveAt leaves: the elements before i, then those after it.
LEMMA RemoveAtProperties ==
  ASSUME NEW S, NEW q \in Seq(S), NEW i \in 1..Len(q)
  PROVE  /\ RemoveAt(q, i) \in Seq(S)
         /\ Len(RemoveAt(q, i)) = Len(q) - 1
         /\ \A j \in 1..Len(q) - 1 :
              RemoveAt(q, i)[j] = IF j < i THEN q[j] ELSE q[j + 1]
<1> DEFINE left == SubSeq(q, 1, i - 1)
           right == SubSeq(q, i + 1, Len(q))
<1>1. Len(q) \in Nat /\ \A j \in 1..Len(q) : q[j] \in S
  BY LenProperties, ElementOfSeq
<1>2. /\ left \in Seq(S)
      /\ Len(left) = i - 1
      /\ \A j \in 1..i - 1 : left[j] = q[j]
  <2>1. \A j \in 1..i - 1 : q[j] \in S
    BY <1>1
  <2>2. /\ left \in Seq(S)
        /\ Len(left) = IF 1 <= i - 1 THEN i - 1 - 1 + 1 ELSE 0
        /\ \A j \in 1..i - 1 - 1 + 1 : left[j] = q[1 + j - 1]
    BY <2>1, <1>1, SubSeqProperties
  <2> QED
    BY <2>2, <1>1
<1>3. /\ right \in Seq(S)
      /\ Len(right) = Len(q) - i
      /\ \A j \in 1..Len(q) - i : right[j] = q[i + j]
  <2>1. \A j \in i + 1..Len(q) : q[j] \in S
    BY <1>1
  <2>2. /\ right \in Seq(S)
        /\ Len(right) = IF i + 1 <= Len(q) THEN Len(q) - (i + 1) + 1 ELSE 0
        /\ \A j \in 1..Len(q) - (i + 1) + 1 : right[j] = q[i + 1 + j - 1]
    BY <2>1, <1>1, SubSeqProperties
  <2> QED
    BY <2>2, <1>1
<1>4. RemoveAt(q, i) = left \o right
  BY DEF RemoveAt
<1> HIDE DEF left, right
<1>5. /\ left \o right \in Seq(S)
      /\ Len(left \o right) = Len(left) + Len(right)
      /\ \A j \in 1..Len(left) + Len(right) :
           (left \o right)[j] = IF j <= Len(left) THEN left[j] ELSE right[j - Len(left)]
  BY <1>2, <1>3, ConcatProperties
<1> QED
  BY <1>1, <1>2, <1>3, <1>4, <1>5

-----------------------------------------------------------------------------
(* Sequences put behind one another *)

\* The steps of FlattenSeq.
FlattensTo(f, ss) ==
  \A i \in 1..Len(ss) : f[i] = IF i = 1 THEN ss[i] ELSE f[i - 1] \o ss[i]

LEMMA FlattenSteps ==
  ASSUME NEW A, NEW ss \in Seq(Seq(A)), Len(ss) > 0
  PROVE  \E f \in [1..Len(ss) -> Seq(A)] : FlattensTo(f, ss) /\ FlattenSeq(ss) = f[Len(ss)]
<1> DEFINE n == Len(ss)
           Steps(f) == f = [i \in 1..n |-> IF i = 1 THEN ss[i] ELSE f[i - 1] \o ss[i]]
           Start(f, k) == \A i \in 1..k : f[i] = IF i = 1 THEN ss[i] ELSE f[i - 1] \o ss[i]
           T == {k \in 0 .. n - 1 : \E f \in [1 .. k + 1 -> Seq(A)] : Start(f, k + 1)}
<1>0. n \in Nat /\ n > 0 /\ \A i \in 1..n : ss[i] \in Seq(A)
  BY LenProperties
<1>1. FlattenSeq(ss) = (CHOOSE f : Steps(f))[n]
  BY <1>0 DEF FlattenSeq
<1> HIDE DEF n
<1>2. 0 \in T
  <2> DEFINE f == [i \in 1..1 |-> ss[1]]
  <2>0. 0 \in 0 .. n - 1 /\ 0 + 1 = 1 /\ 1 \in 1..n
    BY <1>0
  <2>1. f \in [1..1 -> Seq(A)]
    BY <1>0, <2>0
  <2>2. Start(f, 1)
    OBVIOUS
  <2> HIDE DEF f, Start
  <2>3. f \in [1 .. 0 + 1 -> Seq(A)] /\ Start(f, 0 + 1)
    BY <2>0, <2>1, <2>2
  <2> QED
    BY <2>0, <2>3
<1>3. ASSUME NEW k \in 0 .. (n - 1) - 1, k \in T
      PROVE  k + 1 \in T
  <2>0. k \in Nat /\ k + 1 \in 0 .. n - 1 /\ k + 2 \in 1..n /\ k + 1 + 1 = k + 2
    BY <1>0
  <2>1. PICK f \in [1 .. k + 1 -> Seq(A)] : Start(f, k + 1)
    BY <1>3
  <2> DEFINE h == [i \in 1 .. k + 2 |-> IF i = k + 2 THEN f[k + 1] \o ss[k + 2] ELSE f[i]]
  <2>2. f[k + 1] \in Seq(A) /\ ss[k + 2] \in Seq(A)
    BY <1>0, <2>0
  <2>3. f[k + 1] \o ss[k + 2] \in Seq(A)
    BY <2>2, ConcatProperties
  <2>4. h \in [1 .. k + 2 -> Seq(A)]
    BY <2>0, <2>3
  <2>5. ASSUME NEW i \in 1 .. k + 2
        PROVE  h[i] = IF i = 1 THEN ss[i] ELSE h[i - 1] \o ss[i]
    <3>1. CASE i = k + 2
      <4>1. i # 1 /\ i - 1 = k + 1 /\ k + 1 \in 1 .. k + 2 /\ k + 1 # k + 2
        BY <2>0, <3>1
      <4>2. h[i] = f[k + 1] \o ss[k + 2] /\ h[k + 1] = f[k + 1]
        BY <3>1, <4>1
      <4> HIDE DEF h
      <4> QED
        BY <3>1, <4>1, <4>2
    <3>2. CASE i # k + 2
      <4>1. i \in 1 .. k + 1
        BY <2>0, <3>2
      <4>2. h[i] = f[i] /\ f[i] = IF i = 1 THEN ss[i] ELSE f[i - 1] \o ss[i]
        BY <2>1, <3>2, <4>1
      <4>3. CASE i # 1
        <5>1. i - 1 \in 1 .. k + 2 /\ i - 1 # k + 2
          BY <2>0, <4>1, <4>3
        <5>2. h[i - 1] = f[i - 1]
          BY <5>1
        <5> HIDE DEF h
        <5> QED
          BY <4>2, <4>3, <5>2
      <4> HIDE DEF h
      <4> QED
        BY <4>2, <4>3
    <3> QED
      BY <3>1, <3>2
  <2> HIDE DEF h
  <2>6. Start(h, k + 2)
    BY <2>5
  <2> HIDE DEF Start
  <2> QED
    BY <2>0, <2>4, <2>6
<1>4. n - 1 \in T
  <2>1. T \in SUBSET Nat /\ n - 1 \in Nat
    BY <1>0
  <2> HIDE DEF T
  <2>2. 0 .. n - 1 \subseteq T
    BY <1>2, <1>3, <2>1, Induction
  <2> QED
    BY <2>1, <2>2
<1>5. PICK f \in [1..n -> Seq(A)] : Start(f, n)
  <2>1. PICK f \in [1 .. n - 1 + 1 -> Seq(A)] : Start(f, n - 1 + 1)
    BY <1>4
  <2>2. n - 1 + 1 = n
    BY <1>0
  <2> HIDE DEF Start
  <2> QED
    BY <2>1, <2>2
<1>6. Steps(f)
  BY <1>5
<1> DEFINE all == CHOOSE h : Steps(h)
<1>7. Steps(all)
  <2> HIDE DEF Steps
  <2> QED
    BY <1>6
<1> HIDE DEF all
<1>8. DOMAIN all = 1..n /\ Start(all, n)
  BY <1>7
<1> DEFINE U == {k \in 0 .. n - 1 : all[k + 1] = f[k + 1]}
<1>9. 0 \in U
  <2>1. 1 \in 1..n /\ 0 \in 0 .. n - 1 /\ 0 + 1 = 1
    BY <1>0
  <2>2. all[1] = ss[1] /\ f[1] = ss[1]
    BY <1>5, <1>8, <2>1
  <2> QED
    BY <2>1, <2>2
<1>10. ASSUME NEW k \in 0 .. (n - 1) - 1, k \in U
       PROVE  k + 1 \in U
  <2>1. /\ k + 2 \in 1..n /\ k + 2 # 1 /\ k + 2 - 1 = k + 1
        /\ k + 1 \in 0 .. n - 1 /\ k + 1 + 1 = k + 2
    BY <1>0
  <2>2. PICK i \in 1..n : i = k + 2 /\ i # 1 /\ i - 1 = k + 1
    BY <2>1
  <2>3. all[i] = all[i - 1] \o ss[i] /\ f[i] = f[i - 1] \o ss[i]
    BY <1>5, <1>8, <2>2
  <2>4. all[i - 1] = f[i - 1]
    BY <1>10, <2>2
  <2> QED
    BY <2>1, <2>2, <2>3, <2>4
<1>11. n - 1 \in U
  <2>1. U \in SUBSET Nat /\ n - 1 \in Nat
    BY <1>0
  <2> HIDE DEF U
  <2>2. 0 .. n - 1 \subseteq U
    BY <1>9, <1>10, <2>1, Induction
  <2> QED
    BY <2>1, <2>2
<1>12. all[n] = f[n]
  <2>1. n - 1 + 1 = n
    BY <1>0
  <2> QED
    BY <1>11, <2>1
<1>13. FlattenSeq(ss) = f[n]
  BY <1>1, <1>12 DEF all
<1> QED
  BY <1>5, <1>13 DEF FlattensTo, n

\* What FlattenSeq makes is a sequence, to which a last one is added behind the rest.
LEMMA FlattenTyped ==
  ASSUME NEW A, NEW ss \in Seq(Seq(A))
  PROVE  FlattenSeq(ss) \in Seq(A)
<1>0. Len(ss) \in Nat
  BY LenProperties
<1>1. CASE Len(ss) = 0
  <2>1. ss = <<>> /\ <<>> \in Seq(A)
    BY <1>1, EmptySeq
  <2> QED
    BY <1>1, <2>1 DEF FlattenSeq
<1>2. CASE Len(ss) > 0
  <2>1. PICK f \in [1..Len(ss) -> Seq(A)] : FlattensTo(f, ss) /\ FlattenSeq(ss) = f[Len(ss)]
    BY <1>2, FlattenSteps
  <2>2. Len(ss) \in 1..Len(ss)
    BY <1>0, <1>2
  <2> QED
    BY <2>1, <2>2
<1> QED
  BY <1>0, <1>1, <1>2

LEMMA FlattenAppend ==
  ASSUME NEW A, NEW ss \in Seq(Seq(A)), NEW s \in Seq(A)
  PROVE  FlattenSeq(Append(ss, s)) = FlattenSeq(ss) \o s
<1> DEFINE n == Len(ss)
           tt == Append(ss, s)
<1>0. /\ n \in Nat /\ tt \in Seq(Seq(A)) /\ Len(tt) = n + 1 /\ tt[n + 1] = s
      /\ \A i \in 1..n : tt[i] = ss[i]
  BY LenProperties, AppendProperties
<1> HIDE DEF tt, n
<1>1. PICK f \in [1 .. n + 1 -> Seq(A)] : FlattensTo(f, tt) /\ FlattenSeq(tt) = f[n + 1]
  <2>1. n + 1 > 0
    BY <1>0
  <2>2. tt \in Seq(Seq(A)) /\ Len(tt) = n + 1
    BY <1>0
  <2>3. Len(tt) > 0
    BY <2>1, <2>2
  <2>4. \E f \in [1..Len(tt) -> Seq(A)] : FlattensTo(f, tt) /\ FlattenSeq(tt) = f[Len(tt)]
    BY <2>2, <2>3, FlattenSteps
  <2> QED
    BY <2>2, <2>4
<1>2. ASSUME NEW i \in 1 .. n + 1
      PROVE  f[i] = IF i = 1 THEN tt[i] ELSE f[i - 1] \o tt[i]
  BY <1>0, <1>1 DEF FlattensTo
<1>3. CASE n = 0
  <2>1. ss = <<>>
    BY <1>3, EmptySeq DEF n
  <2>2. FlattenSeq(ss) = <<>>
    BY <2>1 DEF FlattenSeq
  <2>3. f[1] = s
    BY <1>0, <1>2, <1>3
  <2>4. <<>> \o s = s
    BY ConcatEmptySeq
  <2> QED
    BY <1>1, <1>3, <2>2, <2>3, <2>4 DEF tt
<1>4. CASE n > 0
  <2>1. PICK h \in [1..n -> Seq(A)] : FlattensTo(h, ss) /\ FlattenSeq(ss) = h[n]
    BY <1>4, FlattenSteps DEF n
  <2>2. ASSUME NEW i \in 1..n
        PROVE  h[i] = IF i = 1 THEN ss[i] ELSE h[i - 1] \o ss[i]
    BY <2>1 DEF FlattensTo, n
  <2> DEFINE U == {k \in 0 .. n - 1 : f[k + 1] = h[k + 1]}
  <2>3. 0 \in U
    <3>1. 1 \in 1..n /\ 1 \in 1 .. n + 1 /\ 0 \in 0 .. n - 1 /\ 0 + 1 = 1
      BY <1>0, <1>4
    <3>2. f[1] = tt[1] /\ h[1] = ss[1] /\ tt[1] = ss[1]
      BY <1>0, <1>2, <2>2, <3>1
    <3> QED
      BY <3>1, <3>2
  <2>4. ASSUME NEW k \in 0 .. (n - 1) - 1, k \in U
        PROVE  k + 1 \in U
    <3>0. n \in Nat
      BY <1>0
    <3>1. /\ k + 2 \in 1..n /\ k + 2 \in 1 .. n + 1 /\ k + 2 # 1 /\ k + 2 - 1 = k + 1
          /\ k + 1 \in 0 .. n - 1 /\ k + 1 + 1 = k + 2
      BY <3>0, <1>4
    <3>2. PICK i \in 1..n : i = k + 2 /\ i \in 1 .. n + 1 /\ i # 1 /\ i - 1 = k + 1
      BY <3>1
    <3>3. f[i] = f[i - 1] \o tt[i] /\ h[i] = h[i - 1] \o ss[i]
      BY <1>2, <2>2, <3>2
    <3>4. tt[i] = ss[i] /\ f[i - 1] = h[i - 1]
      BY <1>0, <2>4, <3>2
    <3> QED
      BY <3>1, <3>2, <3>3, <3>4
  <2>5. n - 1 \in U
    <3>1. U \in SUBSET Nat /\ n - 1 \in Nat
      BY <1>0, <1>4
    <3> HIDE DEF U
    <3>2. 0 .. n - 1 \subseteq U
      BY <2>3, <2>4, <3>1, Induction
    <3> QED
      BY <3>1, <3>2
  <2>6. f[n] = h[n]
    <3>1. n - 1 + 1 = n
      BY <1>0
    <3> QED
      BY <2>5, <3>1
  <2>7. f[n + 1] = f[n] \o s
    <3>0. n \in Nat
      BY <1>0
    <3>1. PICK i \in 1 .. n + 1 : i = n + 1 /\ i # 1 /\ i - 1 = n
      BY <3>0, <1>4
    <3>2. f[i] = f[i - 1] \o tt[i] /\ tt[n + 1] = s
      BY <1>0, <1>2, <3>1
    <3> QED
      BY <3>1, <3>2
  <2> QED
    BY <1>1, <2>1, <2>6, <2>7 DEF tt
<1> QED
  BY <1>0, <1>3, <1>4

=============================================================================
