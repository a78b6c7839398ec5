----------------------------- MODULE Induction -----------------------------
(* Induction over the natural numbers and over sequences, stated of sets:    *)
(* what a loop of the code computes is proved with it.  And what the folds   *)
(* and concatenations of the community modules, which are defined by         *)
(* recursive functions, make of one more element.                            *)
EXTENDS Integers, TLAPS, WellFoundedInduction, SequencesExt, SequenceTheorems

LEMMA Smallest ==
    ASSUME NEW T, T \subseteq Nat, T # {}
    PROVE  \E m \in T : \A n \in T : m <= n
<1> DEFINE R == OpToRel(<, Nat)
<1>1. IsWellFoundedOn(R, Nat)
  BY NatLessThanWellFounded
<1>2. \A m, n \in Nat : m < n => <<m, n>> \in R
  BY DEF OpToRel
<1> HIDE DEF R
<1>3. PICK m \in T : \A n \in T : ~ (<<n, m>> \in R)
  BY <1>1, WFMin
<1>4. \A n \in T : m <= n
  <2> SUFFICES ASSUME NEW n \in T PROVE m <= n
    OBVIOUS
  <2>1. m \in Nat /\ n \in Nat
    OBVIOUS
  <2>2. ~(n < m)
    BY <1>2, <1>3, <2>1
  <2> QED
    BY <2>1, <2>2
<1> QED
  BY <1>4

\* A set that has 0 and the successors of its members has all numbers.
LEMMA AllNumbers ==
    ASSUME NEW S, 0 \in S, \A n \in Nat : n \in S => n + 1 \in S
    PROVE  Nat \subseteq S
<1> DEFINE T == Nat \ S
<1>1. SUFFICES ASSUME T # {} PROVE FALSE
  OBVIOUS
<1>2. PICK m \in T : \A n \in T : m <= n
  BY <1>1, Smallest
<1>3. m - 1 \in Nat /\ m - 1 \in S
  BY <1>2
<1> QED
  BY <1>2, <1>3
-----------------------------------------------------------------------------
(* What a fold over a sequence computes, for any step that is a function. *)

LEMMA GreatestIs ==
    ASSUME NEW n \in Nat, NEW T, T \subseteq 1..n, T # {}
    PROVE  Max(T) \in T /\ \A y \in T : y <= Max(T)
<1> DEFINE U == {u \in Nat : \A t \in T : t <= u}
<1>1. U \subseteq Nat /\ n \in U
  OBVIOUS
<1>2. PICK m \in U : \A u \in U : m <= u
  BY <1>1, Smallest
<1>3. m \in T
  <2>1. SUFFICES ASSUME m \notin T PROVE FALSE
    OBVIOUS
  <2>2. m \in Nat /\ \A t \in T : t <= m /\ t \in 1..n
    BY <1>2
  <2>3. \A t \in T : t <= m - 1 /\ t >= 1
    BY <2>1, <2>2
  <2>4. m - 1 \in Nat
    <3>1. PICK t \in T : t >= 1 /\ t <= m
      BY <2>2, <2>3
    <3>2. t \in Nat
      BY <2>2
    <3> QED
      BY <2>2, <3>1, <3>2
  <2>5. m - 1 \in U
    BY <2>3, <2>4
  <2> QED
    BY <1>2, <2>2, <2>5
<1>4. \A t \in T : m >= t /\ t \in Nat
  BY <1>2
<1>5. \E x \in T : \A y \in T : x >= y
  BY <1>3, <1>4
<1> QED
  BY <1>4, <1>5 DEF Max

LEMMA WithoutGreatest ==
    ASSUME NEW n \in Nat, NEW T, T \subseteq 1..n, T # {}
    PROVE  /\ Max(T) \in 1..n /\ T \ {Max(T)} \subseteq 1..Max(T) - 1
           /\ n \in T => Max(T) = n
<1> DEFINE m == Max(T)
<1>1. m \in T /\ m \in 1..n /\ \A y \in T : y <= m /\ y \in 1..n
  BY GreatestIs
<1> HIDE DEF m
<1>2. T \ {m} \subseteq 1..m - 1
  BY <1>1
<1>3. n \in T => m = n
  BY <1>1
<1> QED
  BY <1>1, <1>2, <1>3 DEF m

LEMMA GreatestOfAll == ASSUME NEW n \in Nat PROVE Max(1..n + 1) = n + 1 /\ (1..n + 1) \ {n + 1} = 1..n
<1>1. 1..n + 1 # {} /\ n + 1 \in 1..n + 1 /\ n + 1 \in Nat
  OBVIOUS
<1>2. Max(1..n + 1) = n + 1
  BY <1>1, WithoutGreatest
<1>3. (1..n + 1) \ {n + 1} = 1..n
  OBVIOUS
<1> QED
  BY <1>2, <1>3

\* What holds of the empty set, and of a set if it does without the greatest
\* number, holds of all.
LEMMA AllSubsets ==
    ASSUME NEW n \in Nat, NEW it, NEW A, it[{}] \in A,
           \A T \in SUBSET (1..n) : T # {} /\ it[T \ {Max(T)}] \in A => it[T] \in A
    PROVE  \A T \in SUBSET (1..n) : it[T] \in A
<1> DEFINE S == {m \in Nat : m <= n => \A T \in SUBSET (1..m) : it[T] \in A}
<1>1. 0 \in S
  <2>1. \A T \in SUBSET (1..0) : T = {}
    OBVIOUS
  <2> QED
    BY <2>1
<1>2. ASSUME NEW m \in Nat, m \in S PROVE m + 1 \in S
  <2>0. m + 1 \in Nat
    OBVIOUS
  <2> SUFFICES ASSUME m + 1 <= n PROVE \A T \in SUBSET (1..m + 1) : it[T] \in A
    BY <2>0
  <2> TAKE T \in SUBSET (1..m + 1)
  <2>1. CASE T = {}
    BY <2>1
  <2>2. CASE T # {}
    <3> DEFINE k == Max(T)
    <3>1. k \in 1..m + 1 /\ T \ {k} \subseteq 1..k - 1
      <4>1. m + 1 \in Nat
        OBVIOUS
      <4> QED
        BY <2>2, <4>1, WithoutGreatest
    <3> HIDE DEF k
    <3>2. T \ {k} \in SUBSET (1..m) /\ T \in SUBSET (1..n)
      BY <3>1
    <3>3. it[T \ {k}] \in A
      BY <1>2, <3>2
    <3> QED
      BY <2>2, <3>2, <3>3 DEF k
  <2> QED
    BY <2>1, <2>2
<1> HIDE DEF S
<1>3. n \in S
  BY <1>1, <1>2, AllNumbers
<1> QED
  BY <1>3 DEF S

\* MapThenFoldSet, as FoldLeft uses it: it[T] is the fold over the places in T.
Iterate(it, step, base, s, n) ==
    it = [T \in SUBSET (1..n) |->
             IF T = {} THEN base ELSE step[it[T \ {Max(T)}]][s[Max(T)]]]

\* A step within A for the elements of B, and where it begins.
Stepping(A, B, step, base) == step \in [A -> [B -> A]] /\ base \in A

LEMMA IterateExists ==
    ASSUME NEW A, NEW B, NEW step, NEW base, Stepping(A, B, step, base),
           NEW s \in Seq(B), NEW n \in Nat, n <= Len(s)
    PROVE  \E it : Iterate(it, step, base, s, n) /\ \A T \in SUBSET (1..n) : it[T] \in A
<1>a. step \in [A -> [B -> A]] /\ base \in A
  BY DEF Stepping
<1> DEFINE S == {m \in Nat : m <= Len(s) =>
                    \E it : Iterate(it, step, base, s, m) /\ \A T \in SUBSET (1..m) : it[T] \in A}
<1>1. 0 \in S
  <2> DEFINE it == [T \in SUBSET (1..0) |-> base]
  <2>1. \A T \in SUBSET (1..0) : T = {}
    OBVIOUS
  <2>2. Iterate(it, step, base, s, 0)
    BY <2>1 DEF Iterate
  <2>3. \A T \in SUBSET (1..0) : it[T] \in A
    BY <1>a
  <2> QED
    BY <2>2, <2>3
<1>2. ASSUME NEW m \in Nat, m \in S PROVE m + 1 \in S
  <2> SUFFICES ASSUME m + 1 <= Len(s)
               PROVE  \E it : /\ Iterate(it, step, base, s, m + 1)
                              /\ \A T \in SUBSET (1..m + 1) : it[T] \in A
    OBVIOUS
  <2>1. PICK f : Iterate(f, step, base, s, m) /\ \A T \in SUBSET (1..m) : f[T] \in A
    BY <1>2
  <2> DEFINE g == [T \in SUBSET (1..m + 1) |->
                      IF m + 1 \in T THEN step[f[T \ {m + 1}]][s[m + 1]] ELSE f[T]]
  <2>2. ASSUME NEW T \in SUBSET (1..m + 1)
        PROVE  /\ g[T] = IF T = {} THEN base ELSE step[g[T \ {Max(T)}]][s[Max(T)]]
               /\ g[T] \in A
    <3>1. CASE m + 1 \in T
      <4>1. Max(T) = m + 1 /\ T \ {m + 1} \subseteq 1..m
        <5>1. m + 1 \in Nat /\ T \subseteq 1..m + 1 /\ T # {}
          BY <3>1
        <5>2. Max(T) = m + 1
          BY <3>1, <5>1, WithoutGreatest
        <5> QED
          BY <5>2
      <4>2. g[T] = step[f[T \ {m + 1}]][s[m + 1]] /\ g[T \ {m + 1}] = f[T \ {m + 1}]
        BY <3>1, <4>1
      <4>3. f[T \ {m + 1}] \in A /\ s[m + 1] \in B
        BY <2>1, <4>1
      <4> QED
        BY <1>a, <3>1, <4>1, <4>2, <4>3
    <3>2. CASE m + 1 \notin T
      <4>1. T \in SUBSET (1..m)
        BY <3>2
      <4>2. f[T] = IF T = {} THEN base ELSE step[f[T \ {Max(T)}]][s[Max(T)]]
        BY <2>1, <4>1 DEF Iterate
      <4>3. m + 1 \notin T \ {Max(T)} /\ T \ {Max(T)} \in SUBSET (1..m + 1)
        BY <3>2, <4>1
      <4>4. g[T] = f[T] /\ g[T \ {Max(T)}] = f[T \ {Max(T)}]
        BY <3>2, <4>3
      <4> QED
        BY <2>1, <4>1, <4>2, <4>4
    <3> QED
      BY <3>1, <3>2
  <2>3. g = [T \in SUBSET (1..m + 1) |-> g[T]]
    OBVIOUS
  <2> HIDE DEF g
  <2>4. Iterate(g, step, base, s, m + 1)
    BY <2>2, <2>3 DEF Iterate
  <2> QED
    BY <2>2, <2>4
<1> HIDE DEF S
<1>3. n \in S
  BY <1>1, <1>2, AllNumbers
<1> QED
  BY <1>3 DEF S

\* The fold of a step that is a function of what there is and the next element.
FoldOf(step, base, s) == (CHOOSE it : Iterate(it, step, base, s, Len(s)))[1..Len(s)]

\* It goes by the step as long as it is within A.
Follows(it, step, base, s, n, A) ==
    /\ it[{}] = base
    /\ \A T \in SUBSET (1..n) : T # {} /\ it[T \ {Max(T)}] \in A =>
          it[T] = step[it[T \ {Max(T)}]][s[Max(T)]]

\* Whatever iterates the step within A computes the same.
LEMMA IterateIsFold ==
    ASSUME NEW A, NEW B, NEW step, NEW base, Stepping(A, B, step, base), NEW s \in Seq(B),
           NEW t \in Seq(B), Len(t) <= Len(s), \A i \in 1..Len(t) : s[i] = t[i],
           NEW it, Follows(it, step, base, s, Len(t), A)
    PROVE  it[1..Len(t)] = FoldOf(step, base, t) /\ it[1..Len(t)] \in A
<1> DEFINE n == Len(t)
           f == CHOOSE f : Iterate(f, step, base, t, n)
<1>a. /\ n \in Nat /\ \A i \in 1..n : s[i] = t[i] /\ t[i] \in B
      /\ it[{}] = base
      /\ \A T \in SUBSET (1..n) : T # {} /\ it[T \ {Max(T)}] \in A =>
            it[T] = step[it[T \ {Max(T)}]][s[Max(T)]]
  BY LenProperties, ElementOfSeq DEF Follows
<1>b. step \in [A -> [B -> A]] /\ base \in A
  BY DEF Stepping
<1>1. Iterate(f, step, base, t, n)
  <2>1. \E g : Iterate(g, step, base, t, n)
    <3>1. n \in Nat /\ n <= Len(t)
      BY <1>a
    <3> QED
      BY <3>1, IterateExists
  <2> QED
    BY <2>1
<1>2. FoldOf(step, base, t) = f[1..n]
  BY DEF FoldOf
<1> HIDE DEF f, n
<1>3. \A T \in SUBSET (1..n) :
         f[T] = IF T = {} THEN base ELSE step[f[T \ {Max(T)}]][t[Max(T)]]
  BY <1>1 DEF Iterate
<1> DEFINE same == [T \in SUBSET (1..n) |-> IF it[T] = f[T] /\ it[T] \in A THEN 1 ELSE 0]
<1>4. same[{}] = 1
  BY <1>a, <1>b, <1>3
<1>5. ASSUME NEW T \in SUBSET (1..n), T # {}, same[T \ {Max(T)}] = 1
      PROVE  same[T] = 1
  <2> DEFINE k == Max(T)
             R == T \ {k}
  <2>1. k \in 1..n /\ R \in SUBSET (1..n)
    BY <1>a, <1>5, WithoutGreatest
  <2>2. it[R] \in A => it[T] = step[it[R]][s[k]]
    BY <1>a, <1>5
  <2>3. f[T] = step[f[R]][t[k]]
    BY <1>3, <1>5
  <2>4. same[R] = 1
    BY <1>5
  <2> HIDE DEF k, R
  <2>5. it[R] = f[R] /\ it[R] \in A
    BY <2>1, <2>4
  <2>6. s[k] = t[k] /\ t[k] \in B
    BY <1>a, <2>1
  <2>7. it[T] = f[T]
    BY <2>2, <2>3, <2>5, <2>6
  <2>8. it[T] \in A
    BY <1>b, <2>2, <2>5, <2>6
  <2> QED
    BY <2>7, <2>8
<1> HIDE DEF same
<1>6. same[1..n] \in {1}
  <2>1. \A T \in SUBSET (1..n) : same[T] \in {1}
    BY <1>a, <1>4, <1>5, AllSubsets
  <2> QED
    BY <2>1
<1>7. it[1..n] = f[1..n] /\ it[1..n] \in A
  <2>1. 1..n \in SUBSET (1..n)
    OBVIOUS
  <2> QED
    BY <1>6, <2>1 DEF same
<1> QED
  BY <1>2, <1>7 DEF n

LEMMA IterateOfPart ==
    ASSUME NEW A, NEW B, NEW step, NEW base, Stepping(A, B, step, base), NEW t \in Seq(B),
           NEW m \in Nat, m <= Len(t), NEW it, Iterate(it, step, base, t, m),
           NEW s \in Seq(B), Len(s) <= m, \A i \in 1..Len(s) : t[i] = s[i]
    PROVE  it[1..Len(s)] = FoldOf(step, base, s) /\ it[1..Len(s)] \in A
<1> DEFINE n == Len(s)
<1>1. n \in Nat /\ n <= m
  BY LenProperties
<1>2. \A T \in SUBSET (1..m) :
         it[T] = IF T = {} THEN base ELSE step[it[T \ {Max(T)}]][t[Max(T)]]
  BY DEF Iterate
<1>3. \A T \in SUBSET (1..n) : T \in SUBSET (1..m)
  <2>1. 1..n \subseteq 1..m
    BY <1>1
  <2> QED
    BY <2>1
<1>4. Follows(it, step, base, t, n, A)
  BY <1>2, <1>3 DEF Follows
<1>5. Len(s) <= Len(t)
  BY <1>1, LenProperties
<1> QED
  BY <1>4, <1>5, IterateIsFold

LEMMA FoldOfNone == ASSUME NEW step, NEW base PROVE FoldOf(step, base, <<>>) = base
<1> DEFINE f == CHOOSE f : Iterate(f, step, base, <<>>, 0)
           g == [T \in SUBSET (1..0) |-> base]
<1>1. Iterate(g, step, base, <<>>, 0)
  <2>1. \A T \in SUBSET (1..0) : T = {}
    OBVIOUS
  <2> QED
    BY <2>1 DEF Iterate
<1>2. Iterate(f, step, base, <<>>, 0)
  BY <1>1
<1>3. FoldOf(step, base, <<>>) = f[1..0]
  BY DEF FoldOf
<1> HIDE DEF f
<1>4. 1..0 = {}
  OBVIOUS
<1> QED
  BY <1>2, <1>3, <1>4 DEF Iterate

LEMMA FoldOfMore ==
    ASSUME NEW A, NEW B, NEW step, NEW base, Stepping(A, B, step, base),
           NEW s \in Seq(B), NEW x \in B
    PROVE  /\ FoldOf(step, base, s) \in A
           /\ FoldOf(step, base, Append(s, x)) = step[FoldOf(step, base, s)][x]
<1> DEFINE t == Append(s, x)
           n == Len(s)
<1>1. /\ t \in Seq(B) /\ n \in Nat /\ n + 1 \in Nat /\ Len(t) = n + 1 /\ t[n + 1] = x
      /\ \A i \in 1..n : t[i] = s[i]
  BY AppendProperties
<1>2. Len(s) <= n + 1 /\ n + 1 <= Len(t)
  BY <1>1
<1>3. n = Len(s)
  OBVIOUS
<1> HIDE DEF t, n
<1> DEFINE m == n + 1
<1>4. m \in Nat /\ m = Len(t) /\ m <= Len(t) /\ Len(s) <= m
  BY <1>1, <1>2
<1> HIDE DEF m
<1>5. PICK f : Iterate(f, step, base, t, m)
  BY <1>1, <1>4, IterateExists
<1>6. f[1..m] = FoldOf(step, base, t)
  BY <1>1, <1>4, <1>5, IterateOfPart
<1>7. f[1..n] = FoldOf(step, base, s) /\ f[1..n] \in A
  BY <1>1, <1>3, <1>4, <1>5, IterateOfPart
<1>8. f[1..m] = step[f[1..n]][x]
  <2> DEFINE T == 1..m
  <2>1. T \in SUBSET (1..m) /\ T # {}
    BY <1>1 DEF m
  <2>2. f[T] = step[f[T \ {Max(T)}]][t[Max(T)]]
    BY <1>5, <2>1 DEF Iterate
  <2>3. Max(T) = m /\ T \ {m} = 1..n /\ t[m] = x
    BY <1>1, GreatestOfAll DEF m
  <2> QED
    BY <2>2, <2>3
<1> QED
  BY <1>6, <1>7, <1>8 DEF t

\* What holds of no elements, and of one more if it holds of some, holds of all.
LEMMA AllSequences ==
    ASSUME NEW B, NEW S, <<>> \in S, \A s \in Seq(B), x \in B : s \in S => Append(s, x) \in S
    PROVE  Seq(B) \subseteq S
<1> DEFINE N == {n \in Nat : \A s \in Seq(B) : Len(s) = n => s \in S}
<1>1. 0 \in N
  BY EmptySeq
<1>2. ASSUME NEW n \in Nat, n \in N PROVE n + 1 \in N
  <2> SUFFICES ASSUME NEW s \in Seq(B), Len(s) = n + 1 PROVE s \in S
    OBVIOUS
  <2>1. s # <<>>
    OBVIOUS
  <2>2. PICK t \in Seq(B), x \in B : s = Append(t, x)
    BY <2>1, SequenceEmptyOrAppend
  <2>3. Len(t) = n
    BY <2>2, AppendProperties
  <2> QED
    BY <1>2, <2>2, <2>3
<1> HIDE DEF N
<1>3. Nat \subseteq N
  BY <1>1, <1>2, AllNumbers
<1>4. \A s \in Seq(B) : Len(s) \in Nat
  BY LenProperties
<1> QED
  BY <1>3, <1>4 DEF N

-----------------------------------------------------------------------------
(* Sequences of sequences, one behind the other. *)

Flattens(f, ss, n) == f = [i \in 1..n |-> IF i = 1 THEN ss[i] ELSE f[i - 1] \o ss[i]]

LEMMA FlattensAt ==
    ASSUME NEW f, NEW ss, NEW n, Flattens(f, ss, n), NEW i \in 1..n
    PROVE  f[i] = IF i = 1 THEN ss[i] ELSE f[i - 1] \o ss[i]
BY DEF Flattens

LEMMA FlattenExists ==
    ASSUME NEW B, NEW ss \in Seq(Seq(B)), NEW n \in Nat, n <= Len(ss)
    PROVE  \E f : Flattens(f, ss, n)
<1> DEFINE S == {m \in Nat : m <= Len(ss) => \E f : Flattens(f, ss, m)}
<1>1. 0 \in S
  <2> DEFINE f == [i \in 1..0 |-> <<>>]
  <2>1. Flattens(f, ss, 0)
    BY DEF Flattens
  <2> QED
    BY <2>1
<1>2. ASSUME NEW m \in Nat, m \in S PROVE m + 1 \in S
  <2> SUFFICES ASSUME m + 1 <= Len(ss) PROVE \E f : Flattens(f, ss, m + 1)
    OBVIOUS
  <2>1. PICK f : Flattens(f, ss, m)
    BY <1>2
  <2> DEFINE g == [i \in 1..m + 1 |->
                      IF i <= m THEN f[i] ELSE IF i = 1 THEN ss[i] ELSE f[i - 1] \o ss[i]]
  <2>2. ASSUME NEW i \in 1..m + 1
        PROVE  g[i] = IF i = 1 THEN ss[i] ELSE g[i - 1] \o ss[i]
    <3>1. CASE i <= m
      <4>1. i \in 1..m /\ (i # 1 => i - 1 \in 1..m)
        BY <3>1
      <4>2. f[i] = IF i = 1 THEN ss[i] ELSE f[i - 1] \o ss[i]
        BY <2>1, <4>1 DEF Flattens
      <4>3. g[i] = f[i] /\ (i # 1 => g[i - 1] = f[i - 1])
        BY <4>1
      <4> QED
        BY <4>2, <4>3
    <3>2. CASE i = m + 1
      <4>1. i # 1 => i - 1 \in 1..m /\ g[i - 1] = f[i - 1]
        BY <3>2
      <4> QED
        BY <3>2, <4>1
    <3> QED
      BY <3>1, <3>2
  <2>3. g = [i \in 1..m + 1 |-> g[i]]
    OBVIOUS
  <2> HIDE DEF g
  <2>4. Flattens(g, ss, m + 1)
    BY <2>2, <2>3 DEF Flattens
  <2> QED
    BY <2>4
<1> HIDE DEF S
<1>3. n \in S
  BY <1>1, <1>2, AllNumbers
<1> QED
  BY <1>3 DEF S

LEMMA FlattenAgree ==
    ASSUME NEW B, NEW ss, NEW tt, NEW n \in Nat, NEW m \in Nat, n <= m,
           \A i \in 1..n : ss[i] = tt[i] /\ ss[i] \in Seq(B),
           NEW f, Flattens(f, ss, n), NEW g, Flattens(g, tt, m)
    PROVE  \A i \in 1..n : f[i] = g[i] /\ f[i] \in Seq(B)
<1> DEFINE S == {k \in Nat : k \in 1..n => f[k] = g[k] /\ f[k] \in Seq(B)}
<1>1. 0 \in S
  OBVIOUS
<1>2. ASSUME NEW k \in Nat, k \in S PROVE k + 1 \in S
  <2> SUFFICES ASSUME k + 1 \in 1..n PROVE f[k + 1] = g[k + 1] /\ f[k + 1] \in Seq(B)
    OBVIOUS
  <2>1. /\ f[k + 1] = IF k + 1 = 1 THEN ss[k + 1] ELSE f[k] \o ss[k + 1]
        /\ g[k + 1] = IF k + 1 = 1 THEN tt[k + 1] ELSE g[k] \o tt[k + 1]
    <3> DEFINE i == k + 1
    <3>1. i \in 1..n /\ i \in 1..m /\ i - 1 = k
      OBVIOUS
    <3> HIDE DEF i
    <3>2. /\ f[i] = IF i = 1 THEN ss[i] ELSE f[i - 1] \o ss[i]
          /\ g[i] = IF i = 1 THEN tt[i] ELSE g[i - 1] \o tt[i]
      BY <3>1, FlattensAt
    <3> QED
      BY <3>1, <3>2 DEF i
  <2>2. ss[k + 1] = tt[k + 1] /\ ss[k + 1] \in Seq(B)
    OBVIOUS
  <2>3. CASE k = 0
    BY <2>1, <2>2, <2>3
  <2>4. CASE k # 0
    <3>1. f[k] = g[k] /\ f[k] \in Seq(B)
      BY <1>2, <2>4
    <3>2. f[k] \o ss[k + 1] \in Seq(B)
      BY <2>2, <3>1, ConcatProperties
    <3> QED
      BY <2>1, <2>2, <2>4, <3>1, <3>2
  <2> QED
    BY <2>3, <2>4
<1> HIDE DEF S
<1>3. Nat \subseteq S
  BY <1>1, <1>2, AllNumbers
<1> QED
  BY <1>3 DEF S

LEMMA FlattenIs ==
    ASSUME NEW B, NEW ss \in Seq(Seq(B)), ss # <<>>
    PROVE  \E f : Flattens(f, ss, Len(ss)) /\ FlattenSeq(ss) = f[Len(ss)]
<1> DEFINE f == CHOOSE f : Flattens(f, ss, Len(ss))
<1>1. Len(ss) \in Nat /\ Len(ss) # 0 /\ Len(ss) <= Len(ss)
  BY EmptySeq, LenProperties
<1>2. Flattens(f, ss, Len(ss))
  <2>1. \E g : Flattens(g, ss, Len(ss))
    BY <1>1, FlattenExists
  <2> QED
    BY <2>1
<1>3. FlattenSeq(ss) = f[Len(ss)]
  BY <1>1 DEF FlattenSeq, Flattens
<1> HIDE DEF f
<1> QED
  BY <1>2, <1>3

LEMMA FlattenNone == FlattenSeq(<<>>) = <<>>
<1>1. Len(<<>>) = 0
  OBVIOUS
<1> QED
  BY <1>1 DEF FlattenSeq

LEMMA FlattenMore ==
    ASSUME NEW B, NEW ss \in Seq(Seq(B)), NEW t \in Seq(B)
    PROVE  /\ FlattenSeq(ss) \in Seq(B)
           /\ FlattenSeq(Append(ss, t)) = FlattenSeq(ss) \o t
<1> DEFINE tt == Append(ss, t)
           n == Len(ss)
<1>1. /\ tt \in Seq(Seq(B)) /\ tt # <<>> /\ n \in Nat /\ Len(tt) = n + 1 /\ tt[n + 1] = t
      /\ \A i \in 1..n : ss[i] = tt[i] /\ ss[i] \in Seq(B)
  BY AppendProperties, LenProperties, ElementOfSeq
<1>2. PICK g : Flattens(g, tt, n + 1) /\ FlattenSeq(tt) = g[n + 1]
  <2> HIDE DEF tt, n
  <2>1. \E g : Flattens(g, tt, Len(tt)) /\ FlattenSeq(tt) = g[Len(tt)]
    BY <1>1, FlattenIs
  <2> QED
    BY <1>1, <2>1
<1>3. g[n + 1] = IF n + 1 = 1 THEN t ELSE g[n] \o t
  <2> DEFINE m == n + 1
  <2>1. m \in 1..m /\ m - 1 = n /\ tt[m] = t
    BY <1>1
  <2> HIDE DEF tt, n, m
  <2>2. Flattens(g, tt, m)
    BY <1>2 DEF m
  <2>3. g[m] = IF m = 1 THEN tt[m] ELSE g[m - 1] \o tt[m]
    BY <2>1, <2>2, FlattensAt
  <2> QED
    BY <2>1, <2>3 DEF m
<1>4. CASE ss = <<>>
  <2>1. n = 0
    BY <1>4
  <2>2. FlattenSeq(tt) = t /\ <<>> \o t = t
    BY <1>2, <1>3, <2>1, ConcatEmptySeq
  <2> QED
    BY <1>4, <2>2, FlattenNone, EmptySeq
<1>5. CASE ss # <<>>
  <2>1. PICK f : Flattens(f, ss, n) /\ FlattenSeq(ss) = f[n]
    BY <1>5, FlattenIs
  <2>2. n # 0
    BY <1>5, EmptySeq
  <2> HIDE DEF tt, n
  <2>3. \A i \in 1..n : f[i] = g[i] /\ f[i] \in Seq(B)
    <3> DEFINE m == n + 1
    <3>1. m \in Nat /\ n <= m /\ Flattens(g, tt, m)
      BY <1>1, <1>2
    <3> HIDE DEF m
    <3> QED
      BY <1>1, <2>1, <3>1, FlattenAgree
  <2>4. f[n] = g[n] /\ f[n] \in Seq(B)
    BY <1>1, <2>2, <2>3
  <2>5. FlattenSeq(tt) = FlattenSeq(ss) \o t
    BY <1>1, <1>2, <1>3, <2>1, <2>2, <2>4
  <2> QED
    BY <2>1, <2>4, <2>5 DEF tt
<1> QED
  BY <1>4, <1>5

LEMMA AppendConcat ==
    ASSUME NEW B, NEW s \in Seq(B), NEW t \in Seq(B), NEW x \in B
    PROVE  s \o Append(t, x) = Append(s \o t, x)
<1>1. s \o t \in Seq(B) /\ <<x>> \in Seq(B)
  BY ConcatProperties
<1>2. Append(t, x) = t \o <<x>> /\ Append(s \o t, x) = (s \o t) \o <<x>>
  BY <1>1, AppendIsConcat
<1>3. (s \o t) \o <<x>> = s \o (t \o <<x>>)
  BY <1>1, ConcatAssociative
<1> QED
  BY <1>2, <1>3

LEMMA FlattenConcat ==
    ASSUME NEW B, NEW ss \in Seq(Seq(B)), NEW tt \in Seq(Seq(B))
    PROVE  FlattenSeq(ss \o tt) = FlattenSeq(ss) \o FlattenSeq(tt)
<1> DEFINE S == {uu \in Seq(Seq(B)) : FlattenSeq(ss \o uu) = FlattenSeq(ss) \o FlattenSeq(uu)}
<1>1. <<>> \in S
  <2>1. FlattenSeq(ss) \in Seq(B)
    BY FlattenMore, EmptySeq
  <2>2. ss \o <<>> = ss /\ FlattenSeq(ss) \o <<>> = FlattenSeq(ss)
    BY <2>1, ConcatEmptySeq
  <2> QED
    BY <2>2, FlattenNone, EmptySeq
<1>2. ASSUME NEW uu \in Seq(Seq(B)), NEW t \in Seq(B), uu \in S PROVE Append(uu, t) \in S
  <2>1. Append(uu, t) \in Seq(Seq(B)) /\ ss \o uu \in Seq(Seq(B))
    BY AppendProperties, ConcatProperties
  <2>2. ss \o Append(uu, t) = Append(ss \o uu, t)
    BY AppendConcat
  <2>3. FlattenSeq(Append(ss \o uu, t)) = FlattenSeq(ss \o uu) \o t
    BY <2>1, FlattenMore
  <2>4. FlattenSeq(Append(uu, t)) = FlattenSeq(uu) \o t
    BY FlattenMore
  <2>5. FlattenSeq(ss) \in Seq(B) /\ FlattenSeq(uu) \in Seq(B)
    BY FlattenMore, EmptySeq
  <2>6. (FlattenSeq(ss) \o FlattenSeq(uu)) \o t = FlattenSeq(ss) \o (FlattenSeq(uu) \o t)
    BY <2>5, ConcatAssociative
  <2>7. FlattenSeq(ss \o uu) = FlattenSeq(ss) \o FlattenSeq(uu)
    BY <1>2
  <2> QED
    BY <2>1, <2>2, <2>3, <2>4, <2>6, <2>7
<1> HIDE DEF S
<1>3. tt \in S
  BY <1>1, <1>2, AllSequences
<1> QED
  BY <1>3 DEF S

LEMMA FlattenOne == ASSUME NEW B, NEW t \in Seq(B) PROVE FlattenSeq(<<t>>) = t
<1>1. <<>> \in Seq(Seq(B)) /\ Append(<<>>, t) = <<t>>
  OBVIOUS
<1>2. FlattenSeq(Append(<<>>, t)) = <<>> \o t
  BY <1>1, FlattenMore, FlattenNone
<1> QED
  BY <1>1, <1>2, ConcatEmptySeq

-----------------------------------------------------------------------------
(* Sequences that are put together. *)

LEMMA AppendIs ==
    ASSUME NEW B, NEW s \in Seq(B), NEW x \in B
    PROVE  Append(s, x) = s \o <<x>> /\ <<x>> \in Seq(B)
<1>1. <<x>> \in Seq(B) /\ <<x>> = Append(<<>>, x) /\ <<>> \in Seq(B)
  OBVIOUS
<1>2. s \o Append(<<>>, x) = Append(s \o <<>>, x)
  BY <1>1, AppendConcat
<1>3. s \o <<>> = s
  OBVIOUS
<1> QED
  BY <1>1, <1>2, <1>3

\* r is p followed by q.
Joined(p, q, r, B) ==
    /\ p \in Seq(B) /\ q \in Seq(B) /\ r \in Seq(B)
    /\ Len(r) = Len(p) + Len(q)
    /\ \A i \in 1..Len(p) : r[i] = p[i]
    /\ \A i \in 1..Len(q) : r[Len(p) + i] = q[i]

LEMMA JoinedIs == ASSUME NEW B, NEW p, NEW q, NEW r, Joined(p, q, r, B) PROVE r = p \o q
<1>0. /\ p \in Seq(B) /\ q \in Seq(B) /\ r \in Seq(B)
      /\ Len(r) = Len(p) + Len(q)
      /\ \A i \in 1..Len(p) : r[i] = p[i]
      /\ \A i \in 1..Len(q) : r[Len(p) + i] = q[i]
  BY DEF Joined
<1>1. /\ p \o q \in Seq(B) /\ Len(p \o q) = Len(p) + Len(q)
      /\ \A i \in 1..Len(p) + Len(q) : (p \o q)[i] = IF i <= Len(p) THEN p[i] ELSE q[i - Len(p)]
      /\ Len(p) \in Nat /\ Len(q) \in Nat
  BY <1>0, ConcatProperties, LenProperties
<1>2. ASSUME NEW i \in 1..Len(r) PROVE r[i] = (p \o q)[i]
  <2>1. CASE i <= Len(p)
    <3>1. i \in 1..Len(p) /\ i \in 1..Len(p) + Len(q)
      BY <1>0, <1>1, <2>1
    <3> QED
      BY <1>0, <1>1, <2>1, <3>1
  <2>2. CASE ~(i <= Len(p))
    <3>1. i - Len(p) \in 1..Len(q) /\ Len(p) + (i - Len(p)) = i /\ i \in 1..Len(p) + Len(q)
      BY <1>0, <1>1, <2>2
    <3>2. r[Len(p) + (i - Len(p))] = q[i - Len(p)]
      BY <1>0, <3>1
    <3> QED
      BY <1>1, <2>2, <3>1, <3>2
  <2> QED
    BY <2>1, <2>2
<1> QED
  BY <1>0, <1>1, <1>2, SeqEqual

LEMMA FrontLast ==
    ASSUME NEW B, NEW s \in Seq(B), s # <<>>
    PROVE  Front(s) \in Seq(B) /\ Last(s) \in B /\ s = Append(Front(s), Last(s))
<1>1. Len(s) \in Nat /\ Len(s) > 0 /\ \A i \in 1..Len(s) : s[i] \in B
  BY EmptySeq, LenProperties
<1>2. /\ Front(s) \in Seq(B) /\ Len(Front(s)) = Len(s) - 1
      /\ \A i \in 1..Len(s) - 1 : Front(s)[i] = s[i]
  <2> DEFINE m == Len(s) - 1
  <2>1. m \in Nat /\ m <= Len(s) /\ \A i \in 1..m : s[i] \in B
    BY <1>1
  <2>2. Front(s) = SubSeq(s, 1, m)
    BY DEF Front
  <2> HIDE DEF m
  <2>3. /\ SubSeq(s, 1, m) \in Seq(B) /\ Len(SubSeq(s, 1, m)) = m
        /\ \A i \in 1..m : SubSeq(s, 1, m)[i] = s[i]
    BY <1>1, <2>1, SubSeqProperties
  <2>4. Front(s) \in Seq(B) /\ Len(Front(s)) = m /\ \A i \in 1..m : Front(s)[i] = s[i]
    BY <2>2, <2>3
  <2> QED
    BY <2>4 DEF m
<1>3. Last(s) \in B /\ Last(s) = s[Len(s)]
  BY <1>1 DEF Last
<1> DEFINE t == Append(Front(s), Last(s))
<1>4. /\ t \in Seq(B) /\ Len(t) = Len(s) /\ t[Len(s)] = Last(s)
      /\ \A i \in 1..Len(s) - 1 : t[i] = s[i]
  BY <1>1, <1>2, <1>3, AppendProperties
<1> HIDE DEF t
<1>5. \A i \in 1..Len(s) : s[i] = t[i]
  BY <1>1, <1>3, <1>4
<1>6. s = t
  BY <1>4, <1>5, SeqEqual
<1> QED
  BY <1>2, <1>3, <1>6 DEF t

LEMMA FrontOfAppend ==
    ASSUME NEW B, NEW s \in Seq(B), NEW x \in B
    PROVE  Append(s, x) # <<>> /\ Front(Append(s, x)) = s /\ Last(Append(s, x)) = x
<1> DEFINE t == Append(s, x)
<1>1. /\ t \in Seq(B) /\ Len(t) = Len(s) + 1 /\ t[Len(s) + 1] = x /\ Len(s) \in Nat
      /\ \A i \in 1..Len(s) : t[i] = s[i]
  BY AppendProperties, LenProperties
<1> HIDE DEF t
<1>2. /\ SubSeq(t, 1, Len(t) - 1) \in Seq(B) /\ Len(SubSeq(t, 1, Len(t) - 1)) = Len(s)
      /\ \A i \in 1..Len(s) : SubSeq(t, 1, Len(t) - 1)[i] = t[i]
  BY <1>1, SubSeqProperties
<1>3. Front(t) = s
  BY <1>1, <1>2, SeqEqual DEF Front
<1>4. t # <<>> /\ Last(t) = x
  BY <1>1 DEF Last
<1> QED
  BY <1>3, <1>4 DEF t

\* Sequences of nothing.
LEMMA Blanks == ASSUME NEW B, NEW ss \in Seq({<<>>}) PROVE ss \in Seq(Seq(B)) /\ FlattenSeq(ss) = <<>>
<1> DEFINE none == <<>>
           N == {none}
           S == {rr \in Seq(N) : FlattenSeq(rr) = none}
<1>1. none \in Seq(B) /\ none \o none = none
  OBVIOUS
<1>2. none \in S
  BY FlattenNone
<1>3. ss \in Seq(N)
  OBVIOUS
<1> HIDE DEF none
<1>4. ASSUME NEW rr \in Seq(N), NEW x \in N, rr \in S PROVE Append(rr, x) \in S
  <2>1. x = none /\ Append(rr, x) \in Seq(N) /\ rr \in Seq(Seq(B))
    BY <1>1, AppendProperties, SeqMonotonic
  <2>2. FlattenSeq(Append(rr, none)) = FlattenSeq(rr) \o none
    BY <1>1, <2>1, FlattenMore
  <2> QED
    BY <1>1, <1>4, <2>1, <2>2
<1>5. ss \in Seq(Seq(B))
  BY <1>1, <1>3, SeqMonotonic
<1> HIDE DEF S, N
<1>6. Seq(N) \subseteq S
  <2>1. <<>> \in S
    BY <1>2 DEF none
  <2> QED
    BY <1>4, <2>1, AllSequences
<1>7. FlattenSeq(ss) = none
  BY <1>3, <1>6 DEF S
<1> QED
  BY <1>5, <1>7 DEF none

-----------------------------------------------------------------------------
(* Sequences that are written item by item. *)

\* What a text becomes if each of its items is written as m has it.
Written(m, s) == FlattenSeq([i \in 1..Len(s) |-> m[s[i]]])

Writes(m, B, C) == m \in [B -> Seq(C)]
Pieces(p, m, s) == p = [i \in 1..Len(s) |-> m[s[i]]]

LEMMA WrittenIs ==
    ASSUME NEW B, NEW C, NEW m, Writes(m, B, C), NEW s \in Seq(B), NEW p, Pieces(p, m, s)
    PROVE  /\ p \in Seq(Seq(C)) /\ Len(p) = Len(s) /\ Written(m, s) = FlattenSeq(p)
           /\ \A i \in 1..Len(s) : p[i] = m[s[i]]
<1>1. Len(s) \in Nat /\ \A i \in 1..Len(s) : s[i] \in B
  OBVIOUS
<1>2. \A i \in 1..Len(s) : m[s[i]] \in Seq(C)
  BY <1>1 DEF Writes
<1>3. Written(m, s) = FlattenSeq(p)
  BY DEF Written, Pieces
<1>4. p = [i \in 1..Len(s) |-> m[s[i]]]
  BY DEF Pieces
<1> QED
  BY <1>1, <1>2, <1>3, <1>4

LEMMA PiecesConcat ==
    ASSUME NEW B, NEW C, NEW m, Writes(m, B, C), NEW s \in Seq(B), NEW t \in Seq(B),
           NEW p, Pieces(p, m, s), NEW q, Pieces(q, m, t), NEW r, Pieces(r, m, s \o t)
    PROVE  r = p \o q
<1> DEFINE u == s \o t
<1>1. /\ u \in Seq(B) /\ Len(u) = Len(s) + Len(t)
      /\ Len(s) \in Nat /\ Len(t) \in Nat
      /\ \A i \in 1..Len(s) + Len(t) : u[i] = IF i <= Len(s) THEN s[i] ELSE t[i - Len(s)]
  BY ConcatProperties, LenProperties
<1>2. /\ p \in Seq(Seq(C)) /\ Len(p) = Len(s)
      /\ \A i \in 1..Len(s) : p[i] = m[s[i]]
  BY WrittenIs
<1>3. /\ q \in Seq(Seq(C)) /\ Len(q) = Len(t)
      /\ \A i \in 1..Len(t) : q[i] = m[t[i]]
  BY WrittenIs
<1>4. Pieces(r, m, u)
  OBVIOUS
<1> HIDE DEF u
<1>5. /\ r \in Seq(Seq(C)) /\ Len(r) = Len(u)
      /\ \A i \in 1..Len(u) : r[i] = m[u[i]]
  BY <1>1, <1>4, WrittenIs
<1>6. ASSUME NEW i \in 1..Len(p) PROVE r[i] = p[i]
  <2>1. i \in 1..Len(s) /\ i \in 1..Len(s) + Len(t) /\ i <= Len(s)
    BY <1>1, <1>2
  <2>2. r[i] = m[u[i]] /\ u[i] = s[i] /\ p[i] = m[s[i]]
    BY <1>1, <1>2, <1>5, <2>1
  <2> QED
    BY <2>2
<1>7. ASSUME NEW i \in 1..Len(q) PROVE r[Len(p) + i] = q[i]
  <2> DEFINE j == Len(p) + i
  <2>1. i \in 1..Len(t) /\ j \in 1..Len(s) + Len(t) /\ ~(j <= Len(s)) /\ j - Len(s) = i
    BY <1>1, <1>2, <1>3
  <2> HIDE DEF j
  <2>2. r[j] = m[u[j]] /\ u[j] = t[j - Len(s)] /\ q[i] = m[t[i]]
    BY <1>1, <1>3, <1>5, <2>1
  <2>3. r[j] = q[i]
    BY <2>1, <2>2
  <2> QED
    BY <2>3 DEF j
<1>8. Joined(p, q, r, Seq(C))
  BY <1>1, <1>2, <1>3, <1>5, <1>6, <1>7 DEF Joined
<1> QED
  BY <1>8, JoinedIs

LEMMA WrittenConcat ==
    ASSUME NEW B, NEW C, NEW m, Writes(m, B, C), NEW s \in Seq(B), NEW t \in Seq(B)
    PROVE  Written(m, s) \in Seq(C) /\ Written(m, s \o t) = Written(m, s) \o Written(m, t)
<1>1. PICK p : Pieces(p, m, s)
  BY DEF Pieces
<1>2. PICK q : Pieces(q, m, t)
  BY DEF Pieces
<1>3. PICK r : Pieces(r, m, s \o t)
  BY DEF Pieces
<1>4. s \o t \in Seq(B)
  BY ConcatProperties
<1>5. /\ p \in Seq(Seq(C)) /\ q \in Seq(Seq(C)) /\ Written(m, s) = FlattenSeq(p)
      /\ Written(m, t) = FlattenSeq(q)
  BY <1>1, <1>2, WrittenIs
<1>6. Written(m, s \o t) = FlattenSeq(r)
  BY <1>3 DEF Written, Pieces
<1>7. r = p \o q
  BY <1>1, <1>2, <1>3, PiecesConcat
<1>8. FlattenSeq(p \o q) = FlattenSeq(p) \o FlattenSeq(q) /\ FlattenSeq(p) \in Seq(C)
  BY <1>5, FlattenConcat, FlattenMore, EmptySeq
<1> QED
  BY <1>5, <1>6, <1>7, <1>8

LEMMA WrittenOne ==
    ASSUME NEW B, NEW C, NEW m, Writes(m, B, C), NEW x \in B
    PROVE  Written(m, <<x>>) = m[x] /\ Written(m, <<>>) = <<>>
<1>1. Len(<<x>>) = 1 /\ Len(<<>>) = 0 /\ m[x] \in Seq(C)
  BY DEF Writes
<1>2. [i \in 1..0 |-> m[<<>>[i]]] = <<>>
  OBVIOUS
<1>3. [i \in 1..1 |-> m[<<x>>[i]]] = <<m[x]>>
  OBVIOUS
<1>4. Written(m, <<x>>) = FlattenSeq(<<m[x]>>) /\ Written(m, <<>>) = FlattenSeq(<<>>)
  <2>1. /\ Written(m, <<x>>) = FlattenSeq([i \in 1..1 |-> m[<<x>>[i]]])
        /\ Written(m, <<>>) = FlattenSeq([i \in 1..0 |-> m[<<>>[i]]])
    BY <1>1 DEF Written
  <2> QED
    BY <1>2, <1>3, <2>1
<1> QED
  BY <1>1, <1>4, FlattenOne, FlattenNone

LEMMA WrittenMore ==
    ASSUME NEW B, NEW C, NEW m, Writes(m, B, C), NEW s \in Seq(B), NEW x \in B
    PROVE  Written(m, Append(s, x)) = Written(m, s) \o m[x]
<1> DEFINE y == <<x>>
<1>1. Append(s, x) = s \o y /\ y \in Seq(B)
  BY AppendIs
<1>2. Written(m, y) = m[x]
  BY WrittenOne
<1> HIDE DEF y
<1>3. Written(m, s \o y) = Written(m, s) \o Written(m, y)
  BY <1>1, WrittenConcat
<1> QED
  BY <1>1, <1>2, <1>3

\* The same with its premises as one.
Parts(m, B, C, s, t) == Writes(m, B, C) /\ s \in Seq(B) /\ t \in Seq(B)

LEMMA WrittenParts ==
    ASSUME NEW B, NEW C, NEW m, NEW s, NEW t, Parts(m, B, C, s, t)
    PROVE  Written(m, s) \in Seq(C) /\ Written(m, s \o t) = Written(m, s) \o Written(m, t)
<1>1. Writes(m, B, C) /\ s \in Seq(B) /\ t \in Seq(B)
  BY DEF Parts
<1> QED
  BY <1>1, WrittenConcat
=============================================================================
