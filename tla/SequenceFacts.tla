---------------------------- MODULE SequenceFacts ----------------------------
(***************************************************************************)
(* What the operators on sequences do to the set of elements, to           *)
(* injectivity and to the number of elements: the facts about queues and   *)
(* batches on which the proofs about the vote path rest.  And what folds   *)
(* compute: the facts about tallies (sums of numbers) and about the sums   *)
(* of a vote (folds from the left, with any operation).                    *)
(***************************************************************************)
EXTENDS Integers, Sequences, FiniteSets, FiniteSetsExt, Functions,
        FunctionTheorems, FiniteSetTheorems, SequenceTheorems,
        WellFoundedInduction, TLAPS

(* Appending adds the element, and a fresh element keeps a sequence        *)
(* without repetitions.                                                    *)
LEMMA AppendFacts ==
  ASSUME NEW S, NEW s \in Seq(S), NEW x \in S
  PROVE  /\ Append(s, x) \in Seq(S)
         /\ Len(Append(s, x)) = Len(s) + 1
         /\ Range(Append(s, x)) = Range(s) \cup {x}
         /\ IsInjective(s) /\ x \notin Range(s) => IsInjective(Append(s, x))
<1> DEFINE t == Append(s, x)
<1>1. /\ t \in Seq(S) /\ DOMAIN t = 1..(Len(s) + 1) /\ DOMAIN s = 1..Len(s)
      /\ \A i \in 1..Len(s) : t[i] = s[i]
      /\ t[Len(s) + 1] = x
      /\ Len(t) = Len(s) + 1
      /\ Len(s) \in Nat
  OBVIOUS
<1> HIDE DEF t
<1>2. Range(t) = Range(s) \cup {x}
  BY <1>1 DEF Range
<1>3. IsInjective(s) /\ x \notin Range(s) => IsInjective(t)
  BY <1>1 DEF Range, IsInjective
<1> QED BY <1>1, <1>2, <1>3 DEF t

(* Cutting a sequence in two: each element goes to exactly one side.       *)
LEMMA SplitFacts ==
  ASSUME NEW S, NEW s \in Seq(S), NEW n \in 0..Len(s)
  PROVE  LET front == SubSeq(s, 1, n)
             back  == SubSeq(s, n + 1, Len(s))
         IN  /\ front \in Seq(S) /\ Len(front) = n
             /\ back \in Seq(S)  /\ Len(back) = Len(s) - n
             /\ Range(s) = Range(front) \cup Range(back)
             /\ IsInjective(s) => /\ IsInjective(front)
                                  /\ IsInjective(back)
                                  /\ Range(front) \cap Range(back) = {}
<1> DEFINE front == SubSeq(s, 1, n)
           back  == SubSeq(s, n + 1, Len(s))
<1>0. /\ n \in Nat /\ Len(s) \in Nat /\ n <= Len(s)
      /\ DOMAIN s = 1..Len(s) /\ \A i \in 1..Len(s) : s[i] \in S
  OBVIOUS
<1>1. /\ front \in Seq(S) /\ Len(front) = n /\ DOMAIN front = 1..n
      /\ \A i \in 1..n : front[i] = s[i]
  BY <1>0
<1>2. /\ back \in Seq(S) /\ Len(back) = Len(s) - n
      /\ DOMAIN back = 1..(Len(s) - n)
      /\ \A i \in 1..(Len(s) - n) : back[i] = s[n + i]
  <2>1. /\ n + 1 \in Int /\ Len(s) \in Int
        /\ \A i \in (n + 1)..Len(s) : s[i] \in S
        /\ Len(s) - (n + 1) + 1 = Len(s) - n
        /\ \A i \in 1..(Len(s) - n) : (n + 1) + i - 1 = n + i
    BY <1>0
  <2>2. /\ back \in Seq(S)
        /\ Len(back) = IF n + 1 <= Len(s) THEN Len(s) - (n + 1) + 1 ELSE 0
        /\ \A i \in 1..(Len(s) - (n + 1) + 1) : back[i] = s[(n + 1) + i - 1]
    BY <2>1, SubSeqProperties
  <2> HIDE DEF back
  <2>3. Len(back) = Len(s) - n
    BY <1>0, <2>2
  <2>4. DOMAIN back = 1..(Len(s) - n)
    BY <2>2, <2>3
  <2>5. ASSUME NEW i \in 1..(Len(s) - n) PROVE back[i] = s[n + i]
    <3>1. (n + 1) + i - 1 = n + i
      BY <1>0
    <3>2. back[i] = s[(n + 1) + i - 1]
      BY <2>1, <2>2
    <3> QED BY <3>1, <3>2
  <2> QED BY <2>2, <2>3, <2>4, <2>5
<1> HIDE DEF front, back
<1>3. \A i \in 1..Len(s) : \/ i \in 1..n
                           \/ i - n \in 1..(Len(s) - n) /\ n + (i - n) = i
  BY <1>0
<1>4. Range(s) = Range(front) \cup Range(back)
  <2>1. Range(front) \subseteq Range(s)
    BY <1>0, <1>1 DEF Range
  <2>2. Range(back) \subseteq Range(s)
    <3>1. \A i \in 1..(Len(s) - n) : n + i \in 1..Len(s)
      BY <1>0
    <3> QED BY <1>0, <1>2, <3>1 DEF Range
  <2>3. ASSUME NEW i \in 1..Len(s) PROVE s[i] \in Range(front) \cup Range(back)
    <3>1. CASE i \in 1..n
      BY <1>1, <3>1 DEF Range
    <3>2. CASE i - n \in 1..(Len(s) - n) /\ n + (i - n) = i
      <4>1. back[i - n] = s[i] /\ i - n \in DOMAIN back
        BY <1>2, <3>2
      <4> QED BY <4>1 DEF Range
    <3> QED BY <1>3, <3>1, <3>2
  <2> QED BY <1>0, <2>1, <2>2, <2>3 DEF Range
<1>5. ASSUME IsInjective(s)
      PROVE  /\ IsInjective(front) /\ IsInjective(back)
             /\ Range(front) \cap Range(back) = {}
  <2>1. IsInjective(front)
    BY <1>0, <1>1, <1>5 DEF IsInjective
  <2>2. \A i \in 1..(Len(s) - n) : n + i \in 1..Len(s) /\ n + i \notin 1..n
    BY <1>0
  <2>3. IsInjective(back)
    <3>1. SUFFICES ASSUME NEW i \in 1..(Len(s) - n), NEW j \in 1..(Len(s) - n),
                          back[i] = back[j]
                   PROVE  i = j
      BY <1>2 DEF IsInjective
    <3>2. s[n + i] = s[n + j] /\ n + i \in DOMAIN s /\ n + j \in DOMAIN s
      BY <1>0, <1>2, <2>2, <3>1
    <3>3. n + i = n + j
      BY <1>5, <3>2 DEF IsInjective
    <3> QED BY <1>0, <3>3
  <2>4. ASSUME NEW i \in 1..n, NEW j \in 1..(Len(s) - n), front[i] = back[j]
        PROVE  FALSE
    <3>1. s[i] = s[n + j] /\ i \in DOMAIN s /\ n + j \in DOMAIN s
      BY <1>0, <1>1, <1>2, <2>2, <2>4
    <3>2. i = n + j
      BY <1>5, <3>1 DEF IsInjective
    <3> QED BY <1>0, <3>2
  <2> QED BY <1>1, <1>2, <2>1, <2>3, <2>4 DEF Range
<1> QED BY <1>1, <1>2, <1>4, <1>5 DEF front, back

\* t is the stretch of n elements of s after the first k.
IsSlice(t, s, k, n) == Len(t) = n /\ \A i \in 1..n : t[i] = s[k + i]

(* SubSeq is a stretch of the sequence, and the only one of its length.    *)
LEMMA SliceFacts ==
  ASSUME NEW S, NEW s \in Seq(S), NEW k \in Nat, NEW n \in Nat,
         NEW first, NEW last, first = k + 1, last = k + n, last <= Len(s),
         NEW u, u = SubSeq(s, first, last)
  PROVE  u \in Seq(S) /\ IsSlice(u, s, k, n)
<1>1. /\ Len(s) \in Nat /\ k + 1 \in Int /\ k + n \in Int
      /\ \A i \in (k + 1)..(k + n) : s[i] \in S
      /\ (k + n) - (k + 1) + 1 = n
      /\ \A i \in 1..n : (k + 1) + i - 1 = k + i
  OBVIOUS
<1>2. /\ u \in Seq(S)
      /\ Len(u) = IF k + 1 <= k + n THEN (k + n) - (k + 1) + 1 ELSE 0
      /\ \A i \in 1..((k + n) - (k + 1) + 1) : u[i] = s[(k + 1) + i - 1]
  BY <1>1, SubSeqProperties
<1>3. Len(u) = n
  BY <1>1, <1>2
<1>4. \A i \in 1..n : u[i] = s[k + i]
  <2> TAKE i \in 1..n
  <2>1. u[i] = s[(k + 1) + i - 1] /\ (k + 1) + i - 1 = k + i
    BY <1>1, <1>2
  <2> QED BY <2>1
<1> QED BY <1>2, <1>3, <1>4 DEF IsSlice

LEMMA SliceIsSubSeq ==
  ASSUME NEW S, NEW s \in Seq(S), NEW k \in Nat, NEW t \in Seq(S),
         k + Len(t) <= Len(s), IsSlice(t, s, k, Len(t))
  PROVE  t = SubSeq(s, k + 1, k + Len(t))
<1>1. PICK first, last, u : /\ first = k + 1 /\ last = k + Len(t)
                            /\ u = SubSeq(s, first, last)
  OBVIOUS
<1>2. Len(t) \in Nat /\ last <= Len(s)
  BY <1>1
<1>3. u \in Seq(S) /\ IsSlice(u, s, k, Len(t))
  BY <1>1, <1>2, SliceFacts
<1>4. Len(u) = Len(t) /\ \A i \in 1..Len(t) : t[i] = u[i]
  BY <1>3 DEF IsSlice
<1>5. t = u
  BY <1>3, <1>4, SeqEqual
<1> QED BY <1>1, <1>5

(* A sequence has finitely many positions and elements; without            *)
(* repetitions, as many elements of a kind as positions that hold one.     *)
LEMMA CountPositions ==
  ASSUME NEW S, NEW s \in Seq(S), NEW T
  PROVE  LET at == {i \in DOMAIN s : s[i] \in T}
             in == {x \in Range(s) : x \in T}
         IN  /\ IsFiniteSet(at) /\ Cardinality(at) \in Nat
             /\ IsInjective(s) => /\ IsFiniteSet(in)
                                  /\ Cardinality(in) = Cardinality(at)
<1> DEFINE at == {i \in DOMAIN s : s[i] \in T}
           in == {x \in Range(s) : x \in T}
<1>1. DOMAIN s = 1..Len(s) /\ Len(s) \in Nat
  OBVIOUS
<1>2. IsFiniteSet(1..Len(s))
  BY <1>1, FS_Interval
<1>3. IsFiniteSet(at)
  BY <1>1, <1>2, FS_Subset
<1>4. Cardinality(at) \in Nat
  BY <1>3, FS_CardinalityType
<1>5. ASSUME IsInjective(s)
      PROVE  IsFiniteSet(in) /\ Cardinality(in) = Cardinality(at)
  <2> DEFINE f == [i \in at |-> s[i]]
  <2>1. f \in Bijection(at, in)
    <3>1. f \in [at -> in]
      BY DEF Range
    <3>2. \A i, j \in at : f[i] = f[j] => i = j
      BY <1>5 DEF IsInjective
    <3>3. \A x \in in : \E i \in at : f[i] = x
      BY DEF Range
    <3> QED BY <3>1, <3>2, <3>3
            DEF Bijection, Injection, Surjection, IsInjective
  <2>2. ExistsBijection(at, in)
    BY <2>1 DEF ExistsBijection
  <2> QED BY <1>3, <2>2, FS_Bijection
<1> QED BY <1>3, <1>4, <1>5

(* A sequence without repetitions has as many elements as positions.       *)
LEMMA CountElements ==
  ASSUME NEW S, NEW s \in Seq(S), IsInjective(s)
  PROVE  IsFiniteSet(Range(s)) /\ Cardinality(Range(s)) = Len(s)
<1>1. DOMAIN s = 1..Len(s) /\ Len(s) \in Nat /\ \A i \in DOMAIN s : s[i] \in S
  OBVIOUS
<1>2. /\ {i \in DOMAIN s : s[i] \in S} = 1..Len(s)
      /\ {x \in Range(s) : x \in S} = Range(s)
  BY <1>1 DEF Range
<1>3. /\ IsFiniteSet({x \in Range(s) : x \in S})
      /\ Cardinality({x \in Range(s) : x \in S}) =
           Cardinality({i \in DOMAIN s : s[i] \in S})
  BY CountPositions
<1>4. Cardinality(1..Len(s)) = Len(s)
  <2>1. 1 \in Int /\ Len(s) \in Int
    BY <1>1
  <2>2. Cardinality(1..Len(s)) = IF 1 > Len(s) THEN 0 ELSE Len(s) - 1 + 1
    BY <2>1, FS_Interval
  <2> QED BY <1>1, <2>2
<1> QED BY <1>2, <1>3, <1>4

-----------------------------------------------------------------------------
(* Induction and sums *)

(* Induction over the numbers, with the property as a set: no number is    *)
(* the least that is missing.                                              *)
LEMMA SetInduction ==
  ASSUME NEW S, 0 \in S, \A n \in Nat : n \in S => n + 1 \in S
  PROVE  Nat \subseteq S
<1> SUFFICES ASSUME NEW k \in Nat, k \notin S
             PROVE FALSE
  OBVIOUS
<1> DEFINE T == Nat \ S
           R == OpToRel(<, Nat)
<1>1. R = {p \in Nat \X Nat : p[1] < p[2]}
  BY DEF OpToRel
<1>2. \E x \in T : \A y \in T : ~(<<y, x>> \in R)
  <2>1. T \subseteq Nat /\ T # {}
    OBVIOUS
  <2>2. IsWellFoundedOn(R, Nat)
    BY NatLessThanWellFounded
  <2> HIDE DEF T, R
  <2> QED BY <2>1, <2>2, WFMin
<1>3. PICK x \in T : \A y \in T : ~(y < x)
  BY <1>1, <1>2
<1>4. x # 0 /\ x - 1 \in Nat /\ x - 1 \notin T
  BY <1>3
<1> QED BY <1>3, <1>4

(* Of the positions of a sequence that have a property one is the last.    *)
LEMMA LastPosition ==
  ASSUME NEW S, NEW s \in Seq(S), NEW T, T \subseteq DOMAIN s, T # {}
  PROVE  \E i \in T : \A j \in T : j <= i
<1> DEFINE P == {n \in Nat : \E j \in T : n <= j}
<1>1. Len(s) \in Nat /\ \A j \in T : j \in Nat /\ j <= Len(s)
  OBVIOUS
<1>2. SUFFICES ASSUME \A i \in T : \E j \in T : ~(j <= i) PROVE FALSE
  OBVIOUS
<1>3. 0 \in P
  BY <1>1
<1>4. \A n \in Nat : n \in P => n + 1 \in P
  BY <1>1, <1>2
<1>5. Nat \subseteq P
  <2> HIDE DEF P
  <2> QED BY <1>3, <1>4, SetInduction
<1>6. Len(s) + 1 \in P
  BY <1>1, <1>5
<1> QED BY <1>1, <1>6

\* The order in which a fold takes the elements of a set.
Picked(s) == CHOOSE x \in s : TRUE

AllButPicked(s) == s \ {Picked(s)}

\* g[s] is the sum of t over s, for the subsets s of D.
Sums(g, t, D) ==
  /\ g \in [SUBSET D -> Int]
  /\ \A s \in SUBSET D :
       g[s] = IF s = {} THEN 0 ELSE t[Picked(s)] + g[AllButPicked(s)]

(* The sums over the subsets of a finite set exist, by recursion on the     *)
(* number of elements.                                                     *)
LEMMA SumRecursion ==
  ASSUME NEW D, IsFiniteSet(D), NEW t \in [D -> Int]
  PROVE  \E g : Sums(g, t, D)
<1> DEFINE Small(n) == {s \in SUBSET D : Cardinality(s) <= n}
           Step(g, s) == IF s = {} THEN 0 ELSE t[Picked(s)] + g[AllButPicked(s)]
           P == {n \in Nat : \E g \in [Small(n) -> Int] :
                                 \A s \in Small(n) : g[s] = Step(g, s)}
<1>0. \A s \in SUBSET D :
        /\ Cardinality(s) \in Nat /\ Cardinality(s) <= Cardinality(D)
        /\ Cardinality(s) = 0 <=> s = {}
        /\ s # {} => /\ Cardinality(AllButPicked(s)) = Cardinality(s) - 1
                     /\ AllButPicked(s) \in SUBSET D /\ Picked(s) \in D
  BY FS_Subset, FS_EmptySet, FS_RemoveElement, FS_CardinalityType
  DEF AllButPicked, Picked
<1>1. 0 \in P
  <2>1. \A s \in Small(0) : s = {}
    BY <1>0
  <2>2. [s \in Small(0) |-> 0] \in [Small(0) -> Int]
    OBVIOUS
  <2> HIDE DEF Small
  <2> QED BY <2>1, <2>2
<1>2. ASSUME NEW n \in Nat, n \in P
      PROVE  n + 1 \in P
  <2>1. PICK g \in [Small(n) -> Int] : \A s \in Small(n) : g[s] = Step(g, s)
    BY <1>2
  <2> DEFINE h == [s \in Small(n + 1) |-> Step(g, s)]
  <2>2. \A s \in Small(n + 1) : s # {} => AllButPicked(s) \in Small(n)
    BY <1>0
  <2>3. Small(n) \subseteq Small(n + 1) /\ Small(n + 1) \subseteq SUBSET D
    BY <1>0
  <2> HIDE DEF Small
  <2>4. h \in [Small(n + 1) -> Int]
    <3>1. ASSUME NEW s \in Small(n + 1), s # {}
          PROVE  t[Picked(s)] \in Int /\ g[AllButPicked(s)] \in Int
      BY <1>0, <2>2, <2>3, <3>1
    <3> QED BY <3>1
  <2>5. \A s \in Small(n) : h[s] = g[s]
    BY <2>1, <2>3
  <2>6. \A s \in Small(n + 1) : h[s] = Step(h, s)
    BY <2>2, <2>5
  <2> HIDE DEF h, Step
  <2> QED BY <2>4, <2>6
<1>3. Cardinality(D) \in P
  <2> HIDE DEF P
  <2> QED BY <1>1, <1>2, SetInduction, FS_CardinalityType
<1>4. Small(Cardinality(D)) = SUBSET D
  BY <1>0
<1> HIDE DEF Small
<1>5. PICK g \in [SUBSET D -> Int] : \A s \in SUBSET D : g[s] = Step(g, s)
  BY <1>3, <1>4
<1>6. Sums(g, t, D)
  BY <1>5 DEF Sums
<1> QED BY <1>6

(* Induction over the subsets of a finite set in the order of a fold.      *)
LEMMA SubsetInduction ==
  ASSUME NEW D, IsFiniteSet(D), NEW Q, {} \in Q,
         \A s \in SUBSET D : s # {} /\ AllButPicked(s) \in Q => s \in Q
  PROVE  SUBSET D \subseteq Q
<1> DEFINE P == {n \in Nat : \A s \in SUBSET D : Cardinality(s) = n => s \in Q}
<1>1. \A s \in SUBSET D :
        /\ Cardinality(s) \in Nat
        /\ Cardinality(s) = 0 <=> s = {}
        /\ s # {} => /\ Cardinality(AllButPicked(s)) = Cardinality(s) - 1
                     /\ AllButPicked(s) \in SUBSET D
  BY FS_Subset, FS_EmptySet, FS_RemoveElement, FS_CardinalityType
  DEF AllButPicked, Picked
<1>3. 0 \in P
  BY <1>1
<1>4. \A n \in Nat : n \in P => n + 1 \in P
  BY <1>1
<1>5. Nat \subseteq P
  <2> HIDE DEF P
  <2> QED BY <1>3, <1>4, SetInduction
<1> QED BY <1>1, <1>5

\* The sum that FoldSeq and FoldFunction compute.
Total(t) == FoldFunction(LAMBDA x, y : x + y, 0, t)

(* The fold is the sum that the recursion defines.                         *)
LEMMA TotalUnfolds ==
  ASSUME NEW D, IsFiniteSet(D), NEW t \in [D -> Int]
  PROVE  \E g : Sums(g, t, D) /\ Total(t) = g[D]
<1> DEFINE Unfolds(h) == h = [s \in SUBSET D |->
              IF s = {} THEN 0
              ELSE t[Picked(s)] + h[AllButPicked(s)]]
           iter == CHOOSE h : Unfolds(h)
<1>1. Total(t) = iter[D]
  <2>1. DOMAIN t = D
    OBVIOUS
  <2> QED
  BY <2>1 DEF Total, FoldFunction, FoldFunctionOnSet, MapThenFoldSet,
     AllButPicked, Picked
<1>2. PICK g : Sums(g, t, D)
  BY SumRecursion
<1>5. Unfolds(g)
  BY <1>2 DEF Sums
<1>6. Unfolds(iter)
  <2> HIDE DEF Unfolds
  <2> QED BY <1>5
<1>7. iter = [s \in SUBSET D |->
              IF s = {} THEN 0
              ELSE t[Picked(s)] + iter[AllButPicked(s)]]
  BY <1>6
<1>8. g[D] = iter[D]
  <2> DEFINE Q == {s \in SUBSET D : g[s] = iter[s]}
  <2> HIDE DEF iter
  <2>1. {} \in Q
    BY <1>2, <1>7 DEF Sums
  <2>2. ASSUME NEW s \in SUBSET D, s # {}, AllButPicked(s) \in Q
        PROVE  s \in Q
    BY <1>2, <1>7, <2>2 DEF Sums, AllButPicked
  <2>3. SUBSET D \subseteq Q
    <3> HIDE DEF Q
    <3> QED BY <2>1, <2>2, SubsetInduction
  <2> QED BY <2>3
<1> QED BY <1>1, <1>2, <1>8

(* Sums of natural numbers are natural numbers.                            *)
LEMMA TotalNat ==
  ASSUME NEW D, IsFiniteSet(D), NEW t \in [D -> Nat]
  PROVE  Total(t) \in Nat
<1>1. t \in [D -> Int]
  OBVIOUS
<1>2. PICK g : Sums(g, t, D) /\ Total(t) = g[D]
  BY <1>1, TotalUnfolds
<1> DEFINE Q == {s \in SUBSET D : g[s] \in Nat}
<1>3. {} \in Q
  BY <1>2 DEF Sums
<1>4. ASSUME NEW s \in SUBSET D, s # {}, AllButPicked(s) \in Q
      PROVE  s \in Q
  <2>1. Picked(s) \in D
    BY <1>4 DEF Picked
  <2> QED BY <1>2, <1>4, <2>1 DEF Sums
<1>5. SUBSET D \subseteq Q
  <2> HIDE DEF Q
  <2> QED BY <1>3, <1>4, SubsetInduction
<1> QED BY <1>2, <1>5

(* Adding entry by entry adds the sums.                                    *)
LEMMA TotalAdds ==
  ASSUME NEW D, IsFiniteSet(D), NEW a \in [D -> Int], NEW b \in [D -> Int],
         NEW c \in [D -> Int], \A i \in D : c[i] = a[i] + b[i]
  PROVE  Total(c) = Total(a) + Total(b)
<1>1. PICK f : Sums(f, a, D) /\ Total(a) = f[D]
  BY TotalUnfolds
<1>2. PICK g : Sums(g, b, D) /\ Total(b) = g[D]
  BY TotalUnfolds
<1>3. PICK h : Sums(h, c, D) /\ Total(c) = h[D]
  BY TotalUnfolds
<1> DEFINE Q == {s \in SUBSET D : h[s] = f[s] + g[s]}
<1>4. {} \in Q
  <2>1. f[{}] = 0 /\ g[{}] = 0 /\ h[{}] = 0
    BY <1>1, <1>2, <1>3 DEF Sums
  <2> QED BY <2>1
<1>5. ASSUME NEW s \in SUBSET D, s # {}, AllButPicked(s) \in Q
      PROVE  s \in Q
  <2>1. Picked(s) \in D
    BY <1>5 DEF Picked
  <2>2. f[AllButPicked(s)] \in Int /\ g[AllButPicked(s)] \in Int
    BY <1>1, <1>2, <1>5 DEF Sums
  <2>3. a[Picked(s)] \in Int /\ b[Picked(s)] \in Int
    BY <2>1
  <2>4. /\ f[s] = a[Picked(s)] + f[AllButPicked(s)]
        /\ g[s] = b[Picked(s)] + g[AllButPicked(s)]
        /\ h[s] = c[Picked(s)] + h[AllButPicked(s)]
    BY <1>1, <1>2, <1>3, <1>5 DEF Sums
  <2> QED BY <1>5, <2>1, <2>2, <2>3, <2>4
<1>6. SUBSET D \subseteq Q
  <2> HIDE DEF Q
  <2> QED BY <1>4, <1>5, SubsetInduction
<1> QED BY <1>1, <1>2, <1>3, <1>6

(* A vector that is 1 at one place and 0 elsewhere adds up to 1.           *)
LEMMA TotalOneHot ==
  ASSUME NEW D, IsFiniteSet(D), NEW place \in D, NEW t,
         t = [i \in D |-> IF i = place THEN 1 ELSE 0]
  PROVE  Total(t) = 1
<1>1. t \in [D -> Int]
  OBVIOUS
<1>2. PICK g : Sums(g, t, D) /\ Total(t) = g[D]
  BY <1>1, TotalUnfolds
<1> DEFINE Q == {s \in SUBSET D : g[s] = IF place \in s THEN 1 ELSE 0}
<1>3. {} \in Q
  BY <1>2 DEF Sums
<1>4. ASSUME NEW s \in SUBSET D, s # {}, AllButPicked(s) \in Q
      PROVE  s \in Q
  <2>1. Picked(s) \in s
    BY <1>4 DEF Picked
  <2>2. place \in AllButPicked(s) <=> place \in s /\ Picked(s) # place
    BY DEF AllButPicked
  <2>3. g[s] = t[Picked(s)] + g[AllButPicked(s)]
    BY <1>2, <1>4 DEF Sums
  <2> QED BY <1>4, <2>1, <2>2, <2>3
<1>5. SUBSET D \subseteq Q
  <2> HIDE DEF Q
  <2> QED BY <1>3, <1>4, SubsetInduction
<1> QED BY <1>2, <1>5

-----------------------------------------------------------------------------
(* Folds from the left, position by position                               *)

\* g[T] is what a fold from the left by add has reached when T are the
\* positions it has behind it.
FoldsLeft(g, V, base, s, add) ==
  /\ g \in [SUBSET DOMAIN s -> V]
  /\ \A T \in SUBSET DOMAIN s :
       g[T] = IF T = {} THEN base
              ELSE add[g[T \ {Max(T)}]][s[Max(T)]]

\* The largest of some positions is one of them; of the first k it is k.
LEMMA LargestPosition ==
  ASSUME NEW V, NEW s \in Seq(V)
  PROVE  /\ \A T \in SUBSET DOMAIN s : T # {} => Max(T) \in T
         /\ \A k \in 1..Len(s) : Max(1..k) = k /\ (1..k) \ {k} = 1..(k - 1)
<1>1. ASSUME NEW T \in SUBSET DOMAIN s, T # {} PROVE Max(T) \in T
  <2>1. \E i \in T : \A j \in T : j <= i
    BY <1>1, LastPosition
  <2>2. \A i, j \in T : i \in Nat /\ j \in Nat /\ (j <= i <=> i >= j)
    OBVIOUS
  <2>3. QED
    BY <2>1, <2>2 DEF Max
<1>2. ASSUME NEW k \in 1..Len(s) PROVE Max(1..k) = k
  <2>1. k \in 1..k /\ \A y \in 1..k : k >= y
    OBVIOUS
  <2>2. \A x \in 1..k : (\A y \in 1..k : x >= y) => x = k
    OBVIOUS
  <2>3. QED
    BY <2>1, <2>2 DEF Max
<1>3. \A k \in 1..Len(s) : (1..k) \ {k} = 1..(k - 1)
  OBVIOUS
<1>4. QED
  BY <1>1, <1>2, <1>3

\* A fold is well defined, by recursion on the number of positions.
LEMMA LeftRecursion ==
  ASSUME NEW V, NEW base \in V, NEW s \in Seq(V), NEW add \in [V -> [V -> V]]
  PROVE  \E g : FoldsLeft(g, V, base, s, add)
<1> DEFINE D == DOMAIN s
           Small(n) == {T \in SUBSET D : Cardinality(T) <= n}
           Step(g, T) == IF T = {} THEN base
                         ELSE add[g[T \ {Max(T)}]][s[Max(T)]]
           Q == {n \in Nat : \E g \in [Small(n) -> V] :
                                \A T \in Small(n) : g[T] = Step(g, T)}
<1>1. IsFiniteSet(D) /\ D = 1..Len(s) /\ Len(s) \in Nat
  <2>1. D = 1..Len(s) /\ Len(s) \in Nat
    OBVIOUS
  <2>2. QED
    BY <2>1, FS_Interval
<1>2. \A T \in SUBSET D :
        /\ Cardinality(T) \in Nat /\ Cardinality(T) <= Cardinality(D)
        /\ Cardinality(T) = 0 <=> T = {}
        /\ T # {} => /\ Cardinality(T \ {Max(T)}) = Cardinality(T) - 1
                     /\ s[Max(T)] \in V
  <2> TAKE T \in SUBSET D
  <2>1. IsFiniteSet(T) /\ Cardinality(T) <= Cardinality(D)
    BY <1>1, FS_Subset
  <2>2. Cardinality(T) \in Nat /\ (Cardinality(T) = 0 <=> T = {})
    BY <2>1, FS_EmptySet, FS_CardinalityType
  <2>3. ASSUME T # {}
        PROVE  /\ Cardinality(T \ {Max(T)}) = Cardinality(T) - 1
               /\ s[Max(T)] \in V
    <3>1. Max(T) \in T
      BY <2>3, LargestPosition
    <3>2. PICK m \in T : m = Max(T)
      BY <3>1
    <3>3. Cardinality(T \ {m}) = Cardinality(T) - 1
      BY <2>1, FS_RemoveElement
    <3>4. s[m] \in V
      OBVIOUS
    <3>5. QED
      BY <3>2, <3>3, <3>4
  <2>4. QED
    BY <2>1, <2>2, <2>3
<1>3. \A T \in SUBSET D :
        /\ Cardinality(T) \in Nat /\ Cardinality(T) <= Cardinality(D)
        /\ Cardinality(T) = 0 <=> T = {}
  BY <1>2
<1>4. \A T \in SUBSET D :
         T # {} => /\ Cardinality(T \ {Max(T)}) = Cardinality(T) - 1
                   /\ T \ {Max(T)} \in SUBSET D
  BY <1>2
<1>5. \A T \in SUBSET D : T # {} => s[Max(T)] \in V
  BY <1>2
<1> HIDE DEF D
<1>6. \A x, y \in V : add[x][y] \in V
  OBVIOUS
<1>7. 0 \in Q
  <2>1. \A T \in Small(0) : T = {}
    BY <1>3
  <2> DEFINE h == [T \in Small(0) |-> base]
  <2>2. h \in [Small(0) -> V]
    OBVIOUS
  <2>3. \A T \in Small(0) : h[T] = Step(h, T)
    BY <2>1
  <2> HIDE DEF Small, Step, h
  <2>4. QED
    BY <2>2, <2>3
<1>8. ASSUME NEW n \in Nat, n \in Q PROVE n + 1 \in Q
  <2>1. PICK g \in [Small(n) -> V] : \A T \in Small(n) : g[T] = Step(g, T)
    BY <1>8
  <2> DEFINE h == [T \in Small(n + 1) |-> Step(g, T)]
  <2>2. \A T \in Small(n + 1) : T # {} => T \ {Max(T)} \in Small(n)
    BY <1>3, <1>4
  <2>3. Small(n) \subseteq Small(n + 1) /\ Small(n + 1) \subseteq SUBSET D
    BY <1>3
  <2> HIDE DEF Small
  <2>4. h \in [Small(n + 1) -> V]
    <3>1. ASSUME NEW T \in Small(n + 1), T # {}
          PROVE  s[Max(T)] \in V /\ g[T \ {Max(T)}] \in V
      BY <1>5, <2>2, <2>3, <3>1
    <3>2. \A T \in Small(n + 1) : Step(g, T) \in V
      BY <1>6, <3>1
    <3> HIDE DEF Step
    <3>3. QED
      BY <3>2
  <2>5. \A T \in Small(n) : h[T] = g[T]
    BY <2>1, <2>3
  <2>6. \A T \in Small(n + 1) : h[T] = Step(h, T)
    BY <2>2, <2>5
  <2> HIDE DEF h, Step
  <2>7. QED
    BY <2>4, <2>6
<1>9. Cardinality(D) \in Q
  <2> HIDE DEF Q
  <2>1. QED
    BY <1>1, <1>7, <1>8, SetInduction, FS_CardinalityType
<1>10. Small(Cardinality(D)) = SUBSET D
  BY <1>2
<1> HIDE DEF Small
<1>11. PICK g \in [SUBSET D -> V] : \A T \in SUBSET D : g[T] = Step(g, T)
  BY <1>9, <1>10
<1>12. FoldsLeft(g, V, base, s, add)
  BY <1>11 DEF FoldsLeft, D
<1>13. QED
  BY <1>12

\* f[k] is what a fold from the left by add has reached after k elements.
Reaches(f, V, base, s, add) ==
  /\ f \in [0..Len(s) -> V]
  /\ f[0] = base
  /\ \A k \in 1..Len(s) : f[k] = add[f[k - 1]][s[k]]

FoldEquations(iter, base, s, add) ==
  \A T \in SUBSET DOMAIN s :
    iter[T] = IF T = {} THEN base
              ELSE add[iter[T \ {Max(T)}]][s[Max(T)]]

LEMMA LeftSteps ==
  ASSUME NEW V, NEW base \in V, NEW s \in Seq(V), NEW add, NEW iter,
         \A x, y \in V : add[x][y] \in V,
         FoldEquations(iter, base, s, add)
  PROVE  \E f : Reaches(f, V, base, s, add) /\ f[Len(s)] = iter[DOMAIN s]
<1> DEFINE f == [k \in 0..Len(s) |-> iter[1..k]]
<1>1. /\ DOMAIN s = 1..Len(s) /\ Len(s) \in Nat
      /\ \A i \in 1..Len(s) : s[i] \in V
  OBVIOUS
<1>2. f[0] = base
  <2>1. iter[{}] = base
    BY DEF FoldEquations
  <2>2. 1..0 = {} /\ 0 \in 0..Len(s)
    BY <1>1
  <2>3. f[0] = iter[1..0]
    BY <2>2
  <2>4. QED
    BY <2>1, <2>2, <2>3
<1>3. \A k \in 1..Len(s) : f[k] = add[f[k - 1]][s[k]]
  <2> TAKE k \in 1..Len(s)
  <2>1. 1..k \in SUBSET DOMAIN s /\ 1..k # {} /\ k - 1 \in 0..Len(s)
    <3>1. k \in 1..k /\ k - 1 \in 0..Len(s)
      BY <1>1
    <3>2. 1..k \subseteq 1..Len(s)
      BY <1>1
    <3>3. QED
      BY <1>1, <3>1, <3>2
  <2>2. Max(1..k) = k /\ (1..k) \ {k} = 1..(k - 1)
    BY LargestPosition
  <2>3. iter[1..k] = add[iter[1..(k - 1)]][s[k]]
    BY <2>1, <2>2 DEF FoldEquations
  <2>4. QED
    BY <2>1, <2>3
<1>4. f \in [0..Len(s) -> V]
  <2> DEFINE Q == {k \in Nat : k <= Len(s) => f[k] \in V}
  <2> HIDE DEF f
  <2>1. 0 \in Q
    BY <1>2
  <2>2. ASSUME NEW k \in Nat, k \in Q PROVE k + 1 \in Q
    <3>1. CASE k + 1 <= Len(s)
      <4>1. k + 1 \in 1..Len(s) /\ (k + 1) - 1 = k /\ f[k] \in V
        BY <1>1, <2>2, <3>1
      <4>2. f[k + 1] = add[f[k]][s[k + 1]] /\ s[k + 1] \in V
        BY <1>1, <1>3, <4>1
      <4>3. QED
        BY <4>1, <4>2
    <3>2. CASE ~(k + 1 <= Len(s))
      BY <3>2
    <3>3. QED
      BY <3>1, <3>2
  <2>3. Nat \subseteq Q
    <3> HIDE DEF Q
    <3>1. QED
      BY <2>1, <2>2, SetInduction
  <2>4. \A k \in 0..Len(s) : f[k] \in V
    BY <1>1, <2>3
  <2>5. f = [k \in 0..Len(s) |-> f[k]]
    BY DEF f
  <2>6. QED
    BY <2>4, <2>5
<1>5. f[Len(s)] = iter[DOMAIN s]
  BY <1>1
<1> HIDE DEF f
<1>6. Reaches(f, V, base, s, add) /\ f[Len(s)] = iter[DOMAIN s]
  BY <1>2, <1>3, <1>4, <1>5 DEF Reaches
<1>7. QED
  BY <1>6

-----------------------------------------------------------------------------
(* Powers of two, as numbers of subsets                                    *)

LEMMA PowersOfTwo ==
  /\ 2^0 = 1
  /\ \A n \in Nat : 2^n \in Nat \ {0} /\ 2^(n + 1) = 2^n + 2^n
<1>1. \A n \in Nat : /\ IsFiniteSet(1..n) /\ Cardinality(1..n) = n
                     /\ IsFiniteSet(SUBSET (1..n))
                     /\ Cardinality(SUBSET (1..n)) = 2^n
                     /\ 2^n \in Nat
  <2> TAKE n \in Nat
  <2>1. IsFiniteSet(1..n) /\ Cardinality(1..n) = n
    BY FS_Interval
  <2>2. /\ IsFiniteSet(SUBSET (1..n))
        /\ Cardinality(SUBSET (1..n)) = 2^Cardinality(1..n)
    BY <2>1, FS_SUBSET
  <2>3. Cardinality(SUBSET (1..n)) \in Nat
    BY <2>2, FS_CardinalityType
  <2> QED BY <2>1, <2>2, <2>3
<1>2. 2^0 = 1
  <2>1. SUBSET (1..0) = {{}}
    OBVIOUS
  <2>2. Cardinality({{}}) = 1
    BY FS_Singleton
  <2>3. Cardinality(SUBSET (1..0)) = 2^0
    BY <1>1
  <2> QED BY <2>1, <2>2, <2>3
<1>3. ASSUME NEW n \in Nat PROVE 2^(n + 1) = 2^n + 2^n
  <2> DEFINE A == 1..n
             x == n + 1
             B == SUBSET A
             C == {s \in SUBSET (1..(n + 1)) : x \in s}
             f == [s \in B |-> s \cup {x}]
  <2>1. 1..(n + 1) = A \cup {x} /\ x \notin A
    OBVIOUS
  <2> HIDE DEF A, x
  <2>2. SUBSET (1..(n + 1)) = B \cup C /\ B \cap C = {}
    BY <2>1
  <2>3. f \in Bijection(B, C)
    <3>1. f \in [B -> C]
      BY <2>1
    <3>2. \A s, t \in B : f[s] = f[t] => s = t
      BY <2>1
    <3>3. \A s \in C : s \ {x} \in B /\ f[s \ {x}] = s
      BY <2>1
    <3> QED BY <3>1, <3>2, <3>3
            DEF Bijection, Injection, Surjection, IsInjective
  <2>4. IsFiniteSet(B) /\ Cardinality(B) = 2^n /\ 2^n \in Nat
    BY <1>1 DEF A
  <2>5. IsFiniteSet(C) /\ Cardinality(C) = Cardinality(B)
    BY <2>3, <2>4, FS_Bijection DEF ExistsBijection
  <2> HIDE DEF B, C
  <2>6. Cardinality(B \cup C) =
          Cardinality(B) + Cardinality(C) - Cardinality(B \cap C)
    BY <2>4, <2>5, FS_Union
  <2>7. Cardinality({}) = 0
    BY FS_EmptySet
  <2>8. Cardinality(SUBSET (1..(n + 1))) = 2^(n + 1)
    BY <1>1
  <2>9. Cardinality(B \cup C) = 2^(n + 1)
    BY <2>2, <2>8
  <2>10. Cardinality(B \cap C) = 0
    BY <2>2, <2>7
  <2>11. Cardinality(B \cup C) = Cardinality(B) + Cardinality(B)
    BY <2>4, <2>5, <2>6, <2>10
  <2> QED BY <2>4, <2>9, <2>11
<1>4. \A n \in Nat : 2^n # 0
  <2> TAKE n \in Nat
  <2>1. SUBSET (1..n) # {}
    OBVIOUS
  <2> QED BY <1>1, <2>1, FS_EmptySet
<1> QED BY <1>1, <1>2, <1>3, <1>4
=============================================================================
