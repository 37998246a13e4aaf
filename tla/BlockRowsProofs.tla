--------------------------- MODULE BlockRowsProofs ---------------------------
(***************************************************************************)
(* Proofs about BlockRows, for any blocks, any limits of a statement that  *)
(* leave room for a row, any size of a partition, any number of runs.      *)
(***************************************************************************)
EXTENDS BlockRows, WellFoundedInduction, NaturalsInduction, SequenceTheorems,
        FiniteSetTheorems, TLAPS

------------------------------------------------------------------------------
(* Numbers and sequences.                                                  *)
LEMMA HasLeast ==
  ASSUME NEW S \in SUBSET Nat, S # {}
  PROVE  \E m \in S : \A k \in S : m <= k
<1> DEFINE R == OpToRel(<, Nat)
<1>1. IsWellFoundedOn(R, Nat)
  BY NatLessThanWellFounded
<1>2. PICK x \in S : \A y \in S : ~ (<<y, x>> \in R)
  <2> HIDE DEF R
  <2>1. QED
    BY <1>1, WFMin
<1>3. \A y \in S : ~(y < x)
  BY <1>2 DEF OpToRel
<1>4. QED
  BY <1>3

LEMMA HasGreatest ==
  ASSUME NEW n \in Nat, NEW S \in SUBSET (0..n), S # {}
  PROVE  \E m \in S : \A k \in S : m >= k
<1> DEFINE D == {n - k : k \in S}
<1>1. D \in SUBSET Nat /\ D # {}
  <2>1. \A k \in S : n - k \in Nat
    OBVIOUS
  <2>2. QED
    BY <2>1
<1>2. PICK d \in D : \A e \in D : d <= e
  <2> HIDE DEF D
  <2>1. QED
    BY <1>1, HasLeast
<1>3. PICK m \in S : d = n - m
  BY <1>2
<1>4. \A k \in S : n - m <= n - k
  BY <1>2, <1>3
<1>5. QED
  BY <1>4

(* Induction over the numbers up to n, for the members of a set.           *)
LEMMA UpTo ==
  ASSUME NEW n \in Nat, NEW P, 0 \in P,
         \A i \in 1..n : i - 1 \in P => i \in P
  PROVE  \A i \in 0..n : i \in P
<1> SUFFICES ASSUME (0..n) \ P # {} PROVE FALSE
  OBVIOUS
<1> DEFINE B == (0..n) \ P
<1>1. B \in SUBSET Nat /\ B # {}
  OBVIOUS
<1>2. PICK m \in B : \A k \in B : m <= k
  <2> HIDE DEF B
  <2>1. QED
    BY <1>1, HasLeast
<1>3. m \in 1..n
  BY <1>2
<1>4. m - 1 \in P
  <2>1. m - 1 \in 0..n /\ ~(m <= m - 1)
    BY <1>3
  <2>2. QED
    BY <2>1, <1>2
<1>5. QED
  BY <1>2, <1>3, <1>4

(* What a function may be defined to be, step by step.                     *)
Folded(f, n, start, step) ==
  f[0] = start /\ \A i \in 1..n : f[i] = step[i][f[i - 1]]

LEMMA FoldExists ==
  ASSUME NEW X, NEW start \in X, NEW n \in Nat, NEW step \in [1..n -> [X -> X]]
  PROVE  \E f \in [0..n -> X] : Folded(f, n, start, step)
<1> DEFINE P == {k \in 0..n : \E f \in [0..k -> X] : Folded(f, k, start, step)}
<1>1. 0 \in P
  <2>1. [i \in 0..0 |-> start] \in [0..0 -> X]
    OBVIOUS
  <2>2. Folded([i \in 0..0 |-> start], 0, start, step)
    BY DEF Folded
  <2>3. QED
    BY <2>1, <2>2
<1>2. ASSUME NEW k \in 1..n, k - 1 \in P
      PROVE  k \in P
  <2>1. PICK f \in [0..(k - 1) -> X] : Folded(f, k - 1, start, step)
    BY <1>2
  <2> DEFINE g == [i \in 0..k |-> IF i = k THEN step[k][f[k - 1]] ELSE f[i]]
  <2>2. f[k - 1] \in X /\ step[k] \in [X -> X]
    BY <2>1
  <2>3. step[k][f[k - 1]] \in X
    BY <2>2
  <2>4. \A i \in 0..k : i # k => i \in 0..(k - 1)
    OBVIOUS
  <2>5. g \in [0..k -> X]
    BY <2>1, <2>3, <2>4
  <2>6. g[0] = start
    BY <2>1 DEF Folded
  <2>7. ASSUME NEW i \in 1..k PROVE g[i] = step[i][g[i - 1]]
    <3>1. i - 1 \in 0..k /\ i - 1 # k /\ g[i - 1] = f[i - 1]
      OBVIOUS
    <3>2. CASE i = k
      BY <3>1, <3>2
    <3>3. CASE i # k
      <4>1. i \in 1..(k - 1) /\ g[i] = f[i]
        BY <3>3
      <4>2. QED
        BY <4>1, <3>1, <2>1 DEF Folded
    <3>4. QED
      BY <3>2, <3>3
  <2> HIDE DEF g
  <2>8. Folded(g, k, start, step)
    BY <2>6, <2>7 DEF Folded
  <2>9. QED
    BY <2>5, <2>8
<1> HIDE DEF P
<1>3. \A i \in 1..n : i - 1 \in P => i \in P
  BY <1>2
<1>4. \A i \in 0..n : i \in P
  BY <1>1, <1>3, UpTo
<1>5. n \in P
  BY <1>4
<1>6. QED
  BY <1>5 DEF P

LEMMA SequenceIsFunction ==
  ASSUME NEW s, IsSequence(s)
  PROVE  /\ s \in Seq(Range(s)) /\ Len(s) \in Nat /\ DOMAIN s = 1..Len(s)
         /\ s \in [1..Len(s) -> Range(s)]
         /\ \A i \in 1..Len(s) : s[i] \in Range(s)
         /\ \A r \in Range(s) : \E i \in 1..Len(s) : r = s[i]
<1>1. s \in Seq(Range(s))
  BY DEF IsSequence
<1>2. Len(s) \in Nat /\ DOMAIN s = 1..Len(s) /\ s \in [1..Len(s) -> Range(s)]
  BY <1>1, LenProperties
<1>3. QED
  BY <1>1, <1>2 DEF Range

LEMMA IsSequenceOf ==
  ASSUME NEW T, NEW s \in Seq(T)
  PROVE  IsSequence(s) /\ Range(s) \subseteq T
<1>1. Len(s) \in Nat /\ s \in [1..Len(s) -> T] /\ DOMAIN s = 1..Len(s)
  BY LenProperties
<1>2. Range(s) \subseteq T /\ s \in [1..Len(s) -> Range(s)]
  BY <1>1 DEF Range
<1>3. s \in Seq(Range(s))
  <2> DEFINE R == Range(s)
  <2>1. s \in [1..Len(s) -> R] /\ Len(s) \in Nat
    BY <1>1, <1>2
  <2> HIDE DEF R
  <2>2. s \in Seq(R)
    BY <2>1, SeqDef
  <2>3. QED
    BY <2>2 DEF R
<1>4. QED
  BY <1>2, <1>3 DEF IsSequence

LEMMA FunctionIsSequence ==
  ASSUME NEW n \in Nat, NEW T, NEW s \in [1..n -> T]
  PROVE  /\ s \in Seq(T) /\ IsSequence(s) /\ Len(s) = n /\ DOMAIN s = 1..n
         /\ Range(s) = {s[i] : i \in 1..n}
<1>1. s \in Seq(T)
  BY SeqDef
<1>2. DOMAIN s = 1..n /\ Len(s) = n
  BY <1>1, LenProperties
<1>3. IsSequence(s)
  BY <1>1, IsSequenceOf
<1>4. Range(s) = {s[i] : i \in 1..n}
  BY <1>2 DEF Range
<1>5. QED
  BY <1>1, <1>2, <1>3, <1>4

------------------------------------------------------------------------------
(* filter() and the concatenation of many sequences.                       *)
KeptStep(s, S, before, i) == IF s[i] \in S THEN Append(before, s[i]) ELSE before
KeptUpTo(f, s, S, T) ==
  /\ f \in [0..Len(s) -> Seq(T)]
  /\ f[0] = << >> /\ Kept(s, S) = f[Len(s)]
  /\ \A i \in 1..Len(s) : f[i] = KeptStep(s, S, f[i - 1], i)

LEMMA KeptSteps ==
  ASSUME NEW T, NEW s \in Seq(T), NEW S
  PROVE  \E f : KeptUpTo(f, s, S, T)
<1> DEFINE n == Len(s)
           Is(f) == f = [i \in 0..n |-> IF i = 0 THEN << >>
                                        ELSE IF s[i] \in S THEN Append(f[i - 1], s[i])
                                             ELSE f[i - 1]]
           kept == CHOOSE f : Is(f)
           step == [i \in 1..n |-> [q \in Seq(T) |-> KeptStep(s, S, q, i)]]
<1>1. n \in Nat /\ s \in [1..n -> T]
  BY LenProperties
<1>2. << >> \in Seq(T)
  BY EmptySeq
<1>3. ASSUME NEW i \in 1..n, NEW q \in Seq(T)
      PROVE  KeptStep(s, S, q, i) \in Seq(T)
  <2>1. s[i] \in T
    BY <1>1
  <2>2. Append(q, s[i]) \in Seq(T)
    BY <2>1, AppendProperties
  <2>3. QED
    BY <2>2 DEF KeptStep
<1>4. step \in [1..n -> [Seq(T) -> Seq(T)]]
  BY <1>3
<1>5. PICK g \in [0..n -> Seq(T)] : Folded(g, n, << >>, step)
  <2> HIDE DEF n, step
  <2>1. QED
    BY <1>1, <1>2, <1>4, FoldExists
<1>6. \A i \in 1..n : g[i] = KeptStep(s, S, g[i - 1], i)
  <2> SUFFICES ASSUME NEW i \in 1..n PROVE g[i] = KeptStep(s, S, g[i - 1], i)
    OBVIOUS
  <2>1. g[i] = step[i][g[i - 1]] /\ i - 1 \in 0..n
    BY <1>1, <1>5 DEF Folded
  <2>2. g[i - 1] \in Seq(T)
    BY <1>5, <2>1
  <2>3. QED
    BY <2>1, <2>2
<1>7. Is(g)
  <2>1. g[0] = << >> /\ \A i \in 0..n : i # 0 => i \in 1..n
    BY <1>1, <1>5 DEF Folded
  <2>2. \A i \in 0..n : g[i] = IF i = 0 THEN << >>
                                 ELSE IF s[i] \in S THEN Append(g[i - 1], s[i])
                                      ELSE g[i - 1]
    BY <1>6, <2>1 DEF KeptStep
  <2> HIDE DEF n
  <2>3. QED
    BY <1>5, <2>2
<1>8. Is(kept)
  <2> HIDE DEF Is
  <2>1. \E f : Is(f)
    BY <1>7
  <2>2. QED
    BY <2>1
<1>9. Kept(s, S) = kept[n]
  BY DEF Kept
<1> HIDE DEF kept, n, step
<1>10. kept = [i \in 0..n |-> kept[i]]
  BY <1>8
<1>11. 0 \in 0..n /\ \A i \in 1..n : i \in 0..n /\ i # 0
  BY <1>1
<1>12. /\ kept[0] = << >>
       /\ \A i \in 1..n : kept[i] = KeptStep(s, S, kept[i - 1], i)
  <2>3. \A i \in 0..n : kept[i] = IF i = 0 THEN << >>
                                    ELSE IF s[i] \in S THEN Append(kept[i - 1], s[i])
                                         ELSE kept[i - 1]
    BY <1>8
  <2>4. QED
    BY <1>11, <2>3 DEF KeptStep
<1>13. \A i \in 0..n : kept[i] \in Seq(T)
  <2> DEFINE P == {i \in 0..n : kept[i] \in Seq(T)}
  <2>1. 0 \in P
    <3>1. 0 \in 0..n /\ kept[0] \in Seq(T)
      BY <1>2, <1>11, <1>12
    <3>2. QED
      BY <3>1
  <2>2. ASSUME NEW i \in 1..n, i - 1 \in P PROVE i \in P
    <3>1. i \in 0..n /\ kept[i] = KeptStep(s, S, kept[i - 1], i)
      BY <1>11, <1>12
    <3>2. kept[i] \in Seq(T)
      BY <1>3, <2>2, <3>1
    <3>3. QED
      BY <3>1, <3>2
  <2> HIDE DEF P
  <2>3. \A i \in 0..n : i \in P
    BY <1>1, <2>1, <2>2, UpTo
  <2>4. QED
    BY <2>3 DEF P
<1>14. kept \in [0..n -> Seq(T)]
  BY <1>10, <1>13
<1>15. KeptUpTo(kept, s, S, T)
  BY <1>9, <1>12, <1>14 DEF n, KeptUpTo
<1>16. QED
  BY <1>15

(* Where the elements that were kept come from.                            *)
IsIndex(m, k, s, n, S) ==
  /\ m \in [1..Len(k) -> 1..n]
  /\ \A p \in 1..Len(k) : k[p] = s[m[p]] /\ k[p] \in S
  /\ \A p, q \in 1..Len(k) : p < q => m[p] < m[q]
  /\ \A j \in 1..n : s[j] \in S => \E p \in 1..Len(k) : m[p] = j

LEMMA KeptIndex ==
  ASSUME NEW T, NEW s \in Seq(T), NEW S
  PROVE  /\ Kept(s, S) \in Seq(T)
         /\ \E m : IsIndex(m, Kept(s, S), s, Len(s), S)
<1>1. PICK f : KeptUpTo(f, s, S, T)
  BY KeptSteps
<1>2. /\ f \in [0..Len(s) -> Seq(T)]
      /\ f[0] = << >> /\ Kept(s, S) = f[Len(s)]
      /\ \A i \in 1..Len(s) : f[i] = KeptStep(s, S, f[i - 1], i)
  BY <1>1 DEF KeptUpTo
<1>3. Len(s) \in Nat
  BY LenProperties
<1> DEFINE n == Len(s)
           P == {i \in 0..n : \E m : IsIndex(m, f[i], s, i, S)}
<1>4. 0 \in P
  <2>1. Len(f[0]) = 0
    BY <1>2, EmptySeq
  <2>2. IsIndex([i \in 1..0 |-> 0], f[0], s, 0, S)
    BY <2>1 DEF IsIndex
  <2>3. QED
    BY <1>3, <2>2
<1>5. ASSUME NEW i \in 1..n, i - 1 \in P PROVE i \in P
  <2>1. PICK m : IsIndex(m, f[i - 1], s, i - 1, S)
    BY <1>5
  <2> DEFINE k == f[i - 1]
             l == Len(k)
  <2>2. k \in Seq(T) /\ l \in Nat
    BY <1>2, <1>3, LenProperties
  <2>3. f[i] = KeptStep(s, S, k, i)
    BY <1>2
  <2>4. CASE s[i] \notin S
    <3>1. f[i] = k
      BY <2>3, <2>4 DEF KeptStep
    <3>2. IsIndex(m, k, s, i, S)
      <4> HIDE DEF k
      <4>1. \A j \in 1..i : j # i => j \in 1..(i - 1)
        OBVIOUS
      <4>2. IsIndex(m, k, s, i - 1, S)
        BY <2>1 DEF k
      <4>3. m \in [1..Len(k) -> 1..i]
        BY <4>2 DEF IsIndex
      <4>4. QED
        BY <2>4, <4>1, <4>2, <4>3 DEF IsIndex
    <3>3. QED
      BY <3>1, <3>2
  <2>5. CASE s[i] \in S
    <3> DEFINE b == Append(k, s[i])
               o == [p \in 1..(l + 1) |-> IF p = l + 1 THEN i ELSE m[p]]
    <3>1. f[i] = b
      BY <2>3, <2>5 DEF KeptStep
    <3>2. /\ Len(b) = l + 1 /\ b[l + 1] = s[i]
          /\ \A p \in 1..l : b[p] = k[p]
      <4>1. s[i] \in T
        BY LenProperties
      <4> HIDE DEF k
      <4>2. QED
        BY <2>2, <4>1, AppendProperties
    <3>3. IsIndex(m, k, s, i - 1, S)
      BY <2>1
    <3>4. /\ m \in [1..l -> 1..(i - 1)]
          /\ \A p \in 1..l : k[p] = s[m[p]] /\ k[p] \in S
          /\ \A p, q \in 1..l : p < q => m[p] < m[q]
          /\ \A j \in 1..(i - 1) : s[j] \in S => \E p \in 1..l : m[p] = j
      BY <3>3 DEF IsIndex
    <3> HIDE DEF b, k, l
    <3>5. /\ \A p \in 1..l : p \in 1..(l + 1) /\ o[p] = m[p] /\ o[p] \in 1..(i - 1)
          /\ l + 1 \in 1..(l + 1) /\ o[l + 1] = i
          /\ \A p \in 1..(l + 1) : p # l + 1 => p \in 1..l
      BY <2>2, <3>4
    <3> HIDE DEF o
    <3>6. o \in [1..(l + 1) -> 1..i]
      <4>1. \A p \in 1..(l + 1) : o[p] \in 1..i
        BY <3>5
      <4>2. QED
        BY <4>1 DEF o
    <3>7. \A p \in 1..(l + 1) : b[p] = s[o[p]] /\ b[p] \in S
      BY <2>5, <3>2, <3>4, <3>5
    <3>8. ASSUME NEW p \in 1..(l + 1), NEW q \in 1..(l + 1), p < q
          PROVE  o[p] < o[q]
      <4>1. p # l + 1
        BY <2>2, <3>8
      <4>2. CASE q = l + 1
        BY <3>5, <4>1, <4>2
      <4>3. CASE q # l + 1
        BY <3>4, <3>5, <3>8, <4>1, <4>3
      <4>4. QED
        BY <4>2, <4>3
    <3>9. ASSUME NEW j \in 1..i, s[j] \in S
          PROVE  \E p \in 1..(l + 1) : o[p] = j
      <4>1. CASE j = i
        BY <3>5, <4>1
      <4>2. CASE j # i
        <5>1. j \in 1..(i - 1)
          BY <4>2
        <5>2. QED
          BY <3>4, <3>5, <3>9, <5>1
      <4>3. QED
        BY <4>1, <4>2
    <3>10. IsIndex(o, b, s, i, S)
      BY <3>2, <3>6, <3>7, <3>8, <3>9 DEF IsIndex
    <3>11. QED
      BY <3>1, <3>10
  <2>6. QED
    BY <2>4, <2>5
<1> HIDE DEF P
<1>6. \A i \in 1..n : i - 1 \in P => i \in P
  BY <1>5
<1>7. n \in P
  <2>1. \A i \in 0..n : i \in P
    BY <1>3, <1>4, <1>6, UpTo
  <2>2. QED
    BY <1>3, <2>1
<1>8. QED
  BY <1>2, <1>3, <1>7 DEF P

(* FlattenSeq adds the parts one after the other.                          *)
FlattenedBy(f, s, n) ==
  /\ FlattenSeq(s) = f[n]
  /\ \A i \in 1..n : f[i] = IF i = 1 THEN s[i] ELSE f[i - 1] \o s[i]

LEMMA FlattenSteps ==
  ASSUME NEW T, NEW n \in Nat \ {0}, NEW s \in [1..n -> Seq(T)]
  PROVE  \E f : FlattenedBy(f, s, n) /\ \A i \in 1..n : f[i] \in Seq(T)
<1>1. s \in Seq(Seq(T)) /\ Len(s) = n
  BY FunctionIsSequence
<1> DEFINE Is(f) == f = [i \in 1..n |-> IF i = 1 THEN s[i] ELSE f[i - 1] \o s[i]]
           flatten == CHOOSE f : Is(f)
           step == [i \in 1..n |-> [q \in Seq(T) |-> q \o s[i]]]
<1>2. FlattenSeq(s) = flatten[n]
  BY <1>1 DEF FlattenSeq
<1>3. \A i \in 1..n, q \in Seq(T) : q \o s[i] \in Seq(T)
  BY ConcatProperties
<1>4. step \in [1..n -> [Seq(T) -> Seq(T)]]
  BY <1>3
<1>5. PICK g \in [0..n -> Seq(T)] : Folded(g, n, << >>, step)
  <2>1. << >> \in Seq(T)
    BY EmptySeq
  <2> HIDE DEF step
  <2>2. QED
    BY <1>4, <2>1, FoldExists
<1>6. g[0] = << >> /\ \A i \in 1..n : i - 1 \in 0..n
  BY <1>5 DEF Folded
<1>7. ASSUME NEW i \in 1..n PROVE g[i] = g[i - 1] \o s[i]
  <2>1. g[i] = step[i][g[i - 1]]
    BY <1>5 DEF Folded
  <2>2. g[i - 1] \in Seq(T)
    BY <1>5, <1>6
  <2>3. QED
    BY <2>1, <2>2
<1> DEFINE f == [i \in 1..n |-> g[i]]
<1>8. \A i \in 1..n : f[i] = IF i = 1 THEN s[i] ELSE f[i - 1] \o s[i]
  <2>1. ASSUME NEW i \in 1..n PROVE f[i] = IF i = 1 THEN s[i] ELSE f[i - 1] \o s[i]
    <3>1. CASE i = 1
      <4>1. i - 1 = 0 /\ s[i] \in Seq(T)
        BY <3>1
      <4>2. g[i] = g[i - 1] \o s[i]
        BY <1>7
      <4>3. g[i] = << >> \o s[i]
        BY <1>6, <4>1, <4>2
      <4>4. << >> \o s[i] = s[i]
        BY <4>1, ConcatEmptySeq
      <4>5. QED
        BY <3>1, <4>3, <4>4
    <3>2. CASE i # 1
      <4>1. i - 1 \in 1..n
        BY <3>2
      <4>2. QED
        BY <1>7, <3>2, <4>1
    <3>3. QED
      BY <3>1, <3>2
  <2>2. QED
    BY <2>1
<1>9. Is(f)
  BY <1>8
<1>10. Is(flatten)
  <2> HIDE DEF Is, f
  <2>1. QED
    BY <1>9
<1> HIDE DEF flatten
<1>11. \A i \in 1..n : flatten[i] = IF i = 1 THEN s[i] ELSE flatten[i - 1] \o s[i]
  BY <1>10
<1> HIDE DEF Is, f, step
<1> DEFINE P == {0} \union {i \in 1..n : flatten[i] \in Seq(T)}
<1>12. \A i \in 1..n : i - 1 \in P => i \in P
  <2>1. ASSUME NEW i \in 1..n, i - 1 \in P PROVE flatten[i] \in Seq(T)
    <3>1. CASE i = 1
      BY <1>11, <3>1
    <3>2. CASE i # 1
      <4>1. flatten[i - 1] \in Seq(T)
        BY <2>1, <3>2
      <4>2. flatten[i] = flatten[i - 1] \o s[i]
        BY <1>11, <3>2
      <4>3. QED
        BY <1>3, <4>1, <4>2
    <3>3. QED
      BY <3>1, <3>2
  <2>2. QED
    BY <2>1
<1>13. 0 \in P
  OBVIOUS
<1>14. \A i \in 1..n : flatten[i] \in Seq(T)
  <2> HIDE DEF P
  <2>1. \A i \in 0..n : i \in P
    BY <1>12, <1>13, UpTo
  <2>2. QED
    BY <2>1 DEF P
<1>15. QED
  BY <1>2, <1>11, <1>14 DEF FlattenedBy

LEMMA FlattenTypes ==
  ASSUME NEW T, NEW n \in Nat, NEW s \in [1..n -> Seq(T)]
  PROVE  FlattenSeq(s) \in Seq(T)
<1>1. CASE n = 0
  <2>1. s \in Seq(Seq(T)) /\ Len(s) = n
    BY FunctionIsSequence
  <2>2. s = << >>
    BY <1>1, <2>1, EmptySeq
  <2>3. FlattenSeq(s) = s
    BY <1>1, <2>1 DEF FlattenSeq
  <2>4. QED
    BY <2>2, <2>3, EmptySeq
<1>2. CASE n # 0
  <2>1. PICK f : FlattenedBy(f, s, n) /\ \A i \in 1..n : f[i] \in Seq(T)
    BY <1>2, FlattenSteps
  <2>2. QED
    BY <1>2, <2>1 DEF FlattenedBy
<1>3. QED
  BY <1>1, <1>2

(* Nothing of the parts is lost.                                           *)
LEMMA FlattenedParts ==
  ASSUME NEW T, NEW n \in Nat, NEW s \in [1..n -> Seq(T)], NEW i \in 1..n
  PROVE  Range(s[i]) \subseteq Range(FlattenSeq(s))
<1>1. PICK f : FlattenedBy(f, s, n) /\ \A k \in 1..n : f[k] \in Seq(T)
  BY FlattenSteps
<1>2. ASSUME NEW k \in 1..n
      PROVE  /\ Range(s[k]) \subseteq Range(f[k])
             /\ k # 1 => Range(f[k - 1]) \subseteq Range(f[k])
  <2>1. CASE k = 1
    BY <1>1, <2>1 DEF FlattenedBy
  <2>2. CASE k # 1
    <3>1. f[k] = f[k - 1] \o s[k] /\ f[k - 1] \in Seq(T) /\ s[k] \in Seq(T)
      <4>1. k - 1 \in 1..n
        BY <2>2
      <4>2. f[k] = f[k - 1] \o s[k]
        BY <1>1, <2>2 DEF FlattenedBy
      <4>3. QED
        BY <1>1, <4>1, <4>2
    <3>2. Range(f[k - 1] \o s[k]) = Range(f[k - 1]) \union Range(s[k])
      BY <3>1, RangeConcatenation
    <3>3. QED
      BY <3>1, <3>2
  <2>3. QED
    BY <2>1, <2>2
<1> DEFINE P == {k \in 0..n : k >= i => Range(s[i]) \subseteq Range(f[k])}
<1>3. 0 \in P
  OBVIOUS
<1>4. \A k \in 1..n : k - 1 \in P => k \in P
  <2>1. ASSUME NEW k \in 1..n, k - 1 \in P, k >= i
        PROVE  Range(s[i]) \subseteq Range(f[k])
    <3>1. CASE k = i
      BY <1>2, <3>1
    <3>2. CASE k # i
      <4>1. k # 1 /\ k - 1 >= i
        BY <2>1, <3>2
      <4>2. Range(s[i]) \subseteq Range(f[k - 1])
        BY <2>1, <4>1
      <4>3. QED
        BY <1>2, <4>1, <4>2
    <3>3. QED
      BY <3>1, <3>2
  <2>2. QED
    BY <2>1
<1>5. n \in P
  <2> HIDE DEF P
  <2>1. \A k \in 0..n : k \in P
    BY <1>3, <1>4, UpTo
  <2>2. QED
    BY <2>1
<1>6. QED
  BY <1>1, <1>5 DEF FlattenedBy

(* The elements of a concatenation are those of its parts.                 *)
LEMMA Flattened ==
  ASSUME NEW n \in Nat, NEW s, s = [i \in 1..n |-> s[i]],
         \A i \in 1..n : IsSequence(s[i])
  PROVE  /\ IsSequence(FlattenSeq(s))
         /\ \A r \in Range(FlattenSeq(s)) : \E i \in 1..n : r \in Range(s[i])
         /\ \A i \in 1..n : Range(s[i]) \subseteq Range(FlattenSeq(s))
<1> DEFINE T == UNION {Range(s[i]) : i \in 1..n}
<1>1. ASSUME NEW i \in 1..n PROVE s[i] \in Seq(T)
  <2>1. s[i] \in Seq(Range(s[i]))
    BY DEF IsSequence
  <2>2. Range(s[i]) \subseteq T
    OBVIOUS
  <2> HIDE DEF T
  <2>3. QED
    BY <2>1, <2>2, SeqMonotonic
<1>2. s \in [1..n -> Seq(T)]
  BY <1>1
<1>3. FlattenSeq(s) \in Seq(T)
  <2> HIDE DEF T
  <2>1. QED
    BY <1>2, FlattenTypes
<1>4. IsSequence(FlattenSeq(s)) /\ Range(FlattenSeq(s)) \subseteq T
  <2> HIDE DEF T
  <2>1. QED
    BY <1>3, IsSequenceOf
<1>5. \A i \in 1..n : Range(s[i]) \subseteq Range(FlattenSeq(s))
  <2> HIDE DEF T
  <2>1. QED
    BY <1>2, FlattenedParts
<1>6. QED
  BY <1>4, <1>5

LEMMA KeptTypes ==
  ASSUME NEW s, NEW S, IsSequence(s)
  PROVE  IsSequence(Kept(s, S)) /\ Range(Kept(s, S)) \subseteq Range(s) \intersect S
<1>1. s \in Seq(Range(s)) /\ Len(s) \in Nat /\ DOMAIN s = 1..Len(s)
  BY SequenceIsFunction
<1>2. Kept(s, S) \in Seq(Range(s)) /\ \E m : IsIndex(m, Kept(s, S), s, Len(s), S)
  BY <1>1, KeptIndex
<1>3. IsSequence(Kept(s, S)) /\ Range(Kept(s, S)) \subseteq Range(s)
  BY <1>2, IsSequenceOf
<1>4. Range(Kept(s, S)) \subseteq S
  <2>1. \A p \in 1..Len(Kept(s, S)) : Kept(s, S)[p] \in S
    BY <1>2 DEF IsIndex
  <2>2. \A r \in Range(Kept(s, S)) : \E p \in 1..Len(Kept(s, S)) : r = Kept(s, S)[p]
    BY <1>3, SequenceIsFunction
  <2>3. QED
    BY <2>1, <2>2
<1>5. QED
  BY <1>3, <1>4

------------------------------------------------------------------------------
(* The rows of a block: they are records, of its height and, but for those *)
(* of core.blocks, of one of its transactions.                             *)
LEMMA AnySequence ==
  ASSUME NEW n \in Nat, NEW s, s = [i \in 1..n |-> s[i]]
  PROVE  /\ IsSequence(s) /\ Len(s) = n /\ DOMAIN s = 1..n
         /\ \A r \in Range(s) : \E i \in 1..n : r = s[i]
<1> DEFINE T == {s[i] : i \in 1..n}
<1>1. s \in [1..n -> T]
  OBVIOUS
<1>2. QED
  <2> HIDE DEF T
  <2>1. IsSequence(s) /\ Len(s) = n /\ DOMAIN s = 1..n
    BY <1>1, FunctionIsSequence
  <2>2. \A r \in Range(s) : \E i \in 1..n : r = s[i]
    BY <2>1 DEF Range
  <2>3. QED
    BY <2>1, <2>2

LEMMA EmptyIsSequence ==
  IsSequence(<< >>) /\ Range(<< >>) = {} /\ Len(<< >>) = 0 /\ DOMAIN << >> = {}
<1> DEFINE e == << >>
<1>1. e \in Seq({}) /\ Len(e) = 0 /\ DOMAIN e = {}
  BY EmptySeq
<1> HIDE DEF e
<1>2. IsSequence(e) /\ Range(e) \subseteq {}
  BY <1>1, IsSequenceOf
<1>3. IsSequence(e) /\ Range(e) = {} /\ Len(e) = 0 /\ DOMAIN e = {}
  BY <1>1, <1>2
<1>4. QED
  BY <1>3 DEF e

LEMMA Joined ==
  ASSUME NEW a, NEW b, IsSequence(a), IsSequence(b)
  PROVE  IsSequence(a \o b) /\ Range(a \o b) = Range(a) \union Range(b)
<1> DEFINE T == Range(a) \union Range(b)
<1>1. a \in Seq(Range(a)) /\ b \in Seq(Range(b))
  BY DEF IsSequence
<1>2. Range(a) \subseteq T /\ Range(b) \subseteq T
  OBVIOUS
<1>3. a \in Seq(T) /\ b \in Seq(T)
  <2> HIDE DEF T
  <2>1. QED
    BY <1>1, <1>2, SeqMonotonic
<1>4. a \o b \in Seq(T) /\ Range(a \o b) = Range(a) \union Range(b)
  <2> HIDE DEF T
  <2>1. QED
    BY <1>3, ConcatProperties, RangeConcatenation
<1>5. QED
  <2> HIDE DEF T
  <2>1. QED
    BY <1>4, IsSequenceOf

IsEvent(ev) == DOMAIN ev = {"type", "attributes"} /\ IsSequence(ev.attributes)
IsLog(log) ==
  /\ log = [msg_index |-> log.msg_index, events |-> log.events]
  /\ AreEvents(log.events)
AreLogs(logs) == IsSequence(logs) /\ \A log \in Range(logs) : IsLog(log)
IsTx(tx) == IsSequence(tx.msgs) /\ AreLogs(tx.logs)

LEMMA NormalizedEvents ==
  ASSUME NEW evs, AreEvents(evs)
  PROVE  AreEvents(normalizeEvents(evs))
<1>1. /\ Len(evs) \in Nat /\ DOMAIN evs = 1..Len(evs)
      /\ \A i \in 1..Len(evs) : IsEvent(evs[i])
  BY SequenceIsFunction DEF AreEvents, IsEvent
<1> DEFINE s == normalizeEvents(evs)
<1>2. s = [i \in 1..Len(evs) |-> normalizeEvent(evs[i])]
  BY <1>1 DEF normalizeEvents
<1> HIDE DEF s
<1>3. IsSequence(s) /\ \A r \in Range(s) : \E i \in 1..Len(evs) : r = s[i]
  BY <1>1, <1>2, AnySequence
<1>4. ASSUME NEW i \in 1..Len(evs) PROVE IsEvent(s[i])
  <2> DEFINE ev == evs[i]
             a == [j \in DOMAIN ev.attributes |-> normalizeAttr(ev.attributes[j])]
  <2>1. IsEvent(ev)
    BY <1>1
  <2>2. s[i] = [ev EXCEPT !.attributes = a]
    BY <1>2 DEF normalizeEvent
  <2>3. Len(ev.attributes) \in Nat /\ DOMAIN ev.attributes = 1..Len(ev.attributes)
    BY <2>1, SequenceIsFunction DEF IsEvent
  <2>4. a = [j \in 1..Len(ev.attributes) |-> a[j]]
    BY <2>3
  <2> HIDE DEF a
  <2>5. IsSequence(a)
    BY <2>3, <2>4, AnySequence
  <2>6. DOMAIN s[i] = {"type", "attributes"} /\ s[i].attributes = a
    BY <2>1, <2>2 DEF IsEvent
  <2>7. QED
    BY <2>5, <2>6 DEF IsEvent
<1>5. QED
  BY <1>3, <1>4 DEF s, AreEvents, IsEvent

LEMMA CombinedLogs ==
  ASSUME NEW result, IsResult(result)
  PROVE  AreLogs(buildCombinedLogs(result.raw_log, normalizeEvents(result.events)))
<1> DEFINE raw == result.raw_log
           parsed == parseRawLogToStructured(raw)
           txLevel == normalizeEvents(normalizeEvents(result.events))
           flat == IF txLevel = << >> THEN << >>
                   ELSE <<[msg_index |-> Null, events |-> txLevel]>>
<1>1. AreLogs(parsed)
  <2>1. CASE raw = Null
    BY <2>1, EmptyIsSequence DEF parseRawLogToStructured, AreLogs
  <2>2. CASE raw # Null
    <3>1. /\ Len(raw) \in Nat /\ DOMAIN raw = 1..Len(raw)
          /\ \A i \in 1..Len(raw) : AreEvents(raw[i].events)
      <4>1. IsSequence(raw) /\ \A log \in Range(raw) : AreEvents(log.events)
        BY <2>2 DEF IsResult
      <4> HIDE DEF raw
      <4>2. /\ Len(raw) \in Nat /\ DOMAIN raw = 1..Len(raw)
            /\ \A i \in 1..Len(raw) : raw[i] \in Range(raw)
        BY <4>1, SequenceIsFunction
      <4>3. QED
        BY <4>1, <4>2
    <3>2. parsed = [i \in 1..Len(raw) |->
                      [msg_index |-> Default(raw[i].msg_index, 0),
                       events |-> normalizeEvents(raw[i].events)]]
      BY <2>2, <3>1 DEF parseRawLogToStructured
    <3> HIDE DEF parsed, raw
    <3>3. \A i \in 1..Len(raw) : IsLog(parsed[i])
      BY <3>1, <3>2, NormalizedEvents DEF IsLog
    <3>4. IsSequence(parsed) /\ \A r \in Range(parsed) : \E i \in 1..Len(raw) : r = parsed[i]
      BY <3>1, <3>2, AnySequence
    <3>5. QED
      BY <3>3, <3>4 DEF AreLogs
  <2>3. QED
    BY <2>1, <2>2
<1>2. AreEvents(txLevel)
  BY NormalizedEvents DEF IsResult
<1>3. AreLogs(flat)
  <2>1. CASE txLevel = << >>
    BY <2>1, EmptyIsSequence DEF AreLogs
  <2>2. CASE txLevel # << >>
    <3> DEFINE log == [msg_index |-> Null, events |-> txLevel]
    <3>1. IsLog(log)
      BY <1>2 DEF IsLog
    <3>2. flat = <<log>>
      BY <2>2
    <3> HIDE DEF log, flat
    <3>3. IsSequence(flat) /\ \A r \in Range(flat) : r = log
      <4>1. flat \in Seq({log})
        BY <3>2
      <4>2. IsSequence(flat) /\ Range(flat) \subseteq {log}
        BY <4>1, IsSequenceOf
      <4>3. QED
        BY <4>2
    <3>4. QED
      BY <3>1, <3>3 DEF AreLogs
  <2>3. QED
    BY <2>1, <2>2
<1>4. buildCombinedLogs(raw, normalizeEvents(result.events)) = parsed \o flat
  BY DEF buildCombinedLogs
<1> HIDE DEF parsed, flat, raw
<1>5. AreLogs(parsed \o flat)
  BY <1>1, <1>3, Joined DEF AreLogs
<1>6. QED
  BY <1>4, <1>5 DEF raw

LEMMA AssembledTxs ==
  ASSUME NEW answer, IsAnswer(answer)
  PROVE  LET txs == assembleTxObjects(answer)
         IN /\ Len(answer.txs) \in Nat /\ DOMAIN answer.txs = 1..Len(answer.txs)
            /\ txs = [i \in 1..Len(answer.txs) |-> txs[i]]
            /\ \A i \in 1..Len(answer.txs) : txs[i].hash = answer.txs[i] /\ IsTx(txs[i])
            /\ \A i \in 1..Len(answer.txs) :
                 LET result == getTxsResults(answer.results, Len(answer.txs))[i]
                 IN /\ IsResult(result)
                    /\ txs[i].logs = buildCombinedLogs(result.raw_log,
                                                       normalizeEvents(result.events))
<1> DEFINE n == Len(answer.txs)
           results == getTxsResults(answer.results, n)
           txs == assembleTxObjects(answer)
<1>1. n \in Nat /\ DOMAIN answer.txs = 1..n
  BY SequenceIsFunction DEF IsAnswer
<1>2. txs = [i \in 1..n |->
               [hash |-> answer.txs[i], msgs |-> decodedTx(answer.decoded, i),
                code |-> results[i].code, raw_log |-> results[i].raw_log,
                logs |-> buildCombinedLogs(results[i].raw_log,
                                           normalizeEvents(results[i].events))]]
  BY <1>1 DEF assembleTxObjects
<1>3. IsResult(NoResult)
  BY EmptyIsSequence DEF NoResult, IsResult, AreEvents
<1>4. ASSUME NEW i \in 1..n PROVE IsResult(results[i])
  <2>1. /\ DOMAIN answer.results = 1..Len(answer.results)
        /\ \A j \in 1..Len(answer.results) : IsResult(answer.results[j])
    <3>1. IsSequence(answer.results) /\ \A r \in Range(answer.results) : IsResult(r)
      BY DEF IsAnswer
    <3>2. QED
      BY <3>1, SequenceIsFunction
  <2>2. results[i] = IF i \in DOMAIN answer.results THEN answer.results[i] ELSE NoResult
    BY DEF getTxsResults
  <2> HIDE DEF results
  <2>3. QED
    BY <1>3, <2>1, <2>2
<1>5. ASSUME NEW i \in 1..n PROVE IsSequence(decodedTx(answer.decoded, i))
  <2>1. /\ DOMAIN answer.decoded = 1..Len(answer.decoded)
        /\ \A j \in 1..Len(answer.decoded) : IsSequence(answer.decoded[j])
    <3>1. IsSequence(answer.decoded) /\ \A r \in Range(answer.decoded) : IsSequence(r)
      BY DEF IsAnswer
    <3>2. QED
      BY <3>1, SequenceIsFunction
  <2>2. QED
    BY <2>1, EmptyIsSequence DEF decodedTx
<1>6. ASSUME NEW i \in 1..n
      PROVE  AreLogs(buildCombinedLogs(results[i].raw_log, normalizeEvents(results[i].events)))
  <2> HIDE DEF results
  <2>1. QED
    BY <1>4, CombinedLogs
<1> HIDE DEF txs, results
<1>7. ASSUME NEW i \in 1..n PROVE txs[i].hash = answer.txs[i] /\ IsTx(txs[i])
  BY <1>2, <1>5, <1>6 DEF IsTx
<1>8. txs = [i \in 1..n |-> txs[i]]
  BY <1>2
<1>9. ASSUME NEW i \in 1..n
      PROVE  txs[i].logs = buildCombinedLogs(results[i].raw_log,
                                             normalizeEvents(results[i].events))
  BY <1>2
<1>10. QED
  BY <1>1, <1>4, <1>7, <1>8, <1>9 DEF txs, results

Visit(tx, l, e) ==
  [msg |-> Default(tx.logs[l].msg_index, -1), ei |-> e - 1, ev |-> tx.logs[l].events[e]]
IsVisit(v, tx) ==
  \E l \in 1..Len(tx.logs) : \E e \in 1..Len(tx.logs[l].events) : v = Visit(tx, l, e)

LEMMA VisitedAre ==
  ASSUME NEW tx, IsTx(tx)
  PROVE  IsSequence(Visited(tx)) /\ \A v : v \in Range(Visited(tx)) <=> IsVisit(v, tx)
<1> DEFINE n == Len(tx.logs)
           logs == pickLogs(tx)
           perLog == [l \in DOMAIN logs |->
                        [e \in DOMAIN logs[l].events |->
                           [msg |-> logs[l].msg_index, ei |-> e - 1,
                            ev |-> logs[l].events[e]]]]
<1>1. /\ n \in Nat /\ DOMAIN tx.logs = 1..n
      /\ \A l \in 1..n : IsLog(tx.logs[l])
  BY SequenceIsFunction DEF IsTx, AreLogs
<1>2. /\ DOMAIN logs = 1..n
      /\ \A l \in 1..n : /\ logs[l].events = tx.logs[l].events
                         /\ logs[l].msg_index = Default(tx.logs[l].msg_index, -1)
  <2>1. DOMAIN logs = 1..n
    BY <1>1 DEF pickLogs
  <2>2. ASSUME NEW l \in 1..n
        PROVE  /\ logs[l].events = tx.logs[l].events
               /\ logs[l].msg_index = Default(tx.logs[l].msg_index, -1)
    <3>1. logs[l] = [tx.logs[l] EXCEPT !.msg_index = Default(@, -1)]
      BY <1>1 DEF pickLogs
    <3>2. tx.logs[l] = [msg_index |-> tx.logs[l].msg_index, events |-> tx.logs[l].events]
      BY <1>1 DEF IsLog
    <3>3. QED
      BY <3>1, <3>2
  <2>3. QED
    BY <2>1, <2>2
<1> HIDE DEF logs
<1>3. ASSUME NEW l \in 1..n
      PROVE  /\ IsSequence(perLog[l])
             /\ \A v : v \in Range(perLog[l]) <=>
                        \E e \in 1..Len(tx.logs[l].events) : v = Visit(tx, l, e)
  <2> DEFINE evs == tx.logs[l].events
             s == [e \in DOMAIN evs |-> Visit(tx, l, e)]
  <2>1. Len(evs) \in Nat /\ DOMAIN evs = 1..Len(evs)
    <3>1. IsSequence(evs)
      BY <1>1 DEF IsLog, AreEvents
    <3> HIDE DEF evs
    <3>2. QED
      BY <3>1, SequenceIsFunction
  <2>2. perLog[l] = s
    BY <1>2 DEF Visit
  <2>3. s = [e \in 1..Len(evs) |-> s[e]] /\ \A e \in 1..Len(evs) : s[e] = Visit(tx, l, e)
    BY <2>1
  <2> HIDE DEF s, perLog, evs
  <2>4. /\ IsSequence(s) /\ DOMAIN s = 1..Len(evs)
        /\ \A v \in Range(s) : \E e \in 1..Len(evs) : v = s[e]
    BY <2>1, <2>3, AnySequence
  <2>5. \A e \in 1..Len(evs) : s[e] \in Range(s)
    BY <2>4 DEF Range
  <2>6. ASSUME NEW v
        PROVE  v \in Range(s) <=> \E e \in 1..Len(evs) : v = Visit(tx, l, e)
    BY <2>3, <2>4, <2>5
  <2>7. QED
    BY <2>2, <2>4, <2>6 DEF evs
<1>4. perLog = [l \in 1..n |-> perLog[l]]
  BY <1>2
<1>5. Visited(tx) = FlattenSeq(perLog)
  BY DEF Visited, logs
<1> HIDE DEF perLog
<1>6. /\ IsSequence(FlattenSeq(perLog))
      /\ \A v \in Range(FlattenSeq(perLog)) : \E l \in 1..n : v \in Range(perLog[l])
      /\ \A l \in 1..n : Range(perLog[l]) \subseteq Range(FlattenSeq(perLog))
  BY <1>1, <1>3, <1>4, Flattened
<1>7. ASSUME NEW v PROVE v \in Range(FlattenSeq(perLog)) <=> IsVisit(v, tx)
  <2>1. v \in Range(FlattenSeq(perLog)) <=> \E l \in 1..n : v \in Range(perLog[l])
    BY <1>6
  <2>2. QED
    BY <1>3, <2>1 DEF IsVisit
<1>8. QED
  BY <1>5, <1>6, <1>7

LEMMA VisitedEvents ==
  ASSUME NEW tx, IsTx(tx)
  PROVE  IsSequence(Visited(tx)) /\ \A v \in Range(Visited(tx)) : IsEvent(v.ev)
<1>1. IsSequence(Visited(tx)) /\ \A v : v \in Range(Visited(tx)) <=> IsVisit(v, tx)
  BY VisitedAre
<1>2. ASSUME NEW v \in Range(Visited(tx)) PROVE IsEvent(v.ev)
  <2>1. PICK l \in 1..Len(tx.logs) : \E e \in 1..Len(tx.logs[l].events) : v = Visit(tx, l, e)
    BY <1>1 DEF IsVisit
  <2>2. PICK e \in 1..Len(tx.logs[l].events) : v = Visit(tx, l, e)
    BY <2>1
  <2>3. IsLog(tx.logs[l])
    BY SequenceIsFunction DEF IsTx, AreLogs
  <2>4. IsEvent(tx.logs[l].events[e])
    BY <2>3, SequenceIsFunction DEF IsLog, AreEvents, IsEvent
  <2>5. QED
    BY <2>2, <2>4 DEF Visit
<1>3. QED
  BY <1>1, <1>2

LEMMA VisitedEventsOf ==
  ASSUME NEW tx, IsTx(tx), NEW types
  PROVE  LET s == VisitedOf(tx, types)
         IN Len(s) \in Nat /\ DOMAIN s = 1..Len(s)
<1>1. IsSequence(VisitedOf(tx, types))
  BY VisitedEvents, KeptTypes DEF VisitedOf
<1>2. QED
  BY <1>1, SequenceIsFunction

(* The rows a transaction gives a table.                                   *)
IsRow(r, h, hash) == r = [c \in DOMAIN r |-> r[c]] /\ r.height = h /\ r.tx_hash = hash
AreRows(rows, h, hash) == IsSequence(rows) /\ \A r \in Range(rows) : IsRow(r, h, hash)

LEMMA RowPerIndex ==
  ASSUME NEW n \in Nat, NEW h, NEW hash, NEW s, s = [i \in 1..n |-> s[i]],
         \A i \in 1..n : IsRow(s[i], h, hash)
  PROVE  AreRows(s, h, hash)
BY AnySequence DEF AreRows

LEMMA KeptRows ==
  ASSUME NEW h, NEW hash, NEW rows, NEW S, AreRows(rows, h, hash)
  PROVE  AreRows(Kept(rows, S), h, hash)
BY KeptTypes DEF AreRows

LEMMA MsgRows ==
  ASSUME NEW h, NEW tx, IsTx(tx)
  PROVE  AreRows(msgRows(h, tx), h, tx.hash)
<1> DEFINE s == msgRows(h, tx)
<1>1. Len(tx.msgs) \in Nat /\ DOMAIN tx.msgs = 1..Len(tx.msgs)
  BY SequenceIsFunction DEF IsTx
<1>2. /\ s = [i \in 1..Len(tx.msgs) |-> s[i]]
      /\ \A i \in 1..Len(tx.msgs) : IsRow(s[i], h, tx.hash)
  BY <1>1 DEF msgRows, IsRow
<1> HIDE DEF s
<1>3. AreRows(s, h, tx.hash)
  BY <1>1, <1>2, RowPerIndex
<1>4. QED
  BY <1>3 DEF s

LEMMA WasmExecRows ==
  ASSUME NEW h, NEW tx, IsTx(tx)
  PROVE  AreRows(wasmExecRows(h, tx), h, tx.hash)
<1> DEFINE rows == msgRows(h, tx)
           calls == Kept(rows, {r \in Range(rows) : r.value.type_url = "MsgExecuteContract"})
           s == wasmExecRows(h, tx)
<1>1. IsSequence(calls)
  <2> HIDE DEF rows
  <2>1. IsSequence(rows)
    BY MsgRows DEF rows, AreRows
  <2>2. QED
    BY <2>1, KeptTypes
<1>2. s = [i \in DOMAIN calls |->
             [height |-> h, tx_hash |-> tx.hash, msg_index |-> calls[i].msg_index,
              contract |-> calls[i].value.contract, success |-> tx.code = 0]]
  BY DEF wasmExecRows
<1> HIDE DEF s, calls
<1>3. Len(calls) \in Nat /\ DOMAIN calls = 1..Len(calls)
  BY <1>1, SequenceIsFunction
<1>4. /\ s = [i \in 1..Len(calls) |-> s[i]]
      /\ \A i \in 1..Len(calls) : IsRow(s[i], h, tx.hash)
  BY <1>2, <1>3 DEF IsRow
<1>5. AreRows(s, h, tx.hash)
  BY <1>3, <1>4, RowPerIndex
<1>6. QED
  BY <1>5 DEF s

LEMMA EvRows ==
  ASSUME NEW h, NEW tx, IsTx(tx)
  PROVE  AreRows(evRows(h, tx), h, tx.hash)
<1> DEFINE v == Visited(tx)
           s == evRows(h, tx)
<1>1. Len(v) \in Nat /\ DOMAIN v = 1..Len(v)
  <2> HIDE DEF v
  <2>1. IsSequence(v)
    BY VisitedEvents DEF v
  <2>2. QED
    BY <2>1, SequenceIsFunction
<1>2. /\ s = [i \in 1..Len(v) |-> s[i]]
      /\ \A i \in 1..Len(v) : IsRow(s[i], h, tx.hash)
  <2> HIDE DEF v
  <2>1. s = [i \in DOMAIN v |->
               [height |-> h, tx_hash |-> tx.hash, msg_index |-> v[i].msg,
                event_index |-> v[i].ei, event_type |-> v[i].ev.type,
                attributes |-> v[i].ev.attributes]]
    BY DEF v, evRows, RowPerEvent
  <2> HIDE DEF s
  <2>2. QED
    BY <1>1, <2>1 DEF IsRow
<1> HIDE DEF s, v
<1>3. AreRows(s, h, tx.hash)
  BY <1>1, <1>2, RowPerIndex
<1>4. QED
  BY <1>3 DEF s

LEMMA AttrRows ==
  ASSUME NEW h, NEW tx, IsTx(tx)
  PROVE  AreRows(attrRows(h, tx), h, tx.hash)
<1> DEFINE v == Visited(tx)
           perEvent == [i \in DOMAIN v |->
                          [j \in DOMAIN v[i].ev.attributes |->
                             [height |-> h, tx_hash |-> tx.hash, msg_index |-> v[i].msg,
                              event_index |-> v[i].ei,
                              key |-> v[i].ev.attributes[j].key,
                              value |-> v[i].ev.attributes[j].value]]]
<1>1. /\ Len(v) \in Nat /\ DOMAIN v = 1..Len(v)
      /\ \A i \in 1..Len(v) : IsEvent(v[i].ev)
  <2> HIDE DEF v
  <2>1. IsSequence(v) /\ \A x \in Range(v) : IsEvent(x.ev)
    BY VisitedEvents DEF v
  <2>2. QED
    BY <2>1, SequenceIsFunction
<1>2. attrRows(h, tx) = FlattenSeq(perEvent)
  BY DEF attrRows, RowPerEvent
<1> HIDE DEF v
<1>3. ASSUME NEW i \in 1..Len(v)
      PROVE  AreRows(perEvent[i], h, tx.hash)
  <2> DEFINE s == perEvent[i]
             a == v[i].ev.attributes
  <2>1. Len(a) \in Nat /\ DOMAIN a = 1..Len(a)
    BY <1>1, SequenceIsFunction DEF IsEvent
  <2>2. s = [j \in DOMAIN a |->
               [height |-> h, tx_hash |-> tx.hash, msg_index |-> v[i].msg,
                event_index |-> v[i].ei, key |-> a[j].key, value |-> a[j].value]]
    BY <1>1
  <2> HIDE DEF s, a
  <2>3. /\ s = [j \in 1..Len(a) |-> s[j]]
        /\ \A j \in 1..Len(a) : IsRow(s[j], h, tx.hash)
    BY <2>1, <2>2 DEF IsRow
  <2>4. AreRows(s, h, tx.hash)
    BY <2>1, <2>3, RowPerIndex
  <2>5. QED
    BY <2>4 DEF s
<1>4. perEvent = [i \in 1..Len(v) |-> perEvent[i]]
  BY <1>1
<1> HIDE DEF perEvent
<1>5. /\ IsSequence(FlattenSeq(perEvent))
      /\ \A r \in Range(FlattenSeq(perEvent)) : \E i \in 1..Len(v) : r \in Range(perEvent[i])
  BY <1>1, <1>3, <1>4, Flattened DEF AreRows
<1>6. QED
  BY <1>2, <1>3, <1>5 DEF AreRows

LEMMA TransfersRows ==
  ASSUME NEW h, NEW tx, IsTx(tx)
  PROVE  AreRows(transfersRows(h, tx), h, tx.hash)
<1> DEFINE v == VisitedOf(tx, {"transfer"})
           s == [i \in DOMAIN v |->
                   [height |-> h, tx_hash |-> tx.hash, msg_index |-> v[i].msg,
                    from_addr |-> findAttr(v[i].ev, "sender"),
                    to_addr |-> findAttr(v[i].ev, "recipient"),
                    denom |-> Denom(parseCoin(findAttr(v[i].ev, "amount"))),
                    amount |-> Amount(parseCoin(findAttr(v[i].ev, "amount")))]]
           S == {r \in Range(s) :
                   r.from_addr \notin Falsy /\ r.to_addr \notin Falsy /\ r.denom # Null}
<1>1. Len(v) \in Nat /\ DOMAIN v = 1..Len(v)
  BY VisitedEventsOf
<1>2. transfersRows(h, tx) = Kept(s, S)
  BY DEF transfersRows, RowPerEvent
<1> HIDE DEF v
<1>3. /\ s = [i \in 1..Len(v) |-> s[i]]
      /\ \A i \in 1..Len(v) : IsRow(s[i], h, tx.hash)
  BY <1>1 DEF IsRow
<1> HIDE DEF s, S
<1>4. AreRows(s, h, tx.hash)
  BY <1>1, <1>3, RowPerIndex
<1>5. QED
  BY <1>2, <1>4, KeptRows

LEMMA StakeDelegRows ==
  ASSUME NEW h, NEW tx, IsTx(tx)
  PROVE  AreRows(stakeDelegRows(h, tx), h, tx.hash)
<1> DEFINE v == VisitedOf(tx, {"delegate", "redelegate", "unbond", "complete_unbonding"})
           s == stakeDelegRows(h, tx)
<1>1. Len(v) \in Nat /\ DOMAIN v = 1..Len(v)
  BY VisitedEventsOf
<1>2. s = [i \in DOMAIN v |-> stakeDelegRow(h, tx, v[i])]
  BY DEF stakeDelegRows, RowPerEvent
<1> HIDE DEF s, v
<1>3. \A x : IsRow(stakeDelegRow(h, tx, x), h, tx.hash)
  BY DEF stakeDelegRow, IsRow
<1>4. /\ s = [i \in 1..Len(v) |-> s[i]]
      /\ \A i \in 1..Len(v) : IsRow(s[i], h, tx.hash)
  BY <1>1, <1>2, <1>3
<1>5. AreRows(s, h, tx.hash)
  BY <1>1, <1>4, RowPerIndex
<1>6. QED
  BY <1>5 DEF s

LEMMA StakeDistrRows ==
  ASSUME NEW h, NEW tx, IsTx(tx)
  PROVE  AreRows(stakeDistrRows(h, tx), h, tx.hash)
<1> DEFINE v == VisitedOf(tx, {"withdraw_rewards", "withdraw_commission",
                               "set_withdraw_address"})
           s == stakeDistrRows(h, tx)
<1>1. Len(v) \in Nat /\ DOMAIN v = 1..Len(v)
  BY VisitedEventsOf
<1>2. s = [i \in DOMAIN v |->
             [height |-> h, tx_hash |-> tx.hash, msg_index |-> v[i].msg,
              event_type |-> v[i].ev.type,
              delegator_address |-> findAttr(v[i].ev, "delegator"),
              denom |-> Denom(parseCoin(findAttr(v[i].ev, "amount"))),
              amount |-> Amount(parseCoin(findAttr(v[i].ev, "amount")))]]
  BY DEF stakeDistrRows, RowPerEvent
<1> HIDE DEF s, v
<1>3. /\ s = [i \in 1..Len(v) |-> s[i]]
      /\ \A i \in 1..Len(v) : IsRow(s[i], h, tx.hash)
  BY <1>1, <1>2 DEF IsRow
<1>4. AreRows(s, h, tx.hash)
  BY <1>1, <1>3, RowPerIndex
<1>5. QED
  BY <1>4 DEF s

LEMMA WasmEventsRows ==
  ASSUME NEW h, NEW tx, IsTx(tx)
  PROVE  AreRows(wasmEventsRows(h, tx), h, tx.hash)
<1> DEFINE v == VisitedOf(tx, {"wasm"})
           s == [i \in DOMAIN v |->
                   [height |-> h, tx_hash |-> tx.hash, msg_index |-> v[i].msg,
                    event_type |-> v[i].ev.type,
                    contract |-> Default(findAttr(v[i].ev, "_contract_address"),
                                         findAttr(v[i].ev, "contract_address")),
                    attributes |-> v[i].ev.attributes]]
           S == {r \in Range(s) : r.contract \notin Falsy}
<1>1. Len(v) \in Nat /\ DOMAIN v = 1..Len(v)
  BY VisitedEventsOf
<1>2. wasmEventsRows(h, tx) = Kept(s, S)
  BY DEF wasmEventsRows, RowPerEvent
<1> HIDE DEF v
<1>3. /\ s = [i \in 1..Len(v) |-> s[i]]
      /\ \A i \in 1..Len(v) : IsRow(s[i], h, tx.hash)
  BY <1>1 DEF IsRow
<1> HIDE DEF s, S
<1>4. AreRows(s, h, tx.hash)
  BY <1>1, <1>3, RowPerIndex
<1>5. QED
  BY <1>2, <1>4, KeptRows

(* The rows of all transactions of a block, one after the other.           *)
AreBlockRows(rows, h, hashes) ==
  /\ IsSequence(rows)
  /\ \A r \in Range(rows) : \E hash \in hashes : IsRow(r, h, hash)

LEMMA RowsPerTx ==
  ASSUME NEW h, NEW n \in Nat, NEW hashes, NEW s, s = [i \in 1..n |-> s[i]],
         \A i \in 1..n : \E hash \in hashes : AreRows(s[i], h, hash)
  PROVE  AreBlockRows(FlattenSeq(s), h, hashes)
<1>1. \A i \in 1..n : IsSequence(s[i])
  BY DEF AreRows
<1>2. /\ IsSequence(FlattenSeq(s))
      /\ \A r \in Range(FlattenSeq(s)) : \E i \in 1..n : r \in Range(s[i])
  BY <1>1, Flattened
<1>3. QED
  BY <1>2 DEF AreBlockRows, AreRows

------------------------------------------------------------------------------
(* The tables, and the rows of the blocks for each of them.                *)
LEMMA TableOrderFacts ==
  /\ DOMAIN TableOrder = 1..10 /\ Len(TableOrder) = 10
  /\ TableNames = {"blocks", "transactions", "messages", "events", "event_attrs",
                   "transfers", "delegation_events", "distribution_events", "executions",
                   "wasm_events"}
  /\ TableOrder[1] = "blocks"
  /\ \A i \in 1..10 : TableOrder[i] \in TableNames
  /\ \A t \in TableNames : \E i \in 1..10 : TableOrder[i] = t
  /\ \A i, j \in 1..10 : TableOrder[i] = TableOrder[j] => i = j
<1>1. DOMAIN TableOrder = 1..10 /\ Len(TableOrder) = 10 /\ TableOrder[1] = "blocks"
  BY DEF TableOrder
<1>2. TableNames = {"blocks", "transactions", "messages", "events", "event_attrs",
                    "transfers", "delegation_events", "distribution_events", "executions",
                    "wasm_events"}
  <2>1. TableNames = {TableOrder[i] : i \in 1..10}
    BY <1>1 DEF TableNames
  <2>2. 1..10 = {1, 2, 3, 4, 5, 6, 7, 8, 9, 10}
    OBVIOUS
  <2>3. QED
    BY <2>1, <2>2 DEF TableOrder
<1>3. /\ \A i \in 1..10 : TableOrder[i] \in TableNames
      /\ \A t \in TableNames : \E i \in 1..10 : TableOrder[i] = t
  BY <1>1 DEF TableNames
<1>4. \A i, j \in 1..10 : TableOrder[i] = TableOrder[j] => i = j
  BY DEF TableOrder
<1>5. QED
  BY <1>1, <1>2, <1>3, <1>4

Hashes(h) == Range(Answers[h].txs)

LEMMA RowsOfBlock ==
  ASSUME NEW h \in Heights
  PROVE  /\ Rows[h]["blocks"] = <<[height |-> h]>>
         /\ \A t \in TableNames \ {"blocks"} : AreBlockRows(Rows[h][t], h, Hashes(h))
         /\ DOMAIN Answers[h].txs = 1..Len(Answers[h].txs) /\ Len(Answers[h].txs) \in Nat
         /\ \A r \in Range(Rows[h]["transactions"]) :
              \E i \in 1..Len(Answers[h].txs) :
                r = Rows[h]["transactions"][i] /\ r.tx_hash = Answers[h].txs[i]
<1> DEFINE txs == assembleTxObjects(Answers[h])
           n == Len(Answers[h].txs)
<1>1. IsAnswer(Answers[h])
  BY AnswersAssumption
<1>2. /\ n \in Nat /\ DOMAIN Answers[h].txs = 1..n
      /\ txs = [i \in 1..n |-> txs[i]]
      /\ \A i \in 1..n : txs[i].hash = Answers[h].txs[i] /\ IsTx(txs[i])
  BY <1>1, AssembledTxs
<1>3. \A i \in 1..n : Answers[h].txs[i] \in Hashes(h)
  BY <1>2 DEF Hashes, Range
<1> DEFINE R == extractRows(h, Answers[h])
<1>4. Rows[h] = R
  BY DEF Rows
<1>5. /\ R.blocks = <<blockRow(h)>>
      /\ R.transactions = [i \in DOMAIN txs |-> txRow(h, i - 1, txs[i])]
      /\ R.messages = FlattenSeq([i \in DOMAIN txs |-> msgRows(h, txs[i])])
      /\ R.events = FlattenSeq([i \in DOMAIN txs |-> evRows(h, txs[i])])
      /\ R.event_attrs = FlattenSeq([i \in DOMAIN txs |-> attrRows(h, txs[i])])
      /\ R.transfers = FlattenSeq([i \in DOMAIN txs |-> transfersRows(h, txs[i])])
      /\ R.delegation_events = FlattenSeq([i \in DOMAIN txs |-> stakeDelegRows(h, txs[i])])
      /\ R.distribution_events = FlattenSeq([i \in DOMAIN txs |-> stakeDistrRows(h, txs[i])])
      /\ R.executions = FlattenSeq([i \in DOMAIN txs |-> wasmExecRows(h, txs[i])])
      /\ R.wasm_events = FlattenSeq([i \in DOMAIN txs |-> wasmEventsRows(h, txs[i])])
  BY DEF extractRows, PerTx
<1> HIDE DEF R, txs, n
<1>6. DOMAIN txs = 1..n
  BY <1>2
<1>7. Rows[h]["blocks"] = <<[height |-> h]>>
  BY <1>4, <1>5 DEF blockRow
<1> DEFINE tr == R.transactions
<1>8. /\ tr = [i \in 1..n |-> tr[i]]
      /\ \A i \in 1..n : tr[i] = txRow(h, i - 1, txs[i])
  BY <1>5, <1>6
<1>9. \A i \in 1..n : IsRow(tr[i], h, Answers[h].txs[i])
  <2> HIDE DEF tr
  <2>1. \A i \in 1..n : txRow(h, i - 1, txs[i]).tx_hash = txs[i].hash
    BY DEF txRow
  <2>2. \A i \in 1..n : IsRow(txRow(h, i - 1, txs[i]), h, txs[i].hash)
    BY DEF txRow, IsRow
  <2>3. QED
    BY <1>2, <1>8, <2>2
<1>10. AreBlockRows(tr, h, Hashes(h))
  <2> HIDE DEF tr
  <2>1. IsSequence(tr) /\ \A r \in Range(tr) : \E i \in 1..n : r = tr[i]
    BY <1>2, <1>8, AnySequence
  <2>2. QED
    BY <1>3, <1>9, <2>1 DEF AreBlockRows
<1>11. \A r \in Range(tr) :
         \E i \in 1..n : r = tr[i] /\ r.tx_hash = Answers[h].txs[i]
  <2> HIDE DEF tr
  <2>1. \A r \in Range(tr) : \E i \in 1..n : r = tr[i]
    BY <1>2, <1>8, AnySequence
  <2>2. \A i \in 1..n : tr[i].tx_hash = Answers[h].txs[i]
    BY <1>2, <1>8 DEF txRow
  <2>3. QED
    BY <2>1, <2>2
<1> HIDE DEF tr
<1>12. ASSUME NEW s, s = [i \in 1..n |-> s[i]],
              \A i \in 1..n : AreRows(s[i], h, txs[i].hash)
       PROVE  AreBlockRows(FlattenSeq(s), h, Hashes(h))
  <2>1. \A i \in 1..n : \E hash \in Hashes(h) : AreRows(s[i], h, hash)
    BY <1>2, <1>3, <1>12
  <2>2. QED
    BY <1>2, <1>12, <2>1, RowsPerTx
<1>13. AreBlockRows(R.messages, h, Hashes(h))
  <2> DEFINE s == [i \in 1..n |-> msgRows(h, txs[i])]
  <2>1. s = [i \in 1..n |-> s[i]] /\ \A i \in 1..n : AreRows(s[i], h, txs[i].hash)
    BY <1>2, MsgRows
  <2> HIDE DEF s
  <2>2. QED
    BY <1>5, <1>6, <1>12, <2>1 DEF s
<1>14. AreBlockRows(R.events, h, Hashes(h))
  <2> DEFINE s == [i \in 1..n |-> evRows(h, txs[i])]
  <2>1. s = [i \in 1..n |-> s[i]] /\ \A i \in 1..n : AreRows(s[i], h, txs[i].hash)
    BY <1>2, EvRows
  <2> HIDE DEF s
  <2>2. QED
    BY <1>5, <1>6, <1>12, <2>1 DEF s
<1>15. AreBlockRows(R.event_attrs, h, Hashes(h))
  <2> DEFINE s == [i \in 1..n |-> attrRows(h, txs[i])]
  <2>1. s = [i \in 1..n |-> s[i]] /\ \A i \in 1..n : AreRows(s[i], h, txs[i].hash)
    BY <1>2, AttrRows
  <2> HIDE DEF s
  <2>2. QED
    BY <1>5, <1>6, <1>12, <2>1 DEF s
<1>16. AreBlockRows(R.transfers, h, Hashes(h))
  <2> DEFINE s == [i \in 1..n |-> transfersRows(h, txs[i])]
  <2>1. s = [i \in 1..n |-> s[i]] /\ \A i \in 1..n : AreRows(s[i], h, txs[i].hash)
    BY <1>2, TransfersRows
  <2> HIDE DEF s
  <2>2. QED
    BY <1>5, <1>6, <1>12, <2>1 DEF s
<1>17. AreBlockRows(R.delegation_events, h, Hashes(h))
  <2> DEFINE s == [i \in 1..n |-> stakeDelegRows(h, txs[i])]
  <2>1. s = [i \in 1..n |-> s[i]] /\ \A i \in 1..n : AreRows(s[i], h, txs[i].hash)
    BY <1>2, StakeDelegRows
  <2> HIDE DEF s
  <2>2. QED
    BY <1>5, <1>6, <1>12, <2>1 DEF s
<1>18. AreBlockRows(R.distribution_events, h, Hashes(h))
  <2> DEFINE s == [i \in 1..n |-> stakeDistrRows(h, txs[i])]
  <2>1. s = [i \in 1..n |-> s[i]] /\ \A i \in 1..n : AreRows(s[i], h, txs[i].hash)
    BY <1>2, StakeDistrRows
  <2> HIDE DEF s
  <2>2. QED
    BY <1>5, <1>6, <1>12, <2>1 DEF s
<1>19. AreBlockRows(R.executions, h, Hashes(h))
  <2> DEFINE s == [i \in 1..n |-> wasmExecRows(h, txs[i])]
  <2>1. s = [i \in 1..n |-> s[i]] /\ \A i \in 1..n : AreRows(s[i], h, txs[i].hash)
    BY <1>2, WasmExecRows
  <2> HIDE DEF s
  <2>2. QED
    BY <1>5, <1>6, <1>12, <2>1 DEF s
<1>20. AreBlockRows(R.wasm_events, h, Hashes(h))
  <2> DEFINE s == [i \in 1..n |-> wasmEventsRows(h, txs[i])]
  <2>1. s = [i \in 1..n |-> s[i]] /\ \A i \in 1..n : AreRows(s[i], h, txs[i].hash)
    BY <1>2, WasmEventsRows
  <2> HIDE DEF s
  <2>2. QED
    BY <1>5, <1>6, <1>12, <2>1 DEF s
<1>21. \A t \in TableNames \ {"blocks"} : AreBlockRows(Rows[h][t], h, Hashes(h))
  BY <1>4, <1>10, <1>13, <1>14, <1>15, <1>16, <1>17, <1>18, <1>19, <1>20, TableOrderFacts
     DEF tr
<1>22. QED
  BY <1>2, <1>4, <1>7, <1>11, <1>21 DEF n, tr

------------------------------------------------------------------------------
(* A block's rows as they are to be stored: of the delegation rows only the *)
(* complete ones.                                                          *)
Raw(t) == [h \in Heights |-> Rows[h][t]]
Lot(t) == [h \in Heights |->
             IF t = "delegation_events" THEN CompleteRows(Rows[h][t]) ELSE Rows[h][t]]
RowOf(t, h, r) ==
  /\ r = [c \in DOMAIN r |-> r[c]] /\ r.height = h
  /\ t # "blocks" => r.tx_hash \in Hashes(h)
RowsOfTable(t, h, s) == IsSequence(s) /\ \A i \in 1..Len(s) : RowOf(t, h, s[i])

LEMMA RawRows ==
  ASSUME NEW t \in TableNames, NEW h \in Heights
  PROVE  RowsOfTable(t, h, Rows[h][t])
<1>1. CASE t = "blocks"
  <2> DEFINE r == [height |-> h]
             s == <<r>>
  <2>1. Rows[h][t] = s
    BY <1>1, RowsOfBlock
  <2>2. RowOf(t, h, r)
    BY <1>1 DEF RowOf
  <2> HIDE DEF r
  <2>3. s \in Seq({r}) /\ Len(s) = 1 /\ s[1] = r
    OBVIOUS
  <2>4. IsSequence(s)
    BY <2>3, IsSequenceOf
  <2>5. QED
    BY <2>1, <2>2, <2>3, <2>4 DEF RowsOfTable
<1>2. CASE t # "blocks"
  <2> DEFINE s == Rows[h][t]
  <2>1. AreBlockRows(s, h, Hashes(h))
    BY <1>2, RowsOfBlock
  <2> HIDE DEF s
  <2>2. ASSUME NEW i \in 1..Len(s) PROVE RowOf(t, h, s[i])
    <3>1. s[i] \in Range(s)
      BY <2>1, SequenceIsFunction DEF AreBlockRows
    <3>2. PICK hash \in Hashes(h) : IsRow(s[i], h, hash)
      BY <2>1, <3>1 DEF AreBlockRows
    <3>3. QED
      BY <3>2 DEF IsRow, RowOf
  <2>3. QED
    BY <2>1, <2>2 DEF RowsOfTable, AreBlockRows, s
<1>3. QED
  BY <1>1, <1>2

(* Where the complete rows come from.                                      *)
CompleteIndex(m, k, s) ==
  /\ m \in [1..Len(k) -> 1..Len(s)]
  /\ \A p \in 1..Len(k) : k[p] = s[m[p]] /\ Complete(k[p])
  /\ \A p, q \in 1..Len(k) : p < q => m[p] < m[q]
  /\ \A j \in 1..Len(s) : Complete(s[j]) => \E p \in 1..Len(k) : m[p] = j

LEMMA CompleteAre ==
  ASSUME NEW s, IsSequence(s)
  PROVE  /\ IsSequence(CompleteRows(s))
         /\ \E m : CompleteIndex(m, CompleteRows(s), s)
<1> DEFINE S == {r \in Range(s) : Complete(r)}
           k == CompleteRows(s)
<1>1. k = Kept(s, S)
  BY DEF CompleteRows
<1>2. s \in Seq(Range(s)) /\ \A i \in 1..Len(s) : s[i] \in Range(s)
  BY SequenceIsFunction
<1>3. Kept(s, S) \in Seq(Range(s)) /\ \E m : IsIndex(m, Kept(s, S), s, Len(s), S)
  <2> HIDE DEF S
  <2>1. QED
    BY <1>2, KeptIndex
<1>4. PICK m : IsIndex(m, Kept(s, S), s, Len(s), S)
  BY <1>3
<1>5. \A i \in 1..Len(s) : Complete(s[i]) => s[i] \in S
  BY <1>2
<1>6. \A r \in S : Complete(r)
  OBVIOUS
<1> HIDE DEF S, k
<1>7. CompleteIndex(m, k, s)
  BY <1>1, <1>4, <1>5, <1>6 DEF IsIndex, CompleteIndex
<1>8. IsSequence(k)
  BY <1>1, <1>3, IsSequenceOf
<1>9. QED
  BY <1>7, <1>8 DEF k

LEMMA LotRows ==
  ASSUME NEW t \in TableNames, NEW h \in Heights
  PROVE  RowsOfTable(t, h, Lot(t)[h])
<1>1. CASE t = "delegation_events"
  <2> DEFINE s == Rows[h][t]
             k == CompleteRows(s)
  <2>1. RowsOfTable(t, h, s)
    BY RawRows
  <2>2. Lot(t)[h] = k
    BY <1>1 DEF Lot
  <2> HIDE DEF s
  <2>3. IsSequence(k) /\ \E m : CompleteIndex(m, k, s)
    BY <2>1, CompleteAre DEF RowsOfTable
  <2> HIDE DEF k
  <2>4. QED
    BY <2>1, <2>2, <2>3 DEF RowsOfTable, CompleteIndex
<1>2. CASE t # "delegation_events"
  BY <1>2, RawRows DEF Lot
<1>3. QED
  BY <1>1, <1>2

(* What the conflict clauses have in common.                               *)
LEMMA Clauses ==
  ASSUME NEW t \in TableNames
  PROVE  /\ "height" \in Flusher[t].key \/ (t # "blocks" /\ "tx_hash" \in Flusher[t].key)
         /\ t = "transactions" => "tx_hash" \in Flusher[t].key
         /\ t # "transactions" => Flusher[t].updated = {}
         /\ Inserter[t].key = Flusher[t].key /\ Inserter[t].updated = Flusher[t].updated
<1>1. ASSUME NEW columns, NEW maxRows, NEW maxParams, NEW key, NEW updated
      PROVE  LET f == MultiInsert(columns, maxRows, maxParams, key, updated)
             IN /\ f.key = key /\ f.updated = updated
                /\ Unsliced(f).key = key /\ Unsliced(f).updated = updated
  BY DEF MultiInsert, Unsliced
<1> DEFINE OK(f, g) ==
             /\ "height" \in f.key \/ (t # "blocks" /\ "tx_hash" \in f.key)
             /\ t = "transactions" => "tx_hash" \in f.key
             /\ t # "transactions" => f.updated = {}
             /\ g.key = f.key /\ g.updated = f.updated
<1>2. CASE t = "blocks"
  <2>1. OK(flushBlocks, Unsliced(flushBlocks))
    BY <1>1, <1>2 DEF flushBlocks
  <2> HIDE DEF OK
  <2>2. OK(Flusher[t], Inserter[t])
    BY <1>2, <2>1 DEF Flusher, Inserter, insertBlocks
  <2>3. QED
    BY <2>2 DEF OK
<1>3. CASE t = "transactions"
  <2>1. OK(flushTxs, Unsliced(flushTxs))
    BY <1>1, <1>3 DEF flushTxs
  <2> HIDE DEF OK
  <2>2. OK(Flusher[t], Inserter[t])
    BY <1>3, <2>1 DEF Flusher, Inserter, insertTxs
  <2>3. QED
    BY <2>2 DEF OK
<1>4. CASE t = "messages"
  <2>1. OK(flushMsgs, Unsliced(flushMsgs))
    BY <1>1, <1>4 DEF flushMsgs
  <2> HIDE DEF OK
  <2>2. OK(Flusher[t], Inserter[t])
    BY <1>4, <2>1 DEF Flusher, Inserter, insertMsgs
  <2>3. QED
    BY <2>2 DEF OK
<1>5. CASE t = "events"
  <2>1. OK(flushEvents, Unsliced(flushEvents))
    BY <1>1, <1>5 DEF flushEvents
  <2> HIDE DEF OK
  <2>2. OK(Flusher[t], Inserter[t])
    BY <1>5, <2>1 DEF Flusher, Inserter, insertEvents
  <2>3. QED
    BY <2>2 DEF OK
<1>6. CASE t = "event_attrs"
  <2>1. OK(flushAttrs, Unsliced(flushAttrs))
    BY <1>1, <1>6 DEF flushAttrs
  <2> HIDE DEF OK
  <2>2. OK(Flusher[t], Inserter[t])
    BY <1>6, <2>1 DEF Flusher, Inserter, insertAttrs
  <2>3. QED
    BY <2>2 DEF OK
<1>7. CASE t = "transfers"
  <2>1. OK(flushTransfers, Unsliced(flushTransfers))
    BY <1>1, <1>7 DEF flushTransfers
  <2> HIDE DEF OK
  <2>2. OK(Flusher[t], Inserter[t])
    BY <1>7, <2>1 DEF Flusher, Inserter, insertTransfers
  <2>3. QED
    BY <2>2 DEF OK
<1>8. CASE t = "delegation_events"
  <2>1. OK(flushStakeDeleg, Unsliced(flushStakeDeleg))
    BY <1>1, <1>8 DEF flushStakeDeleg
  <2> HIDE DEF OK
  <2>2. OK(Flusher[t], Inserter[t])
    BY <1>8, <2>1 DEF Flusher, Inserter, insertStakeDeleg
  <2>3. QED
    BY <2>2 DEF OK
<1>9. CASE t = "distribution_events"
  <2>1. OK(flushStakeDistr, Unsliced(flushStakeDistr))
    BY <1>1, <1>9 DEF flushStakeDistr
  <2> HIDE DEF OK
  <2>2. OK(Flusher[t], Inserter[t])
    BY <1>9, <2>1 DEF Flusher, Inserter, insertStakeDistr
  <2>3. QED
    BY <2>2 DEF OK
<1>10. CASE t = "executions"
  <2>1. OK(flushWasmExec, Unsliced(flushWasmExec))
    BY <1>1, <1>10 DEF flushWasmExec
  <2> HIDE DEF OK
  <2>2. OK(Flusher[t], Inserter[t])
    BY <1>10, <2>1 DEF Flusher, Inserter, insertWasmExec
  <2>3. QED
    BY <2>2 DEF OK
<1>11. CASE t = "wasm_events"
  <2>1. OK(flushWasmEvents, Unsliced(flushWasmEvents))
    BY <1>1, <1>11 DEF flushWasmEvents
  <2> HIDE DEF OK
  <2>2. OK(Flusher[t], Inserter[t])
    BY <1>11, <2>1 DEF Flusher, Inserter, insertWasmEvents
  <2>3. QED
    BY <2>2 DEF OK
<1>12. QED
  BY <1>2, <1>3, <1>4, <1>5, <1>6, <1>7, <1>8, <1>9, <1>10, <1>11, TableOrderFacts

LEMMA SameKey ==
  ASSUME NEW f, NEW r, NEW q, KeyOf(r, f) = KeyOf(q, f)
  PROVE  \A c \in f.key : r[c] = q[c]
<1>1. ASSUME NEW c \in f.key PROVE r[c] = q[c]
  <2>1. KeyOf(r, f)[c] = r[c] /\ KeyOf(q, f)[c] = q[c]
    BY DEF KeyOf
  <2>2. QED
    BY <2>1
<1>2. QED
  BY <1>1

LEMMA HashOfOneBlock ==
  ASSUME NEW g \in Heights, NEW h \in Heights, NEW hash, hash \in Hashes(g), hash \in Hashes(h)
  PROVE  g = h
BY HashesAssumption DEF Hashes, Range

(* A key never occurs in two blocks.                                       *)
LEMMA KeyOfOneBlock ==
  ASSUME NEW t \in TableNames, NEW g \in Heights, NEW h \in Heights, NEW r, NEW q,
         RowOf(t, g, r), RowOf(t, h, q), KeyOf(r, Flusher[t]) = KeyOf(q, Flusher[t])
  PROVE  g = h
<1>1. \A c \in Flusher[t].key : r[c] = q[c]
  BY SameKey
<1>2. CASE "height" \in Flusher[t].key
  <2>1. r["height"] = q["height"]
    BY <1>1, <1>2
  <2>2. QED
    BY <2>1 DEF RowOf
<1>3. CASE t # "blocks" /\ "tx_hash" \in Flusher[t].key
  <2>1. r["tx_hash"] = q["tx_hash"]
    BY <1>1, <1>3
  <2>2. r.tx_hash \in Hashes(g) /\ r.tx_hash \in Hashes(h)
    BY <1>3, <2>1 DEF RowOf
  <2>3. QED
    BY <2>2, HashOfOneBlock
<1>4. QED
  BY <1>2, <1>3, Clauses

(* A transaction has one row in core.transactions.                         *)
LEMMA OneRowPerTx ==
  ASSUME NEW h \in Heights, NEW i \in 1..Len(Rows[h]["transactions"]),
         NEW j \in 1..Len(Rows[h]["transactions"]),
         Rows[h]["transactions"][i].tx_hash = Rows[h]["transactions"][j].tx_hash
  PROVE  Rows[h]["transactions"][i] = Rows[h]["transactions"][j]
<1> DEFINE s == Rows[h]["transactions"]
           n == Len(Answers[h].txs)
<1>1. /\ \A r \in Range(s) : \E k \in 1..n : r = s[k] /\ r.tx_hash = Answers[h].txs[k]
      /\ DOMAIN Answers[h].txs = 1..n
  BY RowsOfBlock
<1>2. s[i] \in Range(s) /\ s[j] \in Range(s)
  <2>1. IsSequence(s)
    BY RawRows, TableOrderFacts DEF RowsOfTable
  <2>2. QED
    BY <2>1, SequenceIsFunction
<1>3. s[i].tx_hash = s[j].tx_hash
  OBVIOUS
<1> HIDE DEF s, n
<1>4. PICK k \in 1..n : s[i] = s[k] /\ s[i].tx_hash = Answers[h].txs[k]
  BY <1>1, <1>2
<1>5. PICK l \in 1..n : s[j] = s[l] /\ s[j].tx_hash = Answers[h].txs[l]
  BY <1>1, <1>2
<1>6. Answers[h].txs[k] = Answers[h].txs[l]
  BY <1>3, <1>4, <1>5
<1>7. k = l
  <2>1. k \in DOMAIN Answers[h].txs /\ l \in DOMAIN Answers[h].txs
    BY <1>1
  <2>2. QED
    BY <1>6, <2>1, HashesAssumption
<1>8. QED
  BY <1>4, <1>5, <1>7 DEF s

------------------------------------------------------------------------------
(* Rows that are the first of their key.                                   *)
IsFirst(s, i, f) == \A k \in 1..(i - 1) : KeyOf(s[k], f) # KeyOf(s[i], f)
Firsts(s, n, f) == {s[i] : i \in {j \in 1..n : IsFirst(s, j, f)}}
RowsOf(t, H) == UNION {FirstRows(t, h) : h \in H}

LEMMA InFirsts ==
  ASSUME NEW s, NEW n, NEW f, NEW r
  PROVE  r \in Firsts(s, n, f) <=> \E i \in 1..n : r = s[i] /\ IsFirst(s, i, f)
BY DEF Firsts

LEMMA InFirstOfKeys ==
  ASSUME NEW s, IsSequence(s), NEW f, NEW r
  PROVE  r \in FirstOfKeys(s, f) <=> \E i \in 1..Len(s) : r = s[i] /\ IsFirst(s, i, f)
<1>1. DOMAIN s = 1..Len(s)
  BY SequenceIsFunction
<1>2. QED
  BY <1>1 DEF FirstOfKeys, IsFirst

LEMMA InFirstRows ==
  ASSUME NEW t \in TableNames, NEW h \in Heights, NEW r
  PROVE  /\ r \in FirstRows(t, h) <=>
              \E i \in 1..Len(Lot(t)[h]) :
                r = Lot(t)[h][i] /\ IsFirst(Lot(t)[h], i, Flusher[t])
         /\ r \in FirstRows(t, h) => RowOf(t, h, r)
<1> DEFINE L == Lot(t)[h]
<1>1. FirstRows(t, h) = FirstOfKeys(L, Flusher[t])
  BY DEF FirstRows, Lot
<1>2. RowsOfTable(t, h, L)
  BY LotRows
<1> HIDE DEF L
<1>3. r \in FirstRows(t, h) <=> \E i \in 1..Len(L) : r = L[i] /\ IsFirst(L, i, Flusher[t])
  BY <1>1, <1>2, InFirstOfKeys DEF RowsOfTable
<1>4. QED
  BY <1>2, <1>3 DEF L, RowsOfTable

LEMMA KeyDecides ==
  ASSUME NEW t \in TableNames, NEW g \in Heights, NEW h \in Heights,
         NEW r \in FirstRows(t, g), NEW q \in FirstRows(t, h),
         KeyOf(r, Flusher[t]) = KeyOf(q, Flusher[t])
  PROVE  r = q
<1>1. RowOf(t, g, r) /\ RowOf(t, h, q)
  BY InFirstRows
<1>2. g = h
  BY <1>1, KeyOfOneBlock
<1> DEFINE L == Lot(t)[h]
<1>3. PICK i \in 1..Len(L) : r = L[i] /\ IsFirst(L, i, Flusher[t])
  BY <1>2, InFirstRows
<1>4. PICK j \in 1..Len(L) : q = L[j] /\ IsFirst(L, j, Flusher[t])
  BY InFirstRows
<1>5. Len(L) \in Nat
  <2>1. IsSequence(L)
    BY LotRows DEF RowsOfTable
  <2>2. QED
    BY <2>1, SequenceIsFunction
<1> HIDE DEF L
<1>6. ~(i < j)
  <2> SUFFICES ASSUME i < j PROVE FALSE
    OBVIOUS
  <2>1. i \in 1..(j - 1)
    BY <1>5
  <2>2. QED
    BY <1>3, <1>4, <2>1 DEF IsFirst
<1>7. ~(j < i)
  <2> SUFFICES ASSUME j < i PROVE FALSE
    OBVIOUS
  <2>1. j \in 1..(i - 1)
    BY <1>5
  <2>2. QED
    BY <1>3, <1>4, <2>1 DEF IsFirst
<1>8. i = j
  BY <1>5, <1>6, <1>7
<1>9. QED
  BY <1>3, <1>4, <1>8

------------------------------------------------------------------------------
(* Buffers.  A row stands in the buffer of its table after those before it *)
(* in its block, and all rows of the blocks are there.                     *)
After(s, p, L, i) == \A k \in 1..(i - 1) : \E q \in 1..(p - 1) : s[q] = L[k]
Closed(s, p, of, H) ==
  \E h \in H : \E i \in 1..Len(of[h]) : s[p] = of[h][i] /\ After(s, p, of[h], i)
ClosedTo(s, n, of, H) == \A p \in 1..n : Closed(s, p, of, H)
Holds(s, of, H) ==
  \A h \in H : \A i \in 1..Len(of[h]) : \E p \in 1..Len(s) : s[p] = of[h][i]
MadeOf(s, of, H) == (\A p \in 1..Len(s) : Closed(s, p, of, H)) /\ Holds(s, of, H)

LEMMA FirstIsFirst ==
  ASSUME NEW t \in TableNames, NEW H \in SUBSET Heights, NEW s, NEW p,
         Closed(s, p, Lot(t), H), IsFirst(s, p, Flusher[t])
  PROVE  \E h \in H : s[p] \in FirstRows(t, h)
<1>1. PICK h \in H : \E i \in 1..Len(Lot(t)[h]) :
        s[p] = Lot(t)[h][i] /\ After(s, p, Lot(t)[h], i)
  BY DEF Closed
<1>2. PICK i \in 1..Len(Lot(t)[h]) : s[p] = Lot(t)[h][i] /\ After(s, p, Lot(t)[h], i)
  BY <1>1
<1> DEFINE L == Lot(t)[h]
<1>3. IsFirst(L, i, Flusher[t])
  <2> HIDE DEF L
  <2> SUFFICES ASSUME NEW k \in 1..(i - 1)
               PROVE  KeyOf(L[k], Flusher[t]) # KeyOf(L[i], Flusher[t])
    BY DEF IsFirst
  <2>1. PICK q \in 1..(p - 1) : s[q] = L[k]
    BY <1>2 DEF After, L
  <2>2. KeyOf(s[q], Flusher[t]) # KeyOf(s[p], Flusher[t])
    BY <2>1 DEF IsFirst
  <2>3. s[p] = L[i]
    BY <1>2 DEF L
  <2>4. QED
    BY <2>1, <2>2, <2>3
<1>4. s[p] \in FirstRows(t, h)
  BY <1>2, <1>3, InFirstRows
<1>5. QED
  BY <1>4

LEMMA FirstOfAll ==
  ASSUME NEW s, NEW n \in Nat, NEW f, NEW p \in 1..n
  PROVE  \E q \in 1..p : KeyOf(s[q], f) = KeyOf(s[p], f) /\ IsFirst(s, q, f)
<1> DEFINE D == {q \in 1..p : KeyOf(s[q], f) = KeyOf(s[p], f)}
<1>1. D \in SUBSET Nat /\ D # {}
  OBVIOUS
<1>2. PICK q \in D : \A k \in D : q <= k
  <2> HIDE DEF D
  <2>1. QED
    BY <1>1, HasLeast
<1>3. IsFirst(s, q, f)
  <2> SUFFICES ASSUME NEW k \in 1..(q - 1), KeyOf(s[k], f) = KeyOf(s[q], f) PROVE FALSE
    BY DEF IsFirst
  <2>1. k \in D /\ ~(q <= k)
    BY <1>2
  <2>2. QED
    BY <1>2, <2>1
<1>4. QED
  BY <1>2, <1>3

LEMMA AllFirsts ==
  ASSUME NEW t \in TableNames, NEW H \in SUBSET Heights, NEW s, IsSequence(s),
         MadeOf(s, Lot(t), H)
  PROVE  Firsts(s, Len(s), Flusher[t]) = RowsOf(t, H)
<1> DEFINE f == Flusher[t]
<1>1. Len(s) \in Nat
  BY SequenceIsFunction
<1>2. ASSUME NEW r \in Firsts(s, Len(s), f) PROVE r \in RowsOf(t, H)
  <2>1. PICK p \in 1..Len(s) : r = s[p] /\ IsFirst(s, p, f)
    BY <1>2, InFirsts
  <2>2. \E h \in H : s[p] \in FirstRows(t, h)
    BY <2>1, FirstIsFirst DEF MadeOf
  <2>3. QED
    BY <2>1, <2>2 DEF RowsOf
<1>3. ASSUME NEW r \in RowsOf(t, H) PROVE r \in Firsts(s, Len(s), f)
  <2>1. PICK h \in H : r \in FirstRows(t, h)
    BY <1>3 DEF RowsOf
  <2>2. PICK i \in 1..Len(Lot(t)[h]) : r = Lot(t)[h][i]
    BY <2>1, InFirstRows
  <2>3. PICK p \in 1..Len(s) : s[p] = r
    BY <2>2 DEF MadeOf, Holds
  <2>4. PICK q \in 1..p : KeyOf(s[q], f) = KeyOf(s[p], f) /\ IsFirst(s, q, f)
    BY <1>1, FirstOfAll
  <2>5. q \in 1..Len(s)
    BY <1>1
  <2>6. PICK g \in H : s[q] \in FirstRows(t, g)
    BY <2>4, <2>5, FirstIsFirst DEF MadeOf
  <2>7. s[q] = r
    BY <2>1, <2>3, <2>4, <2>6, KeyDecides
  <2>8. QED
    BY <2>4, <2>5, <2>7, InFirsts
<1>4. QED
  BY <1>2, <1>3

(* rows are those of s after the first n, up to k.                         *)
IsPart(rows, s, n, k) ==
  /\ n \in 0..Len(s) /\ k \in n..Len(s)
  /\ IsSequence(rows) /\ Len(rows) = k - n /\ \A j \in 1..(k - n) : rows[j] = s[n + j]

LEMMA SubSeqIs ==
  ASSUME NEW s, IsSequence(s), NEW n \in 0..Len(s), NEW m \in 0..(Len(s) - n)
  PROVE  IsPart(SubSeq(s, n + 1, n + m), s, n, n + m)
<1> DEFINE T == Range(s)
           rows == SubSeq(s, n + 1, n + m)
<1>1. s \in Seq(T) /\ Len(s) \in Nat
  BY SequenceIsFunction
<1> HIDE DEF T
<1>2. n + 1 \in 1..(Len(s) + 1) /\ n + m \in n..Len(s) /\ (n + m) - n = m
  BY <1>1
<1>3. rows \in Seq(T)
  BY <1>1, <1>2
<1>4. Len(rows) = m
  BY <1>1, <1>2
<1>5. \A j \in 1..m : rows[j] = s[n + j]
  BY <1>1, <1>2
<1> HIDE DEF rows
<1>6. IsPart(rows, s, n, n + m)
  BY <1>2, <1>3, <1>4, <1>5, IsSequenceOf DEF IsPart
<1>7. QED
  BY <1>6 DEF rows

(* One statement: of the rows sent so far the first of each key are there. *)
LEMMA InsertedRows ==
  ASSUME NEW t \in TableNames,
         NEW f, f.key = Flusher[t].key, f.updated = Flusher[t].updated,
         NEW G \in SUBSET Heights, NEW H \in SUBSET Heights,
         NEW s, IsSequence(s), NEW to, ClosedTo(s, to, Lot(t), H),
         NEW n, NEW rows, IsPart(rows, s, n, to)
  PROVE  Inserted(RowsOf(t, G) \union Firsts(s, n, Flusher[t]), rows, f)
           = RowsOf(t, G) \union Firsts(s, to, Flusher[t])
<1> DEFINE F == Flusher[t]
           m == to - n
           stored == RowsOf(t, G) \union Firsts(s, n, F)
           new == {r \in FirstOfKeys(rows, f) : \A x \in stored : KeyOf(x, f) # KeyOf(r, f)}
<1>1. Len(s) \in Nat /\ n \in 0..Len(s) /\ m \in 0..(Len(s) - n) /\ to = n + m
  BY SequenceIsFunction DEF IsPart
<1>2. IsSequence(rows) /\ Len(rows) = m /\ \A j \in 1..m : rows[j] = s[n + j]
  BY DEF IsPart
<1> HIDE DEF m
<1>3. \A x : KeyOf(x, f) = KeyOf(x, F)
  BY DEF KeyOf
<1>4. \A r \in stored : \E h \in Heights : r \in FirstRows(t, h)
  <2>1. ASSUME NEW r \in Firsts(s, n, F) PROVE \E h \in Heights : r \in FirstRows(t, h)
    <3>1. PICK p \in 1..n : r = s[p] /\ IsFirst(s, p, F)
      BY InFirsts
    <3>2. p \in 1..(n + m)
      BY <1>1
    <3>3. \E h \in H : s[p] \in FirstRows(t, h)
      BY <3>1, <3>2, <1>1, FirstIsFirst DEF ClosedTo
    <3>4. QED
      BY <3>1, <3>3
  <2>2. ASSUME NEW r \in RowsOf(t, G) PROVE \E h \in Heights : r \in FirstRows(t, h)
    BY DEF RowsOf
  <2>3. QED
    BY <2>1, <2>2
<1>5. ASSUME NEW r \in stored PROVE Overwritten(r, rows, f) = r
  <2> DEFINE same == {x \in FirstOfKeys(rows, f) : KeyOf(x, f) = KeyOf(r, f)}
             q == CHOOSE x \in same : TRUE
  <2>1. PICK g \in Heights : r \in FirstRows(t, g)
    BY <1>4
  <2>2. RowOf(t, g, r)
    BY <2>1, InFirstRows
  <2>3. r = [c \in DOMAIN r |-> r[c]]
    BY <2>2 DEF RowOf
  <2>4. Overwritten(r, rows, f) =
          IF same = {} THEN r
          ELSE [c \in DOMAIN r |-> IF c \in f.updated THEN q[c] ELSE r[c]]
    BY DEF Overwritten
  <2>5. CASE t # "transactions"
    <3>1. f.updated = {}
      BY <2>5, Clauses
    <3>2. QED
      BY <2>3, <2>4, <3>1
  <2>6. CASE t = "transactions" /\ same # {}
    <3> HIDE DEF stored
    <3>1. q \in same
      BY <2>6
    <3>2. q \in FirstOfKeys(rows, f) /\ KeyOf(q, F) = KeyOf(r, F)
      BY <1>3, <3>1
    <3> HIDE DEF q, same
    <3>3. PICK j \in 1..m : q = s[n + j]
      <4>1. \E j \in 1..Len(rows) : q = rows[j]
        BY <1>2, <3>2, InFirstOfKeys
      <4>2. QED
        BY <1>2, <4>1
    <3>4. n + j \in 1..(n + m)
      BY <1>1
    <3>5. PICK h \in H : \E i \in 1..Len(Lot(t)[h]) : q = Lot(t)[h][i]
      BY <1>1, <3>3, <3>4 DEF Closed, ClosedTo
    <3>6. Lot(t)[h] = Rows[h]["transactions"] /\ Lot(t)[g] = Rows[g]["transactions"]
      BY <2>6 DEF Lot
    <3>7. PICK i \in 1..Len(Rows[h]["transactions"]) : q = Rows[h]["transactions"][i]
      BY <3>5, <3>6
    <3>8. PICK k \in 1..Len(Rows[g]["transactions"]) : r = Rows[g]["transactions"][k]
      BY <2>1, <3>6, InFirstRows
    <3>9. RowOf(t, h, q)
      BY <2>6, <3>7, RawRows DEF RowsOfTable
    <3>10. g = h
      BY <2>2, <3>2, <3>9, KeyOfOneBlock
    <3>11. r.tx_hash = q.tx_hash
      <4>1. q["tx_hash"] = r["tx_hash"]
        BY <2>6, <3>2, SameKey, Clauses
      <4>2. QED
        BY <4>1
    <3>12. r = q
      BY <3>7, <3>8, <3>10, <3>11, OneRowPerTx
    <3>13. QED
      BY <2>3, <2>4, <3>12
  <2>7. QED
    BY <2>4, <2>5, <2>6
<1>6. ASSUME NEW r \in new PROVE r \in Firsts(s, n + m, F)
  <2>1. PICK j \in 1..m : r = rows[j] /\ IsFirst(rows, j, f)
    BY <1>2, InFirstOfKeys
  <2>2. r = s[n + j] /\ n + j \in 1..(n + m)
    BY <1>1, <1>2, <2>1
  <2>3. IsFirst(s, n + j, F)
    <3> SUFFICES ASSUME NEW k \in 1..(n + j - 1), KeyOf(s[k], F) = KeyOf(s[n + j], F)
                 PROVE  FALSE
      BY <1>1 DEF IsFirst
    <3>1. CASE k > n
      <4>1. k - n \in 1..(j - 1) /\ k - n \in 1..m /\ n + (k - n) = k
        BY <1>1, <3>1
      <4>2. KeyOf(rows[k - n], f) # KeyOf(rows[j], f)
        BY <2>1, <4>1 DEF IsFirst
      <4>3. rows[k - n] = s[k]
        BY <1>2, <4>1
      <4>4. QED
        BY <1>3, <2>1, <2>2, <4>2, <4>3
    <3>2. CASE k <= n
      <4>1. n \in Nat /\ k \in 1..n
        BY <1>1, <3>2
      <4>2. PICK q \in 1..k : KeyOf(s[q], F) = KeyOf(s[k], F) /\ IsFirst(s, q, F)
        BY <1>1, <4>1, FirstOfAll
      <4>3. q \in 1..n
        BY <1>1, <4>1
      <4>4. s[q] \in Firsts(s, n, F)
        BY <4>2, <4>3, InFirsts
      <4>5. KeyOf(s[q], f) # KeyOf(r, f)
        BY <4>4, <1>6
      <4>6. QED
        BY <1>3, <2>2, <4>2, <4>5
    <3>3. QED
      BY <1>1, <3>1, <3>2
  <2>4. QED
    BY <2>2, <2>3, InFirsts
<1>7. ASSUME NEW r \in Firsts(s, n + m, F) PROVE r \in stored \union new
  <2>1. PICK i \in 1..(n + m) : r = s[i] /\ IsFirst(s, i, F)
    BY <1>7, InFirsts
  <2>2. CASE i <= n
    <3>1. i \in 1..n
      BY <1>1, <2>2
    <3>2. r \in Firsts(s, n, F)
      BY <2>1, <3>1, InFirsts
    <3>3. QED
      BY <3>2
  <2>3. CASE i > n
    <3>1. i - n \in 1..m /\ n + (i - n) = i
      BY <1>1, <2>3
    <3>2. rows[i - n] = r
      BY <1>2, <2>1, <3>1
    <3>3. IsFirst(rows, i - n, f)
      <4> SUFFICES ASSUME NEW k \in 1..(i - n - 1)
                   PROVE  KeyOf(rows[k], f) # KeyOf(rows[i - n], f)
        BY DEF IsFirst
      <4>1. k \in 1..m /\ n + k \in 1..(i - 1)
        BY <1>1, <3>1
      <4>2. KeyOf(s[n + k], F) # KeyOf(s[i], F)
        BY <2>1, <4>1 DEF IsFirst
      <4>3. QED
        BY <1>2, <1>3, <2>1, <3>2, <4>1, <4>2
    <3>4. r \in FirstOfKeys(rows, f)
      BY <1>2, <3>1, <3>2, <3>3, InFirstOfKeys
    <3>5. ASSUME NEW x \in stored, KeyOf(x, f) = KeyOf(r, f) PROVE r \in stored
      <4>1. KeyOf(x, F) = KeyOf(r, F)
        BY <1>3, <3>5
      <4>2. CASE x \in Firsts(s, n, F)
        <5>1. PICK k \in 1..n : x = s[k]
          BY <4>2, InFirsts
        <5>2. k \in 1..(i - 1)
          BY <1>1, <2>3
        <5>3. KeyOf(s[k], F) # KeyOf(s[i], F)
          BY <2>1, <5>2 DEF IsFirst
        <5>4. QED
          BY <2>1, <4>1, <5>1, <5>3
      <4>3. CASE x \in RowsOf(t, G)
        <5>1. PICK g \in G : x \in FirstRows(t, g)
          BY <4>3 DEF RowsOf
        <5>2. PICK h \in H : r \in FirstRows(t, h)
          BY <2>1, <1>1, FirstIsFirst DEF ClosedTo
        <5>3. x = r
          BY <4>1, <5>1, <5>2, KeyDecides
        <5>4. QED
          BY <5>3, <3>5
      <4>4. QED
        BY <3>5, <4>2, <4>3
    <3>6. QED
      BY <3>4, <3>5
  <2>4. QED
    BY <1>1, <2>2, <2>3
<1>8. Firsts(s, n, F) \subseteq Firsts(s, n + m, F)
  <2> SUFFICES ASSUME NEW r \in Firsts(s, n, F) PROVE r \in Firsts(s, n + m, F)
    OBVIOUS
  <2>1. PICK i \in 1..n : r = s[i] /\ IsFirst(s, i, F)
    BY InFirsts
  <2>2. i \in 1..(n + m)
    BY <1>1
  <2>3. QED
    BY <2>1, <2>2, InFirsts
<1>9. Inserted(stored, rows, f) = {Overwritten(r, rows, f) : r \in stored} \union new
  BY DEF Inserted
<1>10. {Overwritten(r, rows, f) : r \in stored} = stored
  <2> HIDE DEF stored
  <2>1. QED
    BY <1>5
<1>11. stored \union new = RowsOf(t, G) \union Firsts(s, n + m, F)
  <2> HIDE DEF new
  <2>1. QED
    BY <1>6, <1>7, <1>8
<1>12. QED
  BY <1>1, <1>9, <1>10, <1>11

------------------------------------------------------------------------------
(* How buffers are made.                                                   *)
LEMMA NothingMade ==
  ASSUME NEW of
  PROVE  MadeOf(<< >>, of, {})
BY EmptyIsSequence DEF MadeOf, Holds

LEMMA BlockMade ==
  ASSUME NEW of, NEW h, NEW s, IsSequence(s), of[h] = s
  PROVE  MadeOf(s, of, {h})
<1>1. Len(s) \in Nat
  BY SequenceIsFunction
<1>2. ASSUME NEW p \in 1..Len(s) PROVE Closed(s, p, of, {h})
  <2>1. After(s, p, s, p)
    BY DEF After
  <2>2. QED
    BY <2>1 DEF Closed
<1>3. Holds(s, of, {h})
  BY DEF Holds
<1>4. QED
  BY <1>2, <1>3 DEF MadeOf

LEMMA JoinMade ==
  ASSUME NEW of, NEW G, NEW H, NEW a, NEW b, IsSequence(a), IsSequence(b),
         MadeOf(a, of, G), MadeOf(b, of, H)
  PROVE  MadeOf(a \o b, of, G \union H)
<1> DEFINE s == a \o b
           l == Len(a)
           k == Len(b)
<1>1. l \in Nat /\ k \in Nat
  BY SequenceIsFunction
<1>2. /\ Len(s) = l + k
      /\ \A p \in 1..l : s[p] = a[p]
      /\ \A p \in 1..k : s[l + p] = b[p]
  <2> DEFINE T == Range(a) \union Range(b)
  <2>1. a \in Seq(Range(a)) /\ b \in Seq(Range(b))
    BY DEF IsSequence
  <2>2. Range(a) \subseteq T /\ Range(b) \subseteq T
    OBVIOUS
  <2> HIDE DEF T
  <2>3. a \in Seq(T) /\ b \in Seq(T)
    BY <2>1, <2>2, SeqMonotonic
  <2>4. QED
    BY <1>1, <2>3
<1> HIDE DEF s
<1>3. ASSUME NEW p \in 1..l PROVE Closed(s, p, of, G \union H)
  <2>1. PICK h \in G : \E i \in 1..Len(of[h]) : a[p] = of[h][i] /\ After(a, p, of[h], i)
    BY <1>3 DEF MadeOf, Closed
  <2>2. PICK i \in 1..Len(of[h]) : a[p] = of[h][i] /\ After(a, p, of[h], i)
    BY <2>1
  <2>3. After(s, p, of[h], i)
    <3> SUFFICES ASSUME NEW j \in 1..(i - 1) PROVE \E q \in 1..(p - 1) : s[q] = of[h][j]
      BY DEF After
    <3>1. PICK q \in 1..(p - 1) : a[q] = of[h][j]
      BY <2>2 DEF After
    <3>2. q \in 1..l
      BY <1>1
    <3>3. QED
      BY <1>2, <3>1, <3>2
  <2>4. s[p] = of[h][i]
    BY <1>2, <2>2
  <2>5. QED
    BY <2>3, <2>4 DEF Closed
<1>4. ASSUME NEW p \in 1..k PROVE Closed(s, l + p, of, G \union H)
  <2>1. PICK h \in H : \E i \in 1..Len(of[h]) : b[p] = of[h][i] /\ After(b, p, of[h], i)
    BY <1>4 DEF MadeOf, Closed
  <2>2. PICK i \in 1..Len(of[h]) : b[p] = of[h][i] /\ After(b, p, of[h], i)
    BY <2>1
  <2>3. After(s, l + p, of[h], i)
    <3> SUFFICES ASSUME NEW j \in 1..(i - 1)
                 PROVE  \E q \in 1..(l + p - 1) : s[q] = of[h][j]
      BY DEF After
    <3>1. PICK q \in 1..(p - 1) : b[q] = of[h][j]
      BY <2>2 DEF After
    <3>2. q \in 1..k /\ l + q \in 1..(l + p - 1)
      BY <1>1
    <3>3. s[l + q] = of[h][j]
      BY <1>2, <3>1, <3>2
    <3>4. QED
      BY <3>2, <3>3
  <2>4. s[l + p] = of[h][i]
    BY <1>2, <2>2
  <2>5. QED
    BY <2>3, <2>4 DEF Closed
<1>5. \A p \in 1..Len(s) : Closed(s, p, of, G \union H)
  <2> SUFFICES ASSUME NEW p \in 1..Len(s) PROVE Closed(s, p, of, G \union H)
    OBVIOUS
  <2>1. CASE p <= l
    <3>1. p \in 1..l
      BY <1>1, <1>2, <2>1
    <3>2. QED
      BY <1>3, <3>1
  <2>2. CASE p > l
    <3>1. p - l \in 1..k /\ l + (p - l) = p
      BY <1>1, <1>2, <2>2
    <3>2. Closed(s, l + (p - l), of, G \union H)
      BY <1>4, <3>1
    <3>3. QED
      BY <3>1, <3>2
  <2>3. QED
    BY <1>1, <1>2, <2>1, <2>2
<1>6. ASSUME NEW h \in G \union H, NEW i \in 1..Len(of[h])
      PROVE  \E p \in 1..Len(s) : s[p] = of[h][i]
  <2>1. CASE h \in G
    <3>1. PICK p \in 1..l : a[p] = of[h][i]
      BY <2>1 DEF MadeOf, Holds
    <3>2. p \in 1..Len(s) /\ s[p] = of[h][i]
      BY <1>1, <1>2, <3>1
    <3>3. QED
      BY <3>2
  <2>2. CASE h \in H
    <3>1. PICK p \in 1..k : b[p] = of[h][i]
      BY <2>2 DEF MadeOf, Holds
    <3>2. l + p \in 1..Len(s) /\ s[l + p] = of[h][i]
      BY <1>1, <1>2, <3>1
    <3>3. QED
      BY <3>2
  <2>3. QED
    BY <2>1, <2>2
<1>7. QED
  BY <1>5, <1>6 DEF MadeOf, Holds, s

(* Rows that are sent, among those that are to be stored.                  *)
LEMMA ClosedInLot ==
  ASSUME NEW t \in TableNames, NEW H \in SUBSET Heights, NEW s, NEW p,
         Closed(s, p, Raw(t), H), t = "delegation_events" => Complete(s[p])
  PROVE  Closed(s, p, Lot(t), H)
<1>1. CASE t # "delegation_events"
  BY <1>1 DEF Raw, Lot
<1>2. CASE t = "delegation_events"
  <2>1. PICK h \in H : \E i \in 1..Len(Raw(t)[h]) :
          s[p] = Raw(t)[h][i] /\ After(s, p, Raw(t)[h], i)
    BY DEF Closed
  <2> DEFINE R == Raw(t)[h]
             L == Lot(t)[h]
  <2>2. PICK i \in 1..Len(R) : s[p] = R[i] /\ After(s, p, R, i)
    BY <2>1
  <2>3. L = CompleteRows(R)
    BY <1>2 DEF Raw, Lot
  <2>4. IsSequence(R)
    BY RawRows DEF Raw, RowsOfTable
  <2> HIDE DEF R, L
  <2>5. PICK m : CompleteIndex(m, L, R)
    BY <2>3, <2>4, CompleteAre
  <2>6. Len(R) \in Nat
    BY <2>4, SequenceIsFunction
  <2>7. PICK j \in 1..Len(L) : m[j] = i
    BY <1>2, <2>2, <2>5 DEF CompleteIndex
  <2>8. s[p] = L[j]
    BY <2>2, <2>5, <2>7 DEF CompleteIndex
  <2>9. After(s, p, L, j)
    <3> SUFFICES ASSUME NEW k \in 1..(j - 1) PROVE \E q \in 1..(p - 1) : s[q] = L[k]
      BY DEF After
    <3>1. IsSequence(L)
      BY <2>3, <2>4, CompleteAre
    <3>2. k \in 1..Len(L) /\ k < j
      <4>1. Len(L) \in Nat
        BY <3>1, SequenceIsFunction
      <4>2. QED
        BY <4>1
    <3>3. m[k] < m[j] /\ L[k] = R[m[k]] /\ m[k] \in 1..Len(R)
      <4>1. m[k] < m[j]
        BY <2>5, <3>2 DEF CompleteIndex
      <4>2. L[k] = R[m[k]]
        BY <2>5, <3>2 DEF CompleteIndex
      <4>3. m[k] \in 1..Len(R)
        BY <2>5, <3>2 DEF CompleteIndex
      <4>4. QED
        BY <4>1, <4>2, <4>3
    <3>4. m[k] \in 1..(i - 1)
      BY <2>6, <2>7, <3>3
    <3>5. QED
      BY <2>2, <3>3, <3>4 DEF After
  <2>10. QED
    BY <2>8, <2>9 DEF Closed, L
<1>3. QED
  BY <1>1, <1>2

LEMMA HoldsLot ==
  ASSUME NEW t \in TableNames, NEW H \in SUBSET Heights, NEW s, Holds(s, Raw(t), H)
  PROVE  Holds(s, Lot(t), H)
<1>1. CASE t # "delegation_events"
  BY <1>1 DEF Raw, Lot
<1>2. CASE t = "delegation_events"
  <2> SUFFICES ASSUME NEW h \in H, NEW i \in 1..Len(Lot(t)[h])
               PROVE  \E p \in 1..Len(s) : s[p] = Lot(t)[h][i]
    BY DEF Holds
  <2> DEFINE R == Raw(t)[h]
             L == Lot(t)[h]
  <2>1. L = CompleteRows(R) /\ IsSequence(R)
    BY <1>2, RawRows DEF Raw, Lot, RowsOfTable
  <2> HIDE DEF R, L
  <2>2. PICK m : CompleteIndex(m, L, R)
    BY <2>1, CompleteAre
  <2>3. m[i] \in 1..Len(R) /\ L[i] = R[m[i]]
    BY <2>2 DEF CompleteIndex, L
  <2>4. QED
    BY <2>3 DEF Holds, R, L
<1>3. QED
  BY <1>1, <1>2

LEMMA CompleteMade ==
  ASSUME NEW t \in TableNames, t = "delegation_events", NEW H \in SUBSET Heights,
         NEW s, IsSequence(s), MadeOf(s, Raw(t), H)
  PROVE  MadeOf(CompleteRows(s), Lot(t), H)
<1> DEFINE k == CompleteRows(s)
<1>1. IsSequence(k) /\ \E m : CompleteIndex(m, k, s)
  BY CompleteAre
<1> HIDE DEF k
<1>2. PICK m : CompleteIndex(m, k, s)
  BY <1>1
<1>3. Len(k) \in Nat /\ Len(s) \in Nat
  BY <1>1, SequenceIsFunction
<1>4. ASSUME NEW p \in 1..Len(k), NEW q \in 1..Len(k), m[q] < m[p]
      PROVE  q < p
  <2> SUFFICES ASSUME p <= q PROVE FALSE
    BY <1>3
  <2>1. m[p] \in 1..Len(s) /\ m[q] \in 1..Len(s)
    BY <1>2 DEF CompleteIndex
  <2>2. CASE p = q
    BY <1>4, <2>1, <2>2
  <2>3. CASE p < q
    <3>1. m[p] < m[q]
      BY <1>2, <2>3 DEF CompleteIndex
    <3>2. QED
      BY <1>4, <2>1, <3>1
  <2>4. QED
    BY <1>3, <2>2, <2>3
<1>5. ASSUME NEW p \in 1..Len(k) PROVE Closed(k, p, Lot(t), H)
  <2>1. m[p] \in 1..Len(s) /\ k[p] = s[m[p]] /\ Complete(k[p])
    BY <1>2 DEF CompleteIndex
  <2>2. Closed(s, m[p], Lot(t), H)
    BY <2>1, ClosedInLot DEF MadeOf
  <2>3. PICK h \in H : \E i \in 1..Len(Lot(t)[h]) :
          s[m[p]] = Lot(t)[h][i] /\ After(s, m[p], Lot(t)[h], i)
    BY <2>2 DEF Closed
  <2> DEFINE L == Lot(t)[h]
  <2>4. PICK i \in 1..Len(L) : s[m[p]] = L[i] /\ After(s, m[p], L, i)
    BY <2>3
  <2>5. IsSequence(L) /\ \A j \in 1..Len(L) : Complete(L[j])
    <3> DEFINE R == Rows[h][t]
    <3>1. L = CompleteRows(R) /\ IsSequence(R)
      BY RawRows DEF Lot, RowsOfTable
    <3> HIDE DEF R, L
    <3>2. IsSequence(L) /\ \E o : CompleteIndex(o, L, R)
      BY <3>1, CompleteAre
    <3>3. QED
      BY <3>2 DEF CompleteIndex
  <2> HIDE DEF L
  <2>6. After(k, p, L, i)
    <3> SUFFICES ASSUME NEW j \in 1..(i - 1) PROVE \E q \in 1..(p - 1) : k[q] = L[j]
      BY DEF After
    <3>1. PICK o \in 1..(m[p] - 1) : s[o] = L[j]
      BY <2>4 DEF After
    <3>2. o \in 1..Len(s) /\ o < m[p]
      BY <1>3, <2>1
    <3>3. j \in 1..Len(L)
      BY <2>5, SequenceIsFunction
    <3>4. Complete(s[o])
      BY <2>5, <3>1, <3>3
    <3>5. PICK q \in 1..Len(k) : m[q] = o
      BY <1>2, <3>2, <3>4 DEF CompleteIndex
    <3>6. q < p
      BY <1>4, <3>2, <3>5
    <3>7. q \in 1..(p - 1) /\ k[q] = s[o]
      BY <1>2, <1>3, <3>5, <3>6 DEF CompleteIndex
    <3>8. QED
      BY <3>1, <3>7
  <2>7. QED
    BY <2>1, <2>4, <2>6 DEF Closed, L
<1>6. Holds(k, Lot(t), H)
  <2> SUFFICES ASSUME NEW h \in H, NEW i \in 1..Len(Lot(t)[h])
               PROVE  \E p \in 1..Len(k) : k[p] = Lot(t)[h][i]
    BY DEF Holds
  <2>1. PICK o \in 1..Len(s) : s[o] = Lot(t)[h][i]
    <3>1. Holds(s, Lot(t), H)
      BY HoldsLot DEF MadeOf
    <3>2. QED
      BY <3>1 DEF Holds
  <2>2. Complete(s[o])
    <3> DEFINE R == Rows[h][t]
               L == Lot(t)[h]
    <3>1. L = CompleteRows(R) /\ IsSequence(R)
      BY RawRows DEF Lot, RowsOfTable
    <3> HIDE DEF R, L
    <3>2. \E n : CompleteIndex(n, L, R)
      BY <3>1, CompleteAre
    <3>3. QED
      BY <2>1, <3>2 DEF CompleteIndex, L
  <2>3. PICK p \in 1..Len(k) : m[p] = o
    BY <1>2, <2>1, <2>2 DEF CompleteIndex
  <2>4. k[p] = s[o]
    BY <1>2, <2>3 DEF CompleteIndex
  <2>5. QED
    BY <2>1, <2>4
<1>7. QED
  BY <1>5, <1>6 DEF MadeOf, k

(* What is sent of a buffer.                                               *)
LEMMA SentRows ==
  ASSUME NEW t \in TableNames, NEW H \in SUBSET Heights,
         IsSequence(buf[t]), MadeOf(buf[t], Raw(t), H)
  PROVE  /\ IsSequence(Sent(t))
         /\ \A p \in 1..Len(Sent(t)) :
              (t = "delegation_events" => Complete(Sent(t)[p]))
                => Closed(Sent(t), p, Lot(t), H)
         /\ Holds(Sent(t), Lot(t), H)
         /\ mode = "batch-insert" /\ t = "delegation_events"
              => \A p \in 1..Len(Sent(t)) : Complete(Sent(t)[p])
<1>1. CASE t = "delegation_events" /\ mode = "batch-insert"
  <2> DEFINE k == CompleteRows(buf[t])
  <2>1. Sent(t) = k
    BY <1>1 DEF Sent
  <2>2. IsSequence(k) /\ \E m : CompleteIndex(m, k, buf[t])
    BY CompleteAre
  <2>3. MadeOf(k, Lot(t), H)
    BY <1>1, CompleteMade
  <2> HIDE DEF k
  <2>4. \A p \in 1..Len(k) : Complete(k[p])
    BY <2>2 DEF CompleteIndex
  <2>5. QED
    BY <2>1, <2>2, <2>3, <2>4 DEF MadeOf
<1>2. CASE ~(t = "delegation_events" /\ mode = "batch-insert")
  <2>1. Sent(t) = buf[t]
    BY <1>2 DEF Sent
  <2>2. \A p \in 1..Len(buf[t]) :
          (t = "delegation_events" => Complete(buf[t][p])) => Closed(buf[t], p, Lot(t), H)
    BY ClosedInLot DEF MadeOf
  <2>3. Holds(buf[t], Lot(t), H)
    BY HoldsLot DEF MadeOf
  <2>4. QED
    BY <1>2, <2>1, <2>2, <2>3
<1>3. QED
  BY <1>1, <1>2

(* The rows of a buffer, and what is sent of it, are rows of its blocks.   *)
LEMMA MadeOfRows ==
  ASSUME NEW t \in TableNames, NEW H \in SUBSET Heights, NEW s,
         \A p \in 1..Len(s) : Closed(s, p, Raw(t), H), NEW p \in 1..Len(s)
  PROVE  \E h \in H : RowOf(t, h, s[p])
<1>1. PICK h \in H : \E i \in 1..Len(Raw(t)[h]) : s[p] = Raw(t)[h][i]
  BY DEF Closed
<1>2. Raw(t)[h] = Rows[h][t]
  BY DEF Raw
<1>3. QED
  BY <1>1, <1>2, RawRows DEF RowsOfTable

LEMMA SentAre ==
  ASSUME NEW t \in TableNames, NEW H \in SUBSET Heights,
         IsSequence(buf[t]), MadeOf(buf[t], Raw(t), H), NEW p \in 1..Len(Sent(t))
  PROVE  \E h \in H : RowOf(t, h, Sent(t)[p])
<1>1. CASE t = "delegation_events" /\ mode = "batch-insert"
  <2> DEFINE k == CompleteRows(buf[t])
  <2>1. Sent(t) = k
    BY <1>1 DEF Sent
  <2>2. \E m : CompleteIndex(m, k, buf[t])
    BY CompleteAre
  <2> HIDE DEF k
  <2>3. \E o \in 1..Len(buf[t]) : k[p] = buf[t][o]
    BY <2>1, <2>2 DEF CompleteIndex
  <2>4. QED
    BY <2>1, <2>3, MadeOfRows DEF MadeOf
<1>2. CASE ~(t = "delegation_events" /\ mode = "batch-insert")
  <2>1. Sent(t) = buf[t]
    BY <1>2 DEF Sent
  <2>2. QED
    BY <2>1, MadeOfRows DEF MadeOf
<1>3. QED
  BY <1>1, <1>2

------------------------------------------------------------------------------
(* The slices of a statement.                                              *)
LEMMA SliceIs ==
  ASSUME NEW left \in Nat, NEW f, Fits(0, f)
  PROVE  /\ Slice(left, f) \in 0..left /\ Fits(Slice(left, f), f)
         /\ Slice(left, f) = left \/ ~Fits(Slice(left, f) + 1, f)
<1> DEFINE P(count) == Fits(count, f) /\ (count = left \/ ~Fits(count + 1, f))
           S == {count \in 0..left : Fits(count, f)}
<1>1. S \in SUBSET (0..left) /\ S # {}
  OBVIOUS
<1>2. PICK m \in S : \A k \in S : m >= k
  <2> HIDE DEF S
  <2>1. QED
    BY <1>1, HasGreatest
<1>3. m = left \/ ~Fits(m + 1, f)
  <2> SUFFICES ASSUME m # left, Fits(m + 1, f) PROVE FALSE
    OBVIOUS
  <2>1. m + 1 \in 0..left
    OBVIOUS
  <2>2. m + 1 \in S /\ ~(m >= m + 1)
    BY <2>1
  <2>3. QED
    BY <1>2, <2>2
<1>4. \E count \in 0..left : P(count)
  BY <1>2, <1>3
<1>5. Slice(left, f) = CHOOSE count \in 0..left : P(count)
  BY DEF Slice
<1> HIDE DEF P
<1>6. Slice(left, f) \in 0..left /\ P(Slice(left, f))
  BY <1>4, <1>5
<1>7. QED
  BY <1>6 DEF P

LEMMA LimitsAre ==
  ASSUME NEW t \in TableNames
  PROVE  /\ Fits(0, Flusher[t]) /\ Fits(0, Inserter[t])
         /\ Fits(1, Flusher[t]) /\ Fits(1, Inserter[t])
<1>1. Unlimited \in Nat /\ 100 <= Unlimited
  BY SMT DEF Unlimited
<1>2. ASSUME NEW columns \in 1..100, NEW maxRows \in Nat,
             NEW maxParams \in Nat, NEW key, NEW updated
      PROVE  LET f == MultiInsert(columns, maxRows, maxParams, key, updated)
             IN /\ f.columns = columns /\ f.maxRows \in Int /\ f.maxParams \in Int
                /\ Fits(0, Unsliced(f)) /\ Fits(1, Unsliced(f))
  <2> DEFINE f == MultiInsert(columns, maxRows, maxParams, key, updated)
  <2>1. maxRows \div LimitScale \in Int /\ maxParams \div LimitScale \in Int
    BY LimitsAssumption
  <2>2. /\ f.columns = columns /\ f.maxRows \in Int /\ f.maxParams \in Int
        /\ DOMAIN f = {"columns", "maxRows", "maxParams", "key", "updated"}
    BY <2>1 DEF MultiInsert
  <2> HIDE DEF f
  <2>3. /\ Unsliced(f).columns = columns
        /\ Unsliced(f).maxRows = Unlimited /\ Unsliced(f).maxParams = Unlimited
    BY <2>2 DEF Unsliced
  <2>4. Fits(0, Unsliced(f)) /\ Fits(1, Unsliced(f))
    BY SMT, <1>1, <2>3 DEF Fits
  <2>5. QED
    BY <2>2, <2>4 DEF f
<1> DEFINE OK(f, g) ==
             /\ f.columns \in Nat /\ f.maxRows \in Int /\ f.maxParams \in Int
             /\ Fits(0, g) /\ Fits(1, g)
<1> SUFFICES OK(Flusher[t], Inserter[t])
  <2>1. Flusher[t].maxRows >= 1 /\ Flusher[t].maxParams >= Flusher[t].columns
    BY LimitsAssumption
  <2>2. QED
    BY <2>1 DEF Fits
<1>3. CASE t = "blocks"
  <2>1. OK(flushBlocks, Unsliced(flushBlocks))
    BY SMT, <1>2 DEF flushBlocks
  <2> HIDE DEF OK
  <2>2. QED
    BY <1>3, <2>1 DEF Flusher, Inserter, insertBlocks
<1>4. CASE t = "transactions"
  <2>1. OK(flushTxs, Unsliced(flushTxs))
    BY SMT, <1>2 DEF flushTxs
  <2> HIDE DEF OK
  <2>2. QED
    BY <1>4, <2>1 DEF Flusher, Inserter, insertTxs
<1>5. CASE t = "messages"
  <2>1. OK(flushMsgs, Unsliced(flushMsgs))
    BY SMT, <1>2 DEF flushMsgs
  <2> HIDE DEF OK
  <2>2. QED
    BY <1>5, <2>1 DEF Flusher, Inserter, insertMsgs
<1>6. CASE t = "events"
  <2>1. OK(flushEvents, Unsliced(flushEvents))
    BY SMT, <1>2 DEF flushEvents
  <2> HIDE DEF OK
  <2>2. QED
    BY <1>6, <2>1 DEF Flusher, Inserter, insertEvents
<1>7. CASE t = "event_attrs"
  <2>1. OK(flushAttrs, Unsliced(flushAttrs))
    BY SMT, <1>2 DEF flushAttrs
  <2> HIDE DEF OK
  <2>2. QED
    BY <1>7, <2>1 DEF Flusher, Inserter, insertAttrs
<1>8. CASE t = "transfers"
  <2>1. OK(flushTransfers, Unsliced(flushTransfers))
    BY SMT, <1>2 DEF flushTransfers
  <2> HIDE DEF OK
  <2>2. QED
    BY <1>8, <2>1 DEF Flusher, Inserter, insertTransfers
<1>9. CASE t = "delegation_events"
  <2>1. OK(flushStakeDeleg, Unsliced(flushStakeDeleg))
    BY SMT, <1>2 DEF flushStakeDeleg
  <2> HIDE DEF OK
  <2>2. QED
    BY <1>9, <2>1 DEF Flusher, Inserter, insertStakeDeleg
<1>10. CASE t = "distribution_events"
  <2>1. OK(flushStakeDistr, Unsliced(flushStakeDistr))
    BY SMT, <1>2 DEF flushStakeDistr
  <2> HIDE DEF OK
  <2>2. QED
    BY <1>10, <2>1 DEF Flusher, Inserter, insertStakeDistr
<1>11. CASE t = "executions"
  <2>1. OK(flushWasmExec, Unsliced(flushWasmExec))
    BY SMT, <1>2 DEF flushWasmExec
  <2> HIDE DEF OK
  <2>2. QED
    BY <1>11, <2>1 DEF Flusher, Inserter, insertWasmExec
<1>12. CASE t = "wasm_events"
  <2>1. OK(flushWasmEvents, Unsliced(flushWasmEvents))
    BY SMT, <1>2 DEF flushWasmEvents
  <2> HIDE DEF OK
  <2>2. QED
    BY <1>12, <2>1 DEF Flusher, Inserter, insertWasmEvents
<1> HIDE DEF OK
<1>13. QED
  BY <1>3, <1>4, <1>5, <1>6, <1>7, <1>8, <1>9, <1>10, <1>11, <1>12, TableOrderFacts

------------------------------------------------------------------------------
(* Partitions.                                                             *)
LEMMA Multiple ==
  ASSUME NEW q \in Nat, NEW k \in Nat, q < k
  PROVE  q * STEP + STEP <= k * STEP
<1>1. STEP \in Nat /\ STEP > 0
  BY LimitsAssumption
<1>2. k - (q + 1) \in Nat
  OBVIOUS
<1>3. (k - (q + 1)) * STEP \in Nat
  BY <1>1, <1>2
<1>4. (k - (q + 1)) * STEP = k * STEP - (q * STEP + STEP)
  BY <1>1
<1>5. q * STEP \in Nat /\ k * STEP \in Nat
  BY <1>1
<1>6. QED
  BY <1>1, <1>3, <1>4, <1>5

LEMMA PartitionIs ==
  ASSUME NEW h \in Nat
  PROVE  /\ PartitionFrom(h) \in Nat
         /\ \E q \in Nat : PartitionFrom(h) = q * STEP
         /\ PartitionFrom(h) <= h /\ h < PartitionFrom(h) + STEP
         /\ Covers(PartitionFrom(h), h)
<1>1. STEP \in Nat /\ STEP > 0
  BY LimitsAssumption
<1> DEFINE q == h \div STEP
<1>2. q \in Nat
  BY <1>1
<1>3. h = STEP * q + (h % STEP) /\ h % STEP \in 0..(STEP - 1)
  BY <1>1
<1> HIDE DEF q
<1>4. STEP * q = q * STEP /\ q * STEP \in Nat
  BY <1>1, <1>2
<1>5. q * STEP <= h /\ h < q * STEP + STEP
  BY <1>1, <1>3, <1>4
<1>6. PartitionFrom(h) = q * STEP
  BY DEF PartitionFrom, q
<1>7. QED
  BY <1>1, <1>2, <1>4, <1>5, <1>6 DEF Covers

LEMMA PartitionsInOrder ==
  ASSUME NEW g \in Nat, NEW h \in Nat
  PROVE  /\ g <= h => PartitionFrom(g) <= PartitionFrom(h)
         /\ PartitionFrom(h) < PartitionFrom(g) + STEP
              => PartitionFrom(h) <= PartitionFrom(g)
         /\ PartitionFrom(PartitionFrom(g)) = PartitionFrom(g)
         /\ PartitionFrom(PartitionFrom(g) + STEP) = PartitionFrom(g) + STEP
<1>1. STEP \in Nat /\ STEP > 0
  BY LimitsAssumption
<1>2. ASSUME NEW x \in Nat, NEW q \in Nat, q * STEP <= x, x < q * STEP + STEP
      PROVE  PartitionFrom(x) = q * STEP
  <2>1. PICK k \in Nat : PartitionFrom(x) = k * STEP
    BY PartitionIs
  <2>2. k * STEP <= x /\ x < k * STEP + STEP
    BY <2>1, PartitionIs
  <2>3. q * STEP \in Nat /\ k * STEP \in Nat
    BY <1>1
  <2>4. ~(q < k)
    BY <1>1, <1>2, <2>2, <2>3, Multiple
  <2>5. ~(k < q)
    BY <1>1, <1>2, <2>2, <2>3, Multiple
  <2>6. q = k
    BY <2>4, <2>5
  <2>7. QED
    BY <2>1, <2>6
<1>3. PICK q \in Nat : PartitionFrom(g) = q * STEP
  BY PartitionIs
<1>4. PICK k \in Nat : PartitionFrom(h) = k * STEP
  BY PartitionIs
<1>5. q * STEP \in Nat /\ k * STEP \in Nat
  BY <1>1
<1>6. /\ q * STEP <= g /\ g < q * STEP + STEP
      /\ k * STEP <= h /\ h < k * STEP + STEP
  BY <1>3, <1>4, PartitionIs
<1>7. k < q => k * STEP + STEP <= q * STEP
  BY Multiple
<1>8. q < k => q * STEP + STEP <= k * STEP
  BY Multiple
<1>9. q = k => q * STEP = k * STEP
  OBVIOUS
<1>10. g <= h => q * STEP <= k * STEP
  BY <1>1, <1>5, <1>6, <1>7, <1>8, <1>9
<1>11. k * STEP < q * STEP + STEP => k * STEP <= q * STEP
  BY <1>1, <1>5, <1>7, <1>8, <1>9
<1>12. PartitionFrom(q * STEP) = q * STEP
  BY <1>1, <1>2, <1>5
<1>13. PartitionFrom(q * STEP + STEP) = q * STEP + STEP
  <2>1. (q + 1) * STEP = q * STEP + STEP /\ q + 1 \in Nat
    BY <1>1
  <2>2. q * STEP + STEP \in Nat
    BY <1>1, <1>5
  <2>3. QED
    BY <1>1, <1>2, <2>1, <2>2
<1>14. QED
  BY <1>3, <1>4, <1>10, <1>11, <1>12, <1>13

------------------------------------------------------------------------------
(***************************************************************************)
(* The invariant.  H are the blocks of the flush under way, or of the next *)
(* one: until the tables are inserted every buffer holds their rows, in    *)
(* the order of each block, and no other rows; after that the open         *)
(* transaction has for each table either the first rows of all blocks, or  *)
(* those of the part of the buffer that was sent, or what was committed.   *)
(***************************************************************************)
BuffersOf(b) ==
  /\ b = [t \in TableNames |-> b[t]]
  /\ \A t \in TableNames :
       IsSequence(b[t]) /\ \A i \in DOMAIN b[t] : b[t][i].height \in Heights
Stored == StoredHeights \subseteq Heights /\ TablesHoldFirstRows

Filled(n, H) == \A i \in n..10 : MadeOf(buf[TableOrder[i]], Raw(TableOrder[i]), H)
Emptied(n) == \A i \in 1..(n - 1) : buf[TableOrder[i]] = << >>
HavePartitions(H) ==
  \A h \in H, t \in RANGE_TABLES : <<t, PartitionFrom(h)>> \in parts

Collecting(H) == Filled(1, H) /\ sent = 0
Partitioning(H) ==
  /\ Filled(1, H) /\ H # {} /\ sent = 0
  /\ base = PartitionFrom(base)
  /\ \A h \in H, t \in RANGE_TABLES :
       PartitionFrom(h) < base => <<t, PartitionFrom(h)>> \in parts
  /\ \A i \in 1..(table - 1) :
       TableOrder[i] \in RANGE_TABLES => <<TableOrder[i], base>> \in parts
Inserting(H) ==
  /\ Filled(table, H) /\ Emptied(table) /\ HavePartitions(H)
  /\ \A i \in 1..(table - 1) :
       txn[TableOrder[i]] = RowsOf(TableOrder[i], StoredHeights \union H)
  /\ txn[Name] = db[Name] \union Firsts(Sent(Name), sent, Flusher[Name])
  /\ \A i \in (table + 1)..10 : txn[TableOrder[i]] = db[TableOrder[i]]
  /\ Name = "delegation_events" => \A p \in 1..sent : Complete(Sent(Name)[p])
Committing(H) ==
  /\ \A t \in TableNames : buf[t] = << >>
  /\ sent = 0
  /\ \A t \in TableNames : txn[t] = RowsOf(t, StoredHeights \union H)

FlushInv(H) ==
  /\ \A h \in H : h <= last
  /\ pc = "idle" => Collecting(H)
  /\ pc = "partitions" => Partitioning(H)
  /\ pc = "insert" => Inserting(H)
  /\ pc = "commit" => Committing(H)

IInv ==
  /\ TypeOK /\ BuffersOf(buf) /\ Stored
  /\ \E H \in SUBSET Heights : FlushInv(H)

------------------------------------------------------------------------------
LEMMA EmptyBuffers ==
  /\ BuffersOf(EmptyBuf)
  /\ \A t \in TableNames : EmptyBuf[t] = << >>
  /\ \A t \in TableNames : MadeOf(EmptyBuf[t], Raw(t), {})
<1>1. \A t \in TableNames : EmptyBuf[t] = << >>
  BY DEF EmptyBuf
<1>2. \A t \in TableNames : MadeOf(EmptyBuf[t], Raw(t), {})
  BY <1>1, NothingMade
<1>3. EmptyBuf = [t \in TableNames |-> EmptyBuf[t]]
  BY DEF EmptyBuf
<1>4. QED
  BY <1>1, <1>2, <1>3, EmptyIsSequence DEF BuffersOf

LEMMA RowsOfUnion ==
  ASSUME NEW t, NEW G, NEW H
  PROVE  RowsOf(t, G \union H) = RowsOf(t, G) \union RowsOf(t, H)
BY DEF RowsOf

LEMMA StoredRows ==
  ASSUME Stored, NEW t \in TableNames
  PROVE  db[t] = RowsOf(t, StoredHeights)
BY DEF Stored, TablesHoldFirstRows, RowsOf

LEMMA SameStored ==
  ASSUME Stored, UNCHANGED db
  PROVE  Stored' /\ StoredHeights' = StoredHeights
<1>1. StoredHeights' = StoredHeights
  BY DEF StoredHeights
<1>2. QED
  BY <1>1 DEF Stored, TablesHoldFirstRows

(* The length of what is sent, for the buffers after a step.               *)
LEMMA SentAfter ==
  ASSUME NEW t \in TableNames, BuffersOf(buf')
  PROVE  IsSequence(Sent(t)') /\ Len(Sent(t)') \in Nat
<1>1. IsSequence(buf'[t])
  BY DEF BuffersOf
<1>2. IsSequence(CompleteRows(buf'[t]))
  BY <1>1, CompleteAre
<1>3. IsSequence(Sent(t)')
  BY <1>1, <1>2 DEF Sent
<1>4. QED
  BY <1>3, SequenceIsFunction

LEMMA TypesAfter ==
  ASSUME BuffersOf(buf'), mode' \in Modes, last' \in Heights \union {NoHeight},
         runs' \in 0..MaxRuns, pc' \in {"idle", "partitions", "insert", "commit", "failed"},
         base' \in Nat, table' \in 1..10, sent' = 0,
         parts' \subseteq RANGE_TABLES \X Nat, DOMAIN txn' = TableNames, DOMAIN db' = TableNames
  PROVE  TypeOK'
<1>1. Name' \in TableNames
  BY TableOrderFacts DEF Name
<1>2. Len(Sent(Name)') \in Nat
  <2>1. ASSUME NEW t \in TableNames PROVE Len(Sent(t)') \in Nat
    BY SentAfter
  <2>2. QED
    BY <1>1, <2>1 DEF Sent
<1>3. sent' \in 0..Len(Sent(Name)')
  BY <1>2
<1>4. QED
  BY <1>3, TableOrderFacts DEF TypeOK, BuffersOf

LEMMA InitIInv == Init => IInv
<1> SUFFICES ASSUME Init PROVE IInv
  OBVIOUS
<1>1. buf = EmptyBuf /\ db = EmptyDb /\ pc = "idle" /\ sent = 0 /\ last = NoHeight /\ table = 1
  BY DEF Init
<1>2. BuffersOf(buf)
  BY <1>1, EmptyBuffers
<1>3. StoredHeights = {} /\ Stored
  <2>1. \A t \in TableNames : db[t] = {}
    BY <1>1 DEF EmptyDb
  <2>2. StoredHeights = {}
    BY <2>1, TableOrderFacts DEF StoredHeights
  <2>3. QED
    BY <2>1, <2>2 DEF Stored, TablesHoldFirstRows
<1>4. TypeOK
  <2>1. Sent(Name) = << >>
    <3>1. Name = "blocks"
      BY <1>1, TableOrderFacts DEF Name
    <3>2. QED
      BY <1>1, <3>1, EmptyBuffers, TableOrderFacts DEF Sent
  <2>2. sent \in 0..Len(Sent(Name))
    BY <1>1, <2>1, EmptyIsSequence
  <2>3. DOMAIN txn = TableNames /\ DOMAIN db = TableNames
    BY DEF Init, EmptyDb
  <2>4. parts \subseteq RANGE_TABLES \X Nat
    BY DEF Init
  <2>5. QED
    BY <1>1, <1>2, <2>2, <2>3, <2>4, TableOrderFacts, HeightsAssumption
       DEF TypeOK, Init, BuffersOf
<1>5. FlushInv({})
  <2>1. Filled(1, {})
    BY <1>1, EmptyBuffers, TableOrderFacts DEF Filled
  <2>2. QED
    BY <1>1, <2>1 DEF FlushInv, Collecting
<1>6. QED
  BY <1>2, <1>3, <1>4, <1>5 DEF IInv

LEMMA WriteBlockKeeps ==
  ASSUME IInv, NEW H \in SUBSET Heights, FlushInv(H), NEW h \in Heights, WriteBlock(h)
  PROVE  IInv' /\ FlushInv(H \union {h})'
<1>1. FlushInv(H)
  OBVIOUS
<1>2. Filled(1, H) /\ sent = 0
  BY <1>1 DEF FlushInv, WriteBlock, Collecting
<1>3. ASSUME NEW t \in TableNames
      PROVE  /\ buf'[t] = buf[t] \o Rows[h][t]
             /\ IsSequence(buf[t]) /\ IsSequence(Rows[h][t])
             /\ IsSequence(buf'[t])
             /\ \A i \in DOMAIN buf'[t] : buf'[t][i].height \in Heights
  <2> DEFINE a == buf[t]
             b == Rows[h][t]
             s == buf'[t]
  <2>1. s = a \o b
    BY DEF WriteBlock
  <2>2. IsSequence(a) /\ \A i \in DOMAIN a : a[i].height \in Heights
    BY DEF IInv, BuffersOf
  <2>3. RowsOfTable(t, h, b)
    BY RawRows
  <2> HIDE DEF a, b, s
  <2>4. IsSequence(b) /\ \A i \in DOMAIN b : b[i].height \in Heights
    BY <2>3, SequenceIsFunction DEF RowsOfTable, RowOf
  <2>5. IsSequence(s) /\ Range(s) = Range(a) \union Range(b)
    BY <2>1, <2>2, <2>4, Joined
  <2>6. \A r \in Range(s) : r.height \in Heights
    BY <2>2, <2>4, <2>5 DEF Range
  <2>7. \A i \in DOMAIN s : s[i].height \in Heights
    BY <2>6 DEF Range
  <2>8. QED
    BY <2>1, <2>2, <2>4, <2>5, <2>7 DEF a, b, s
<1>4. BuffersOf(buf')
  BY <1>3 DEF WriteBlock, BuffersOf
<1>5. Stored'
  BY SameStored DEF IInv, WriteBlock
<1>6. TypeOK'
  BY <1>2, <1>4, TypesAfter, TableOrderFacts DEF IInv, TypeOK, WriteBlock
<1>7. Filled(1, H \union {h})'
  <2> SUFFICES ASSUME NEW i \in 1..10
               PROVE  MadeOf(buf'[TableOrder[i]], Raw(TableOrder[i]), H \union {h})
    BY DEF Filled
  <2> DEFINE t == TableOrder[i]
  <2>1. t \in TableNames
    BY TableOrderFacts
  <2>2. MadeOf(buf[t], Raw(t), H)
    BY <1>2 DEF Filled
  <2> HIDE DEF t
  <2>3. MadeOf(Rows[h][t], Raw(t), {h})
    BY <1>3, <2>1, BlockMade DEF Raw
  <2>4. MadeOf(buf[t] \o Rows[h][t], Raw(t), H \union {h})
    BY <1>3, <2>1, <2>2, <2>3, JoinMade
  <2>5. QED
    BY <1>3, <2>1, <2>4 DEF t
<1>8. FlushInv(H \union {h})'
  <2>1. \A g \in H \union {h} : g <= last'
    <3>1. last \in Heights \union {NoHeight} /\ \A g \in H : g <= last
      BY <1>1 DEF FlushInv, IInv, TypeOK
    <3>2. h > last /\ last' = h
      BY DEF WriteBlock
    <3>3. QED
      BY <3>1, <3>2, HeightsAssumption DEF NoHeight
  <2>2. pc' = "idle" /\ sent' = 0
    BY <1>2 DEF WriteBlock
  <2>3. QED
    BY <1>7, <2>1, <2>2 DEF FlushInv, Collecting
<1>9. QED
  BY <1>4, <1>5, <1>6, <1>8 DEF IInv

LEMMA WriteBlockAtomicKeeps ==
  ASSUME IInv, NEW H \in SUBSET Heights, FlushInv(H), NEW h \in Heights, WriteBlockAtomic(h)
  PROVE  IInv' /\ FlushInv({h})'
<1>1. FlushInv(H)
  OBVIOUS
<1>2. sent = 0
  BY <1>1 DEF FlushInv, WriteBlockAtomic, Collecting
<1>3. BuffersOf(buf')
  <2>1. Rows[h] = [t \in TableNames |-> Rows[h][t]]
    BY TableOrderFacts DEF Rows, extractRows
  <2>2. \A t \in TableNames : RowsOfTable(t, h, Rows[h][t])
    BY RawRows
  <2>3. ASSUME NEW t \in TableNames
        PROVE  IsSequence(Rows[h][t])
               /\ \A i \in DOMAIN Rows[h][t] : Rows[h][t][i].height \in Heights
    <3> DEFINE s == Rows[h][t]
    <3>1. IsSequence(s) /\ \A i \in 1..Len(s) : RowOf(t, h, s[i])
      BY <2>2 DEF RowsOfTable
    <3> HIDE DEF s
    <3>2. DOMAIN s = 1..Len(s)
      BY <3>1, SequenceIsFunction
    <3>3. \A i \in DOMAIN s : s[i].height \in Heights
      BY <3>1, <3>2 DEF RowOf
    <3>4. QED
      BY <3>1, <3>3 DEF s
  <2>4. BuffersOf(Rows[h])
    BY <2>1, <2>3 DEF BuffersOf
  <2>5. QED
    BY <2>4 DEF WriteBlockAtomic
<1>4. Stored'
  BY SameStored DEF IInv, WriteBlockAtomic
<1>5. h \in Nat /\ PartitionFrom(h) \in Nat /\ PartitionFrom(PartitionFrom(h)) = PartitionFrom(h)
  BY HeightsAssumption, PartitionIs, PartitionsInOrder
<1>6. TypeOK'
  BY <1>2, <1>3, <1>5, TypesAfter, TableOrderFacts DEF IInv, TypeOK, WriteBlockAtomic
<1>7. Filled(1, {h})'
  <2>1. \A t \in TableNames : MadeOf(Rows[h][t], Raw(t), {h})
    BY RawRows, BlockMade DEF Raw, RowsOfTable
  <2>2. QED
    BY <2>1, TableOrderFacts DEF Filled, WriteBlockAtomic
<1>8. FlushInv({h})'
  <2>1. \A g \in {h} : g <= last'
    BY <1>5 DEF WriteBlockAtomic
  <2>2. /\ pc' = "partitions" /\ sent' = 0 /\ table' = 1
        /\ base' = PartitionFrom(h)
    BY <1>2 DEF WriteBlockAtomic
  <2>3. Partitioning({h})'
    BY <1>5, <1>7, <2>2 DEF Partitioning
  <2>4. QED
    BY <2>1, <2>2, <2>3 DEF FlushInv
<1>9. QED
  BY <1>3, <1>4, <1>6, <1>8 DEF IInv

(* The heights of a flush are those of the buffered rows of core.blocks.   *)
LEMMA HeightsBuffered ==
  ASSUME NEW H \in SUBSET Heights, BuffersOf(buf), Filled(1, H)
  PROVE  BufferedHeights = H
<1> DEFINE s == buf["blocks"]
<1>1. MadeOf(s, Raw("blocks"), H)
  BY TableOrderFacts DEF Filled
<1>2. DOMAIN s = 1..Len(s)
  BY TableOrderFacts, SequenceIsFunction DEF BuffersOf
<1>3. \A h \in Heights :
        /\ Len(Raw("blocks")[h]) = 1
        /\ Raw("blocks")[h][1].height = h
  <2> SUFFICES ASSUME NEW h \in Heights
               PROVE  Len(Raw("blocks")[h]) = 1 /\ Raw("blocks")[h][1].height = h
    OBVIOUS
  <2>1. Raw("blocks")[h] = <<[height |-> h]>>
    BY RowsOfBlock DEF Raw
  <2>2. QED
    BY <2>1
<1> HIDE DEF s
<1>4. ASSUME NEW p \in 1..Len(s) PROVE s[p].height \in H
  <2>1. PICK h \in H : \E i \in 1..Len(Raw("blocks")[h]) : s[p] = Raw("blocks")[h][i]
    BY <1>1 DEF MadeOf, Closed
  <2>2. Len(Raw("blocks")[h]) = 1 /\ Raw("blocks")[h][1].height = h
    BY <1>3
  <2>3. QED
    BY <2>1, <2>2
<1>5. ASSUME NEW h \in H PROVE \E p \in 1..Len(s) : s[p].height = h
  <2>1. Len(Raw("blocks")[h]) = 1 /\ Raw("blocks")[h][1].height = h
    BY <1>3
  <2>2. \E p \in 1..Len(s) : s[p] = Raw("blocks")[h][1]
    BY <1>1, <2>1 DEF MadeOf, Holds
  <2>3. QED
    BY <2>1, <2>2
<1>6. QED
  BY <1>2, <1>4, <1>5 DEF BufferedHeights, s

LEMMA SpanOfHeights ==
  ASSUME NEW H \in SUBSET Heights, H # {}, BuffersOf(buf), Filled(1, H),
         last \in Heights \union {NoHeight}, \A h \in H : h <= last
  PROVE  /\ minH \in H /\ \A g \in H : minH <= g
         /\ maxH \in H /\ \A g \in H : maxH >= g
<1>1. BufferedHeights = H /\ H \in SUBSET Nat
  BY HeightsBuffered, HeightsAssumption
<1>2. \E m \in H : \A g \in H : m <= g
  BY <1>1, HasLeast
<1>3. last \in Nat /\ H \in SUBSET (0..last)
  <2>1. PICK h \in H : h \in Nat /\ h <= last
    BY <1>1
  <2>2. last \in Int
    BY HeightsAssumption DEF NoHeight
  <2>3. last \in Nat
    BY <2>1, <2>2
  <2>4. \A g \in H : g \in 0..last
    BY <1>1, <2>3
  <2>5. QED
    BY <2>3, <2>4
<1>4. \E m \in H : \A g \in H : m >= g
  BY <1>3, HasGreatest
<1>5. QED
  BY <1>1, <1>2, <1>4 DEF minH, maxH

LEMMA StartFlushKeeps ==
  ASSUME IInv, NEW H \in SUBSET Heights, FlushInv(H), StartFlush
  PROVE  IInv' /\ FlushInv(H)'
<1>1. FlushInv(H)
  OBVIOUS
<1>2. Filled(1, H) /\ sent = 0 /\ \A h \in H : h <= last
  BY <1>1 DEF FlushInv, StartFlush, Collecting
<1>3. BuffersOf(buf) /\ BuffersOf(buf')
  BY DEF IInv, StartFlush
<1>4. H # {}
  <2> SUFFICES ASSUME H = {} PROVE FALSE
    OBVIOUS
  <2>1. ASSUME NEW t \in TableNames PROVE buf[t] = << >>
    <3>1. PICK i \in 1..10 : TableOrder[i] = t
      BY TableOrderFacts
    <3>2. MadeOf(buf[t], Raw(t), {})
      BY <1>2, <3>1 DEF Filled
    <3>3. \A p \in 1..Len(buf[t]) : FALSE
      BY <3>2 DEF MadeOf, Closed
    <3>4. buf[t] \in Seq(Range(buf[t])) /\ Len(buf[t]) \in Nat
      BY <1>3, SequenceIsFunction DEF BuffersOf
    <3>5. Len(buf[t]) = 0
      BY <3>3, <3>4
    <3>6. QED
      BY <3>4, <3>5, EmptySeq
  <2>2. buf = EmptyBuf
    BY <1>3, <2>1 DEF BuffersOf, EmptyBuf
  <2>3. QED
    BY <2>2 DEF StartFlush
<1>5. minH \in H /\ \A g \in H : minH <= g
  BY <1>2, <1>3, <1>4, SpanOfHeights DEF IInv, TypeOK
<1>6. Stored'
  BY SameStored DEF IInv, StartFlush
<1>7. minH \in Nat /\ PartitionFrom(minH) \in Nat
      /\ PartitionFrom(PartitionFrom(minH)) = PartitionFrom(minH)
  BY <1>5, HeightsAssumption, PartitionIs, PartitionsInOrder
<1>8. TypeOK'
  BY <1>2, <1>3, <1>7, TypesAfter, TableOrderFacts DEF IInv, TypeOK, StartFlush
<1>9. \A h \in H : ~(PartitionFrom(h) < PartitionFrom(minH))
  <2> SUFFICES ASSUME NEW h \in H PROVE ~(PartitionFrom(h) < PartitionFrom(minH))
    OBVIOUS
  <2>1. h \in Nat /\ minH <= h
    BY <1>5, HeightsAssumption
  <2>2. PartitionFrom(minH) <= PartitionFrom(h) /\ PartitionFrom(h) \in Nat
    BY <1>7, <2>1, PartitionIs, PartitionsInOrder
  <2>3. QED
    BY <1>7, <2>2
<1>10. Filled(1, H)'
  BY <1>2 DEF Filled, StartFlush
<1>11. FlushInv(H)'
  <2>1. /\ pc' = "partitions" /\ sent' = 0 /\ table' = 1 /\ last' = last
        /\ base' = PartitionFrom(minH)
    BY <1>2 DEF StartFlush
  <2>2. Partitioning(H)'
    BY <1>4, <1>7, <1>9, <1>10, <2>1 DEF Partitioning
  <2>3. QED
    BY <1>2, <2>1, <2>2 DEF FlushInv
<1>12. QED
  BY <1>3, <1>6, <1>8, <1>11 DEF IInv

LEMMA CreatePartitionKeeps ==
  ASSUME IInv, NEW H \in SUBSET Heights, FlushInv(H), CreatePartition
  PROVE  IInv' /\ FlushInv(H)'
<1>1. FlushInv(H)
  OBVIOUS
<1>2. Partitioning(H) /\ \A h \in H : h <= last
  BY <1>1 DEF FlushInv, CreatePartition
<1>3. BuffersOf(buf') /\ Stored'
  BY SameStored DEF IInv, CreatePartition
<1>4. base \in Nat /\ table \in 1..10 /\ STEP \in Nat /\ Len(TableOrder) = 10
  BY LimitsAssumption, TableOrderFacts DEF IInv, TypeOK
<1>5. parts' \subseteq RANGE_TABLES \X Nat
  BY <1>4 DEF IInv, TypeOK, CreatePartition
<1>6. table' \in 1..10 /\ base' \in Nat
  BY <1>4 DEF CreatePartition
<1>7. TypeOK'
  BY <1>2, <1>3, <1>5, <1>6, TypesAfter DEF IInv, TypeOK, CreatePartition, Partitioning
<1>8. Filled(1, H)' /\ sent' = 0 /\ last' = last /\ pc' = "partitions"
  BY <1>2 DEF Partitioning, Filled, CreatePartition
<1>9. parts \subseteq parts' /\ (Name \in RANGE_TABLES => <<Name, base>> \in parts')
  BY DEF CreatePartition
<1>10. CASE table < 10
  <2>1. table' = table + 1 /\ base' = base
    BY <1>4, <1>10 DEF CreatePartition
  <2>2. ASSUME NEW i \in 1..(table' - 1), TableOrder[i] \in RANGE_TABLES
        PROVE  <<TableOrder[i], base>> \in parts'
    <3>1. CASE i = table
      BY <1>9, <2>2, <3>1 DEF Name
    <3>2. CASE i # table
      <4>1. i \in 1..(table - 1)
        BY <1>4, <2>1, <3>2
      <4>2. QED
        BY <1>2, <1>9, <2>2, <4>1 DEF Partitioning
    <3>3. QED
      BY <3>1, <3>2
  <2>3. Partitioning(H)'
    BY <1>2, <1>8, <1>9, <2>1, <2>2 DEF Partitioning
  <2>4. QED
    BY <1>2, <1>3, <1>7, <1>8, <2>3 DEF IInv, FlushInv
<1>11. CASE table = 10
  <2>1. table' = 1 /\ base' = base + STEP
    BY <1>4, <1>11 DEF CreatePartition
  <2>2. base' = PartitionFrom(base')
    BY <1>2, <1>4, <2>1, PartitionsInOrder DEF Partitioning
  <2>3. ASSUME NEW h \in H, NEW t \in RANGE_TABLES, PartitionFrom(h) < base'
        PROVE  <<t, PartitionFrom(h)>> \in parts'
    <3>1. h \in Nat /\ PartitionFrom(h) \in Nat
      BY HeightsAssumption, PartitionIs
    <3>2. PartitionFrom(h) <= base
      BY <1>2, <1>4, <2>1, <2>3, <3>1, PartitionsInOrder DEF Partitioning
    <3>3. CASE PartitionFrom(h) < base
      BY <1>2, <1>9, <3>3 DEF Partitioning
    <3>4. CASE PartitionFrom(h) = base
      <4>1. PICK i \in 1..10 : TableOrder[i] = t
        BY TableOrderFacts DEF RANGE_TABLES
      <4>2. CASE i = 10
        BY <1>9, <1>11, <3>4, <4>1, <4>2 DEF Name
      <4>3. CASE i # 10
        <5>1. i \in 1..(table - 1)
          BY <1>11, <4>3
        <5>2. QED
          BY <1>2, <1>9, <3>4, <4>1, <5>1 DEF Partitioning
      <4>4. QED
        BY <4>2, <4>3
    <3>5. QED
      BY <1>4, <3>1, <3>2, <3>3, <3>4
  <2>4. Partitioning(H)'
    BY <1>2, <1>8, <2>1, <2>2, <2>3 DEF Partitioning
  <2>5. QED
    BY <1>2, <1>3, <1>7, <1>8, <2>4 DEF IInv, FlushInv
<1>12. QED
  BY <1>4, <1>10, <1>11

LEMMA BeginInsertsKeeps ==
  ASSUME IInv, NEW H \in SUBSET Heights, FlushInv(H), BeginInserts
  PROVE  IInv' /\ FlushInv(H)'
<1>1. FlushInv(H)
  OBVIOUS
<1>2. Partitioning(H) /\ \A h \in H : h <= last
  BY <1>1 DEF FlushInv, BeginInserts
<1>3. BuffersOf(buf') /\ Stored' /\ StoredHeights' = StoredHeights
  BY SameStored DEF IInv, BeginInserts
<1>4. TypeOK'
  BY <1>3, TypesAfter, TableOrderFacts DEF IInv, TypeOK, BeginInserts
<1>5. maxH \in H /\ \A g \in H : maxH >= g
  BY <1>2, SpanOfHeights DEF IInv, TypeOK, Partitioning
<1>6. HavePartitions(H)
  <2> SUFFICES ASSUME NEW h \in H, NEW t \in RANGE_TABLES
               PROVE  <<t, PartitionFrom(h)>> \in parts
    BY DEF HavePartitions
  <2>1. h \in Nat /\ maxH \in Nat /\ h <= maxH
    BY <1>5, HeightsAssumption
  <2>2. PartitionFrom(h) <= PartitionFrom(maxH)
    BY <2>1, PartitionsInOrder
  <2>3. PartitionFrom(maxH) < base
    <3>1. base \in Nat /\ PartitionFrom(maxH) \in Nat
      BY <2>1, PartitionIs DEF IInv, TypeOK
    <3>2. QED
      BY <3>1 DEF BeginInserts, EndBase
  <2>4. PartitionFrom(h) < base
    <3>1. PartitionFrom(h) \in Nat /\ PartitionFrom(maxH) \in Nat
      BY <2>1, PartitionIs
    <3>2. base \in Nat
      BY DEF IInv, TypeOK
    <3>3. QED
      BY <2>2, <2>3, <3>1, <3>2
  <2>5. QED
    BY <1>2, <2>4 DEF Partitioning
<1>7. /\ pc' = "insert" /\ table' = 1 /\ sent' = 0 /\ last' = last
      /\ txn' = db /\ db' = db /\ buf' = buf /\ parts' = parts
  BY DEF BeginInserts
<1>8. Filled(1, H)' /\ Emptied(1)' /\ HavePartitions(H)'
  BY <1>2, <1>6, <1>7 DEF Partitioning, Filled, Emptied, HavePartitions
<1>9. Inserting(H)'
  <2>1. \A s, f : Firsts(s, 0, f) = {}
    BY InFirsts
  <2>2. txn'[Name'] = db'[Name'] \union Firsts(Sent(Name)', sent', Flusher[Name'])
    BY <1>7, <2>1
  <2>3. \A i \in 1..(table' - 1) : FALSE
    BY <1>7
  <2>4. \A p \in 1..sent' : FALSE
    BY <1>7
  <2>5. QED
    BY <1>7, <1>8, <2>2, <2>3, <2>4 DEF Inserting
<1>10. FlushInv(H)'
  BY <1>2, <1>7, <1>9 DEF FlushInv
<1>11. QED
  BY <1>3, <1>4, <1>10 DEF IInv

(* The slice that is sent.                                                 *)
LEMMA SliceFacts ==
  ASSUME IInv, NEW H \in SUBSET Heights, Inserting(H), sent < Len(Sent(Name))
  PROVE  /\ Name \in TableNames /\ sent \in Nat /\ Len(Sent(Name)) \in Nat
         /\ IsSequence(Sent(Name)) /\ MadeOf(buf[Name], Raw(Name), H)
         /\ IsSequence(buf[Name])
         /\ SliceSize \in 0..(Len(Sent(Name)) - sent)
         /\ IsPart(NextSlice, Sent(Name), sent, sent + SliceSize)
<1>1. Name \in TableNames /\ table \in 1..10
  BY TableOrderFacts DEF Name, IInv, TypeOK
<1>2. IsSequence(buf[Name])
  BY <1>1 DEF IInv, BuffersOf
<1>3. MadeOf(buf[Name], Raw(Name), H)
  BY <1>1 DEF Inserting, Filled, Name
<1> DEFINE s == Sent(Name)
           n == sent
           m == SliceSize
<1>4. IsSequence(s)
  BY <1>1, <1>2, <1>3, SentRows
<1>5. Len(s) \in Nat /\ s \in Seq(Range(s)) /\ n \in Nat
  BY <1>4, SequenceIsFunction DEF IInv, TypeOK
<1>6. m \in 0..(Len(s) - n)
  <2>1. Len(s) - n \in Nat
    BY <1>5
  <2>2. Fits(0, Statement)
    BY <1>1, LimitsAre DEF Statement
  <2>3. QED
    BY <2>1, <2>2, SliceIs DEF SliceSize
<1>7. NextSlice = SubSeq(s, n + 1, n + m)
  BY DEF NextSlice
<1> HIDE DEF s, n, m
<1>8. IsPart(NextSlice, s, n, n + m)
  <2>1. n \in 0..Len(s)
    BY <1>5, <1>6
  <2>2. QED
    BY <1>4, <1>6, <1>7, <2>1, SubSeqIs
<1>9. QED
  BY <1>1, <1>2, <1>3, <1>4, <1>5, <1>6, <1>8 DEF s, n, m

LEMMA InsertSliceKeeps ==
  ASSUME IInv, NEW H \in SUBSET Heights, FlushInv(H), InsertSlice
  PROVE  IInv' /\ FlushInv(H)'
<1>1. FlushInv(H)
  OBVIOUS
<1>2. Inserting(H) /\ (\A h \in H : h <= last) /\ sent < Len(Sent(Name))
  BY <1>1 DEF FlushInv, InsertSlice
<1> DEFINE t == Name
           s == Sent(Name)
           n == sent
           m == SliceSize
           f == Statement
<1>3. /\ t \in TableNames /\ n \in Nat /\ Len(s) \in Nat
      /\ IsSequence(s) /\ MadeOf(buf[t], Raw(t), H) /\ IsSequence(buf[t])
      /\ m \in 0..(Len(s) - n) /\ IsPart(NextSlice, s, n, n + m)
  BY <1>2, SliceFacts
<1>4. /\ \A p \in 1..Len(s) :
           (t = "delegation_events" => Complete(s[p])) => Closed(s, p, Lot(t), H)
      /\ mode = "batch-insert" /\ t = "delegation_events"
           => \A p \in 1..Len(s) : Complete(s[p])
  BY <1>3, SentRows
<1>5. /\ txn' = [txn EXCEPT ![t] = Inserted(txn[t], NextSlice, f)]
      /\ sent' = n + m
      /\ UNCHANGED <<mode, buf, last, runs, pc, base, table, parts, db>>
  BY DEF InsertSlice
<1>6. /\ IsSequence(NextSlice) /\ Len(NextSlice) = m
      /\ \A j \in 1..m : NextSlice[j] = s[n + j]
  <2>1. (n + m) - n = m
    BY <1>3
  <2>2. QED
    BY <1>3, <2>1 DEF IsPart
<1>7. f.key = Flusher[t].key /\ f.updated = Flusher[t].updated
  BY <1>3, Clauses DEF Statement
<1>8. ASSUME t = "delegation_events", NEW p \in 1..(n + m) PROVE Complete(s[p])
  <2>1. p \in 1..Len(s)
    BY <1>3
  <2>2. CASE mode = "batch-insert"
    BY <1>4, <1>8, <2>1, <2>2
  <2>3. CASE mode = "block-atomic" /\ p <= n
    <3>1. p \in 1..n
      BY <1>3, <2>3
    <3>2. QED
      BY <1>2, <1>8, <3>1 DEF Inserting
  <2>4. CASE mode = "block-atomic" /\ p > n
    <3>1. p - n \in 1..m /\ n + (p - n) = p
      BY <1>3, <2>4
    <3>2. NextSlice[p - n] = s[p]
      BY <1>6, <3>1
    <3>3. p - n \in DOMAIN NextSlice
      BY <1>6, <3>1, SequenceIsFunction
    <3>4. Insertable(NextSlice[p - n])
      BY <2>4, <3>3 DEF InsertSlice, Accepted
    <3>5. QED
      BY <1>8, <3>2, <3>4 DEF Insertable
  <2>5. mode \in {"batch-insert", "block-atomic"}
    BY ModesAssumption DEF IInv, TypeOK
  <2>6. QED
    BY <1>3, <2>2, <2>3, <2>4, <2>5
<1>9. ClosedTo(s, n + m, Lot(t), H)
  <2> SUFFICES ASSUME NEW p \in 1..(n + m) PROVE Closed(s, p, Lot(t), H)
    BY DEF ClosedTo
  <2>1. p \in 1..Len(s)
    BY <1>3
  <2>2. QED
    BY <1>4, <1>8, <2>1
<1>10. txn[t] = RowsOf(t, StoredHeights) \union Firsts(s, n, Flusher[t])
  BY <1>2, <1>3, StoredRows DEF Inserting, IInv
<1>11. StoredHeights \in SUBSET Heights
  BY DEF IInv, Stored
<1>12. Inserted(txn[t], NextSlice, f)
         = RowsOf(t, StoredHeights) \union Firsts(s, n + m, Flusher[t])
  <2> HIDE DEF t, s, n, m, f
  <2>1. t \in TableNames /\ IsSequence(s) /\ IsPart(NextSlice, s, n, n + m)
    BY <1>3
  <2>2. Inserted(RowsOf(t, StoredHeights) \union Firsts(s, n, Flusher[t]), NextSlice, f)
          = RowsOf(t, StoredHeights) \union Firsts(s, n + m, Flusher[t])
    BY <1>7, <1>9, <1>11, <2>1, InsertedRows
  <2>3. QED
    BY <1>10, <2>2
<1>13. Name' = t /\ Sent(Name)' = s /\ StoredHeights' = StoredHeights
  BY <1>5 DEF Name, Sent, StoredHeights
<1>14. BuffersOf(buf') /\ Stored'
  BY <1>5, SameStored DEF IInv
<1>15. DOMAIN txn = TableNames
  BY DEF IInv, TypeOK
<1>16. txn'[t] = RowsOf(t, StoredHeights) \union Firsts(s, n + m, Flusher[t])
  BY <1>3, <1>5, <1>12, <1>15
<1>17. TypeOK'
  <2>1. sent' \in 0..Len(s)
    BY <1>3, <1>5
  <2>2. DOMAIN txn' = TableNames
    BY <1>5, <1>15
  <2>3. sent' \in 0..Len(Sent(Name)')
    BY <1>13, <2>1
  <2> HIDE DEF s, n, m, t, f
  <2>4. QED
    BY <1>5, <2>2, <2>3 DEF IInv, TypeOK
<1>18. Inserting(H)'
  <2>1. table \in 1..10
    BY TableOrderFacts DEF IInv, TypeOK
  <2>2. \A i \in 1..10 : i # table => txn'[TableOrder[i]] = txn[TableOrder[i]]
    BY <1>5, <1>15, <2>1, TableOrderFacts DEF Name
  <2> HIDE DEF s, n, m, t, f
  <2>3. Filled(table, H)' /\ Emptied(table)' /\ HavePartitions(H)'
    BY <1>2, <1>5 DEF Inserting, Filled, Emptied, HavePartitions
  <2>4. \A i \in 1..(table - 1) :
          txn'[TableOrder[i]] = RowsOf(TableOrder[i], StoredHeights \union H)
    <3> SUFFICES ASSUME NEW i \in 1..(table - 1)
                 PROVE  txn'[TableOrder[i]] = RowsOf(TableOrder[i], StoredHeights \union H)
      OBVIOUS
    <3>1. i \in 1..10 /\ i # table
      BY <2>1
    <3>2. QED
      BY <1>2, <2>2, <3>1 DEF Inserting
  <2>5. \A i \in (table + 1)..10 : txn'[TableOrder[i]] = db[TableOrder[i]]
    <3> SUFFICES ASSUME NEW i \in (table + 1)..10
                 PROVE  txn'[TableOrder[i]] = db[TableOrder[i]]
      OBVIOUS
    <3>1. i \in 1..10 /\ i # table
      BY <2>1
    <3>2. QED
      BY <1>2, <2>2, <3>1 DEF Inserting
  <2>6. txn'[t] = db[t] \union Firsts(s, n + m, Flusher[t])
    BY <1>3, <1>16, StoredRows DEF IInv
  <2>7. t = "delegation_events" => \A p \in 1..(n + m) : Complete(s[p])
    BY <1>8
  <2>8. QED
    BY <1>5, <1>13, <2>3, <2>4, <2>5, <2>6, <2>7 DEF Inserting
<1>19. FlushInv(H)'
  <2>1. pc' = "insert" /\ last' = last
    BY <1>5 DEF InsertSlice
  <2>2. QED
    BY <1>2, <1>18, <2>1 DEF FlushInv
<1>20. QED
  BY <1>14, <1>17, <1>19 DEF IInv

LEMMA AtomicFailsKeeps ==
  ASSUME IInv, AtomicFails
  PROVE  IInv' /\ FlushInv({})'
<1>1. BuffersOf(buf')
  BY EmptyBuffers DEF AtomicFails
<1>2. Stored'
  BY SameStored DEF IInv, AtomicFails
<1>3. TypeOK'
  BY <1>1, TypesAfter, TableOrderFacts DEF IInv, TypeOK, AtomicFails, EmptyDb
<1>4. FlushInv({})'
  BY DEF FlushInv, AtomicFails
<1>5. QED
  BY <1>1, <1>2, <1>3, <1>4 DEF IInv

LEMMA NextTableKeeps ==
  ASSUME IInv, NEW H \in SUBSET Heights, FlushInv(H), NextTable
  PROVE  IInv' /\ FlushInv(H)'
<1>1. FlushInv(H)
  OBVIOUS
<1>2. Inserting(H) /\ \A h \in H : h <= last
  BY <1>1 DEF FlushInv, NextTable
<1> DEFINE t == Name
           s == Sent(Name)
<1>3. /\ t \in TableNames /\ t = TableOrder[table] /\ table \in 1..10
      /\ IsSequence(buf[t]) /\ MadeOf(buf[t], Raw(t), H)
  <2>1. table \in 1..10 /\ t \in TableNames
    BY TableOrderFacts DEF Name, IInv, TypeOK
  <2>2. t = TableOrder[table] /\ IsSequence(buf[t])
    BY <2>1 DEF Name, IInv, BuffersOf
  <2>3. MadeOf(buf[TableOrder[table]], Raw(TableOrder[table]), H)
    BY <1>2, <2>1 DEF Inserting, Filled
  <2> HIDE DEF t
  <2>4. QED
    BY <2>1, <2>2, <2>3
<1>4. IsSequence(s) /\ Len(s) \in Nat /\ sent = Len(s)
  <2>1. IsSequence(s)
    BY <1>3, SentRows
  <2>2. Len(s) \in Nat
    BY <2>1, SequenceIsFunction
  <2>3. sent \in 0..Len(s) /\ sent >= Len(s)
    BY DEF IInv, TypeOK, NextTable
  <2>4. QED
    BY <2>1, <2>2, <2>3
<1>5. MadeOf(s, Lot(t), H)
  <2>1. t = "delegation_events" => \A p \in 1..Len(s) : Complete(s[p])
    BY <1>2, <1>4 DEF Inserting
  <2>2. QED
    BY <1>3, <2>1, SentRows DEF MadeOf
<1>6. txn[t] = RowsOf(t, StoredHeights \union H)
  <2>1. Firsts(s, Len(s), Flusher[t]) = RowsOf(t, H)
    BY <1>3, <1>4, <1>5, AllFirsts
  <2>2. db[t] = RowsOf(t, StoredHeights)
    BY <1>3, StoredRows DEF IInv
  <2>3. txn[t] = db[t] \union Firsts(s, sent, Flusher[t])
    BY <1>2 DEF Inserting
  <2>4. QED
    BY <1>4, <2>1, <2>2, <2>3, RowsOfUnion
<1>7. /\ buf' = [buf EXCEPT ![t] = << >>] /\ sent' = 0
      /\ UNCHANGED <<mode, last, runs, base, parts, txn, db>>
  BY DEF NextTable
<1> HIDE DEF t, s
<1>8. buf'[t] = << >> /\ \A u \in TableNames : u # t => buf'[u] = buf[u]
  BY <1>3, <1>7 DEF IInv, BuffersOf
<1>9. BuffersOf(buf')
  <2>1. buf' = [u \in TableNames |-> buf'[u]]
    BY <1>7 DEF IInv, BuffersOf
  <2>2. ASSUME NEW u \in TableNames
        PROVE  IsSequence(buf'[u]) /\ \A i \in DOMAIN buf'[u] : buf'[u][i].height \in Heights
    <3>1. CASE u = t
      BY <1>8, <3>1, EmptyIsSequence
    <3>2. CASE u # t
      BY <1>8, <3>2 DEF IInv, BuffersOf
    <3>3. QED
      BY <3>1, <3>2
  <2>3. QED
    BY <2>1, <2>2 DEF BuffersOf
<1>10. Stored' /\ StoredHeights' = StoredHeights
  BY <1>7, SameStored DEF IInv
<1>11. table' \in 1..10 /\ pc' \in {"insert", "commit"}
  BY <1>3, TableOrderFacts DEF NextTable
<1>12. TypeOK'
  BY <1>7, <1>9, <1>11, TypesAfter DEF IInv, TypeOK
<1>13. \A i \in 1..10 : i # table => TableOrder[i] # t /\ TableOrder[i] \in TableNames
  BY <1>3, TableOrderFacts
<1>14. \A i \in 1..table :
         buf'[TableOrder[i]] = << >>
         /\ txn'[TableOrder[i]] = RowsOf(TableOrder[i], StoredHeights \union H)
  <2> SUFFICES ASSUME NEW i \in 1..table
               PROVE  /\ buf'[TableOrder[i]] = << >>
                      /\ txn'[TableOrder[i]] = RowsOf(TableOrder[i], StoredHeights \union H)
    OBVIOUS
  <2>1. CASE i = table
    BY <1>3, <1>6, <1>7, <1>8, <2>1
  <2>2. CASE i # table
    <3>1. i \in 1..(table - 1) /\ i \in 1..10
      BY <1>3, <2>2
    <3>2. buf[TableOrder[i]] = << >>
      BY <1>2, <3>1 DEF Inserting, Emptied
    <3>3. txn[TableOrder[i]] = RowsOf(TableOrder[i], StoredHeights \union H)
      BY <1>2, <3>1 DEF Inserting
    <3>4. buf'[TableOrder[i]] = buf[TableOrder[i]]
      BY <1>8, <1>13, <2>2, <3>1
    <3>5. QED
      BY <1>7, <3>2, <3>3, <3>4
  <2>3. QED
    BY <2>1, <2>2
<1>15. CASE table < 10
  <2>1. table' = table + 1 /\ pc' = "insert"
    BY <1>3, <1>15, TableOrderFacts DEF NextTable
  <2>2. ASSUME NEW i \in (table + 1)..10
        PROVE  /\ buf'[TableOrder[i]] = buf[TableOrder[i]]
               /\ MadeOf(buf[TableOrder[i]], Raw(TableOrder[i]), H)
               /\ txn'[TableOrder[i]] = db'[TableOrder[i]]
    <3>1. i \in 1..10 /\ i \in table..10 /\ i # table
      BY <1>3
    <3>2. QED
      BY <1>2, <1>7, <1>8, <1>13, <3>1 DEF Inserting, Filled
  <2>3. Filled(table, H)'
    BY <2>1, <2>2 DEF Filled
  <2>4. \A i \in 1..(table' - 1) : i \in 1..table
    BY <1>3, <2>1
  <2>5. Emptied(table)'
    BY <1>14, <2>4 DEF Emptied
  <2>6. HavePartitions(H)'
    BY <1>2, <1>7 DEF Inserting, HavePartitions
  <2>7. txn'[Name'] = db'[Name'] \union Firsts(Sent(Name)', sent', Flusher[Name'])
    <3>1. table + 1 \in (table + 1)..10
      BY <1>3, <1>15
    <3>2. txn'[Name'] = db'[Name']
      BY <2>1, <2>2, <3>1 DEF Name
    <3>3. Firsts(Sent(Name)', 0, Flusher[Name']) = {}
      BY InFirsts
    <3>4. QED
      BY <1>7, <3>2, <3>3
  <2>8. \A i \in (table' + 1)..10 : i \in (table + 1)..10
    BY <1>3, <2>1
  <2>9. \A p \in 1..sent' : FALSE
    BY <1>7
  <2>10. Inserting(H)'
    BY <1>10, <1>14, <2>2, <2>3, <2>4, <2>5, <2>6, <2>7, <2>8, <2>9 DEF Inserting
  <2>11. FlushInv(H)'
    BY <1>2, <1>7, <2>1, <2>10 DEF FlushInv
  <2>12. QED
    BY <1>9, <1>10, <1>12, <2>11 DEF IInv
<1>16. CASE table = 10
  <2>1. pc' = "commit"
    BY <1>16, TableOrderFacts DEF NextTable
  <2>2. ASSUME NEW u \in TableNames
        PROVE  buf'[u] = << >> /\ txn'[u] = RowsOf(u, StoredHeights \union H)
    <3>1. PICK i \in 1..10 : TableOrder[i] = u
      BY TableOrderFacts
    <3>2. QED
      BY <1>14, <1>16, <3>1
  <2>3. Committing(H)'
    BY <1>7, <1>10, <2>2 DEF Committing
  <2>4. FlushInv(H)'
    BY <1>2, <1>7, <2>1, <2>3 DEF FlushInv
  <2>5. QED
    BY <1>9, <1>10, <1>12, <2>4 DEF IInv
<1>17. QED
  BY <1>3, <1>15, <1>16

LEMMA BlockRowsAre ==
  ASSUME NEW G \in SUBSET Heights
  PROVE  RowsOf("blocks", G) = {[height |-> h] : h \in G}
         /\ {r.height : r \in RowsOf("blocks", G)} = G
<1>1. \A h \in Heights : FirstRows("blocks", h) = {[height |-> h]}
  <2> SUFFICES ASSUME NEW h \in Heights PROVE FirstRows("blocks", h) = {[height |-> h]}
    OBVIOUS
  <2> DEFINE L == Lot("blocks")[h]
             f == Flusher["blocks"]
  <2>1. L = <<[height |-> h]>>
    BY RowsOfBlock DEF Lot
  <2>2. Len(L) = 1 /\ L[1] = [height |-> h]
    BY <2>1
  <2>3. \A r : r \in FirstRows("blocks", h) <=>
               \E i \in 1..Len(L) : r = L[i] /\ IsFirst(L, i, f)
    BY InFirstRows, TableOrderFacts
  <2> HIDE DEF L, f
  <2>4. IsFirst(L, 1, f)
    BY DEF IsFirst
  <2>5. QED
    BY <2>2, <2>3, <2>4
<1>2. RowsOf("blocks", G) = {[height |-> h] : h \in G}
  BY <1>1 DEF RowsOf
<1>3. ASSUME NEW h \in G PROVE h \in {r.height : r \in RowsOf("blocks", G)}
  <2>1. [height |-> h] \in RowsOf("blocks", G) /\ [height |-> h].height = h
    BY <1>2
  <2>2. QED
    BY <2>1
<1>4. ASSUME NEW r \in RowsOf("blocks", G) PROVE r.height \in G
  <2>1. PICK g \in G : r = [height |-> g]
    BY <1>2
  <2>2. QED
    BY <2>1
<1>5. QED
  BY <1>2, <1>3, <1>4

LEMMA CommitKeeps ==
  ASSUME IInv, NEW H \in SUBSET Heights, FlushInv(H), Commit
  PROVE  IInv' /\ FlushInv({})' /\ StoredHeights' = StoredHeights \union H
<1>1. FlushInv(H)
  OBVIOUS
<1>2. Committing(H)
  BY <1>1 DEF FlushInv, Commit
<1>3. /\ pc' = "idle" /\ db' = txn /\ txn' = EmptyDb
      /\ UNCHANGED <<mode, buf, last, runs, base, table, sent, parts>>
  BY DEF Commit
<1>4. StoredHeights \union H \in SUBSET Heights
  BY DEF IInv, Stored
<1>5. StoredHeights' = StoredHeights \union H
  <2>1. db'["blocks"] = RowsOf("blocks", StoredHeights \union H)
    BY <1>2, <1>3, TableOrderFacts DEF Committing
  <2>2. QED
    BY <1>4, <2>1, BlockRowsAre DEF StoredHeights
<1>6. Stored'
  <2>1. \A t \in TableNames : db'[t] = RowsOf(t, StoredHeights \union H)
    BY <1>2, <1>3 DEF Committing
  <2>2. TablesHoldFirstRows'
    BY <1>5, <2>1 DEF TablesHoldFirstRows, RowsOf
  <2>3. StoredHeights' \subseteq Heights
    BY <1>5 DEF IInv, Stored
  <2>4. QED
    BY <2>2, <2>3 DEF Stored
<1>7. BuffersOf(buf')
  BY <1>3 DEF IInv
<1>8. sent' = 0
  BY <1>2, <1>3 DEF Committing
<1>9. TypeOK'
  <2>1. DOMAIN txn' = TableNames /\ DOMAIN db' = TableNames
    BY <1>3 DEF EmptyDb, IInv, TypeOK
  <2>2. QED
    BY <1>3, <1>7, <1>8, <2>1, TypesAfter, TableOrderFacts DEF IInv, TypeOK
<1>10. Filled(1, {})'
  <2>1. \A i \in 1..10 : buf'[TableOrder[i]] = << >>
    BY <1>2, <1>3, TableOrderFacts DEF Committing
  <2>2. QED
    BY <2>1, NothingMade DEF Filled
<1>11. FlushInv({})'
  BY <1>3, <1>8, <1>10 DEF FlushInv, Collecting
<1>12. QED
  BY <1>5, <1>6, <1>7, <1>9, <1>11 DEF IInv

LEMMA NewRunKeeps ==
  ASSUME IInv, NewRun
  PROVE  IInv' /\ FlushInv({})'
<1>1. /\ buf' = EmptyBuf /\ sent' = 0 /\ pc' = "idle" /\ table' = 1 /\ base' = 0
      /\ runs' = runs + 1 /\ runs < MaxRuns /\ mode' \in Modes
      /\ last' = NoHeight /\ txn' = EmptyDb /\ UNCHANGED <<parts, db>>
  BY DEF NewRun
<1>2. BuffersOf(buf')
  BY <1>1, EmptyBuffers
<1>3. Stored'
  BY <1>1, SameStored DEF IInv
<1>4. TypeOK'
  <2>1. runs' \in 0..MaxRuns
    BY <1>1, HeightsAssumption DEF IInv, TypeOK
  <2>2. DOMAIN txn' = TableNames
    BY <1>1 DEF EmptyDb
  <2>3. QED
    BY <1>1, <1>2, <2>1, <2>2, TypesAfter DEF IInv, TypeOK
<1>5. Filled(1, {})'
  BY <1>1, EmptyBuffers, TableOrderFacts DEF Filled
<1>6. FlushInv({})'
  BY <1>1, <1>5 DEF FlushInv, Collecting
<1>7. QED
  BY <1>2, <1>3, <1>4, <1>6 DEF IInv

LEMMA StutterKeeps ==
  ASSUME IInv, UNCHANGED vars
  PROVE  IInv'
<1>1. PICK H \in SUBSET Heights : FlushInv(H)
  BY DEF IInv
<1>2. Name' = Name /\ Sent(Name)' = Sent(Name) /\ StoredHeights' = StoredHeights
  BY DEF Name, Sent, StoredHeights, vars
<1>3. TypeOK'
  BY <1>2 DEF IInv, TypeOK, vars
<1>4. BuffersOf(buf') /\ Stored'
  BY SameStored DEF IInv, vars
<1>5. Filled(1, H)' = Filled(1, H) /\ HavePartitions(H)' = HavePartitions(H)
  BY DEF Filled, HavePartitions, vars
<1>6. Filled(table, H)' = Filled(table, H) /\ Emptied(table)' = Emptied(table)
  BY DEF Filled, Emptied, vars
<1>7. (pc = "idle" => Collecting(H)) /\ pc' = "idle" => Collecting(H)'
  BY <1>5 DEF Collecting, vars
<1>8. (pc = "partitions" => Partitioning(H)) /\ pc' = "partitions" => Partitioning(H)'
  BY <1>5 DEF Partitioning, vars
<1>9. (pc = "insert" => Inserting(H)) /\ pc' = "insert" => Inserting(H)'
  BY <1>2, <1>5, <1>6 DEF Inserting, vars
<1>10. (pc = "commit" => Committing(H)) /\ pc' = "commit" => Committing(H)'
  BY <1>2 DEF Committing, vars
<1>11. FlushInv(H)'
  <2>1. \A h \in H : h <= last'
    BY <1>1 DEF FlushInv, vars
  <2>2. QED
    BY <1>1, <1>7, <1>8, <1>9, <1>10, <2>1 DEF FlushInv
<1>12. QED
  BY <1>3, <1>4, <1>11 DEF IInv

LEMMA NextKeeps == IInv /\ [Next]_vars => IInv'
<1> SUFFICES ASSUME IInv, [Next]_vars PROVE IInv'
  OBVIOUS
<1>1. PICK H \in SUBSET Heights : FlushInv(H)
  BY DEF IInv
<1>2. CASE \E h \in Heights : WriteBlock(h) \/ WriteBlockAtomic(h)
  BY <1>1, <1>2, WriteBlockKeeps, WriteBlockAtomicKeeps
<1>3. CASE StartFlush
  BY <1>1, <1>3, StartFlushKeeps
<1>4. CASE CreatePartition
  BY <1>1, <1>4, CreatePartitionKeeps
<1>5. CASE BeginInserts
  BY <1>1, <1>5, BeginInsertsKeeps
<1>6. CASE InsertSlice
  BY <1>1, <1>6, InsertSliceKeeps
<1>7. CASE AtomicFails
  BY <1>7, AtomicFailsKeeps
<1>8. CASE NextTable
  BY <1>1, <1>8, NextTableKeeps
<1>9. CASE Commit
  BY <1>1, <1>9, CommitKeeps
<1>10. CASE NewRun
  BY <1>10, NewRunKeeps
<1>11. CASE UNCHANGED vars
  BY <1>11, StutterKeeps
<1>12. QED
  BY <1>2, <1>3, <1>4, <1>5, <1>6, <1>7, <1>8, <1>9, <1>10, <1>11 DEF Next

------------------------------------------------------------------------------
(* The invariant above holds in every reachable state: at each step of a   *)
(* flush (persistBlockBuffered, flushAll, ensureCorePartitions,            *)
(* execBatchedInsert, persistBlockAtomic and COMMIT) the buffers and the   *)
(* open transaction account for the rows of the same blocks.               *)
THEOREM Invariant == Spec => []IInv
<1>1. QED
  BY InitIInv, NextKeeps, PTL DEF Spec

(* Types, and the index i of execBatchedInsert never passes the end of     *)
(* what a flusher sends.                                                   *)
THEOREM TypeCorrect == Spec => []TypeOK
<1>1. IInv => TypeOK
  BY DEF IInv
<1>2. QED
  BY <1>1, Invariant, PTL

(* However flushers slice their buffers, blocks are split over flushes or  *)
(* indexed again by later runs in either mode: a table holds, for every    *)
(* key of its ON CONFLICT clause that occurs in the stored blocks, the row *)
(* of the first occurrence, and nothing else.                              *)
THEOREM TablesHoldFirstRowsHolds == Spec => []TablesHoldFirstRows
<1>1. IInv => TablesHoldFirstRows
  BY DEF IInv, Stored
<1>2. QED
  BY <1>1, Invariant, PTL

(* Whatever heights a flush spans, and wherever an earlier run ended while *)
(* ensureCorePartitions was creating partitions: a row that is sent to a   *)
(* partitioned table has a partition.                                      *)
THEOREM RowsHavePartitionsHolds == Spec => []RowsHavePartitions
<1>1. IInv => RowsHavePartitions
  <2> SUFFICES ASSUME IInv, pc = "insert", sent < Len(Sent(Name)),
                      NEW i \in DOMAIN NextSlice
               PROVE  Placed(NextSlice[i])
    BY DEF RowsHavePartitions, AllPlaced
  <2>1. PICK H \in SUBSET Heights : FlushInv(H)
    BY DEF IInv
  <2>2. Inserting(H)
    BY <2>1 DEF FlushInv
  <2>3. /\ Name \in TableNames /\ sent \in Nat /\ Len(Sent(Name)) \in Nat
        /\ IsSequence(buf[Name]) /\ MadeOf(buf[Name], Raw(Name), H)
        /\ SliceSize \in 0..(Len(Sent(Name)) - sent)
        /\ IsPart(NextSlice, Sent(Name), sent, sent + SliceSize)
    BY <2>2, SliceFacts
  <2>4. i \in 1..SliceSize /\ NextSlice[i] = Sent(Name)[sent + i]
    <3>1. (sent + SliceSize) - sent = SliceSize
      BY <2>3
    <3>2. i \in 1..Len(NextSlice)
      BY <2>3, SequenceIsFunction DEF IsPart
    <3>3. QED
      BY <2>3, <3>1, <3>2 DEF IsPart
  <2>5. sent + i \in 1..Len(Sent(Name))
    BY <2>3, <2>4
  <2>6. PICK h \in H : RowOf(Name, h, NextSlice[i])
    BY <2>3, <2>4, <2>5, SentAre
  <2>7. NextSlice[i].height = h /\ h \in Nat
    BY <2>6, HeightsAssumption DEF RowOf
  <2>8. Covers(PartitionFrom(h), h)
    BY <2>7, PartitionIs
  <2>9. Name \in RANGE_TABLES => <<Name, PartitionFrom(h)>> \in parts
    BY <2>2 DEF Inserting, HavePartitions
  <2>10. QED
    BY <2>7, <2>8, <2>9 DEF Placed
<1>2. QED
  BY <1>1, Invariant, PTL

------------------------------------------------------------------------------
(* The rows of core.events: what is stored of a transaction is what the    *)
(* node said of it, event e of message m (-1: of no message).              *)
EventRow(h, hash, m, e, ev) ==
  [height |-> h, tx_hash |-> hash, msg_index |-> m, event_index |-> e - 1,
   event_type |-> ev.type, attributes |-> ev.attributes]
LogOf(logs, m, e, ev) ==
  \E log \in Range(logs) : /\ m = Default(log.msg_index, -1)
                          /\ e \in 1..Len(log.events) /\ ev = log.events[e]
EventOf(r, h, hash, logs) ==
  \E m, e, ev : LogOf(logs, m, e, ev) /\ r = EventRow(h, hash, m, e, ev)
Says(result, m, e, ev) ==
  \/ /\ m = -1 /\ e \in 1..Len(result.events)
     /\ ev = normalizeEvent(normalizeEvent(result.events[e]))
  \/ /\ result.raw_log # Null
     /\ \E l \in 1..Len(result.raw_log) :
          /\ m = LogIndex(result.raw_log[l]) /\ e \in 1..Len(result.raw_log[l].events)
          /\ ev = normalizeEvent(result.raw_log[l].events[e])

LEMMA EventRowsAre ==
  ASSUME NEW h, NEW tx, IsTx(tx), NEW r
  PROVE  r \in Range(evRows(h, tx)) <=> EventOf(r, h, tx.hash, tx.logs)
<1> DEFINE v == Visited(tx)
           row == [x \in Range(v) |->
                     [height |-> h, tx_hash |-> tx.hash, msg_index |-> x.msg,
                      event_index |-> x.ei, event_type |-> x.ev.type,
                      attributes |-> x.ev.attributes]]
           s == evRows(h, tx)
<1>1. IsSequence(v) /\ \A x : x \in Range(v) <=> IsVisit(x, tx)
  <2> HIDE DEF v
  <2>1. QED
    BY VisitedAre DEF v
<1>2. DOMAIN v = 1..Len(v) /\ \A i \in 1..Len(v) : v[i] \in Range(v)
  <2> HIDE DEF v
  <2>1. QED
    BY <1>1, SequenceIsFunction
<1>3. s = [i \in DOMAIN v |->
             [height |-> h, tx_hash |-> tx.hash, msg_index |-> v[i].msg,
              event_index |-> v[i].ei, event_type |-> v[i].ev.type,
              attributes |-> v[i].ev.attributes]]
  BY DEF evRows, RowPerEvent
<1> HIDE DEF s, v
<1>4. s = [i \in 1..Len(v) |-> row[v[i]]]
  BY <1>2, <1>3
<1> HIDE DEF row
<1>5. r \in Range(s) <=> \E x \in Range(v) : r = row[x]
  <2>1. r \in Range(s) <=> \E i \in 1..Len(v) : r = row[v[i]]
    BY <1>4 DEF Range
  <2>2. Range(v) = {v[i] : i \in 1..Len(v)}
    BY <1>2 DEF Range
  <2>3. QED
    BY <2>1, <2>2
<1>6. ASSUME NEW l \in 1..Len(tx.logs), NEW e \in 1..Len(tx.logs[l].events)
      PROVE  /\ Visit(tx, l, e) \in Range(v)
             /\ row[Visit(tx, l, e)] =
                  EventRow(h, tx.hash, Default(tx.logs[l].msg_index, -1), e,
                           tx.logs[l].events[e])
  <2>1. Visit(tx, l, e) \in Range(v)
    BY <1>1 DEF IsVisit
  <2>2. QED
    BY <2>1 DEF row, Visit, EventRow
<1>7. (\E x \in Range(v) : r = row[x]) <=>
      \E l \in 1..Len(tx.logs) : \E e \in 1..Len(tx.logs[l].events) :
        r = row[Visit(tx, l, e)]
  BY <1>1, <1>6 DEF IsVisit
<1>8. (\E m, e, ev : LogOf(tx.logs, m, e, ev) /\ r = EventRow(h, tx.hash, m, e, ev)) <=>
      \E l \in 1..Len(tx.logs) : \E e \in 1..Len(tx.logs[l].events) :
        r = EventRow(h, tx.hash, Default(tx.logs[l].msg_index, -1), e, tx.logs[l].events[e])
  <2>1. /\ \A l \in 1..Len(tx.logs) : tx.logs[l] \in Range(tx.logs)
        /\ \A log \in Range(tx.logs) : \E l \in 1..Len(tx.logs) : log = tx.logs[l]
    BY SequenceIsFunction DEF IsTx, AreLogs
  <2>2. ASSUME NEW m, NEW e, NEW ev, LogOf(tx.logs, m, e, ev),
               r = EventRow(h, tx.hash, m, e, ev)
        PROVE  \E l \in 1..Len(tx.logs) : \E d \in 1..Len(tx.logs[l].events) :
                 r = EventRow(h, tx.hash, Default(tx.logs[l].msg_index, -1), d,
                              tx.logs[l].events[d])
    <3>1. PICK log \in Range(tx.logs) : /\ m = Default(log.msg_index, -1)
                                        /\ e \in 1..Len(log.events) /\ ev = log.events[e]
      BY <2>2 DEF LogOf
    <3>2. PICK l \in 1..Len(tx.logs) : log = tx.logs[l]
      BY <2>1
    <3>3. e \in 1..Len(tx.logs[l].events)
      BY <3>1, <3>2
    <3>4. r = EventRow(h, tx.hash, Default(tx.logs[l].msg_index, -1), e, tx.logs[l].events[e])
      BY <2>2, <3>1, <3>2
    <3>5. QED
      BY <3>3, <3>4
  <2>3. ASSUME NEW l \in 1..Len(tx.logs), NEW e \in 1..Len(tx.logs[l].events)
        PROVE  LogOf(tx.logs, Default(tx.logs[l].msg_index, -1), e, tx.logs[l].events[e])
    BY <2>1 DEF LogOf
  <2>4. QED
    BY <2>2, <2>3
<1>9. QED
  BY <1>5, <1>6, <1>7, <1>8 DEF s, EventOf

(* What a text becomes however often it is decoded.                        *)
Text(s) == tryB64ToUtf8(Default(s, ""))

LEMMA TextReadsBack ==
  ASSUME NEW s
  PROVE  ReadsBack(Text(s), s) /\ ReadsBack(Text(Text(s)), s)
<1> DEFINE plain == Default(s, "")
<1>1. Default(plain, "") = plain
  BY DEF Default
<1>2. CASE plain \notin DOMAIN Decoded
  <2>1. Text(s) = plain
    BY <1>2 DEF Text, tryB64ToUtf8
  <2>2. Text(Text(s)) = plain
    BY <1>1, <1>2, <2>1 DEF Text, tryB64ToUtf8
  <2>3. Readings(s) = {plain}
    BY <1>2 DEF Readings
  <2> HIDE DEF plain
  <2>4. QED
    BY <2>1, <2>2, <2>3 DEF ReadsBack
<1>3. CASE plain \in DOMAIN Decoded
  <2> DEFINE decoded == Decoded[plain]
  <2>1. Text(s) = decoded
    BY <1>3 DEF Text, tryB64ToUtf8
  <2>2. decoded # Null
    BY <1>3, DecodedAssumption
  <2>3. Readings(s) = {plain, decoded}
    BY <1>3 DEF Readings
  <2> HIDE DEF decoded
  <2>4. decoded \notin DOMAIN Decoded => Text(Text(s)) = decoded
    BY <2>1, <2>2 DEF Text, tryB64ToUtf8, Default
  <2> HIDE DEF plain
  <2>5. QED
    BY <1>3, <2>1, <2>3, <2>4 DEF ReadsBack
<1>4. QED
  BY <1>2, <1>3

(* An event normalized once or twice is of the same type and reads back.   *)
EventReadsBack(stored, ev) ==
  /\ stored.type = ev.type
  /\ DOMAIN stored.attributes = DOMAIN ev.attributes
  /\ \A i \in DOMAIN stored.attributes :
       /\ ReadsBack(stored.attributes[i].key, ev.attributes[i].key)
       /\ ReadsBack(stored.attributes[i].value, ev.attributes[i].value)

LEMMA NormalizedOnce ==
  ASSUME NEW ev, IsEvent(ev)
  PROVE  LET once == normalizeEvent(ev)
         IN /\ IsEvent(once) /\ once.type = ev.type
            /\ DOMAIN once.attributes = DOMAIN ev.attributes
            /\ \A i \in DOMAIN ev.attributes :
                 once.attributes[i] = [key |-> Text(ev.attributes[i].key),
                                       value |-> Text(ev.attributes[i].value)]
<1> DEFINE b == [i \in DOMAIN ev.attributes |-> normalizeAttr(ev.attributes[i])]
           once == normalizeEvent(ev)
<1>1. \A i \in DOMAIN ev.attributes :
        b[i] = [key |-> Text(ev.attributes[i].key), value |-> Text(ev.attributes[i].value)]
  BY DEF normalizeAttr, Text
<1>2. DOMAIN b = DOMAIN ev.attributes
  OBVIOUS
<1>3. once = [ev EXCEPT !.attributes = b]
  BY DEF normalizeEvent
<1>4. IsSequence(b)
  <2>1. Len(ev.attributes) \in Nat /\ DOMAIN ev.attributes = 1..Len(ev.attributes)
    BY SequenceIsFunction DEF IsEvent
  <2>2. b = [i \in 1..Len(ev.attributes) |-> b[i]]
    BY <2>1
  <2> HIDE DEF b
  <2>3. QED
    BY <2>1, <2>2, AnySequence
<1> HIDE DEF b, once
<1>5. once = [x \in DOMAIN ev |-> IF x = "attributes" THEN b ELSE ev[x]]
  BY <1>3
<1>6. DOMAIN once = {"type", "attributes"} /\ once.attributes = b /\ once.type = ev.type
  BY <1>5 DEF IsEvent
<1>7. IsEvent(once)
  BY <1>4, <1>6 DEF IsEvent
<1>8. QED
  BY <1>1, <1>2, <1>6, <1>7 DEF once

LEMMA NormalizedReadsBack ==
  ASSUME NEW ev, IsEvent(ev)
  PROVE  /\ EventReadsBack(normalizeEvent(ev), ev)
         /\ EventReadsBack(normalizeEvent(normalizeEvent(ev)), ev)
<1> DEFINE once == normalizeEvent(ev)
           twice == normalizeEvent(once)
<1>1. /\ IsEvent(once) /\ once.type = ev.type
      /\ DOMAIN once.attributes = DOMAIN ev.attributes
      /\ \A i \in DOMAIN ev.attributes :
           once.attributes[i] = [key |-> Text(ev.attributes[i].key),
                                 value |-> Text(ev.attributes[i].value)]
  BY NormalizedOnce
<1> HIDE DEF once
<1>2. /\ twice.type = once.type
      /\ DOMAIN twice.attributes = DOMAIN once.attributes
      /\ \A i \in DOMAIN once.attributes :
           twice.attributes[i] = [key |-> Text(once.attributes[i].key),
                                  value |-> Text(once.attributes[i].value)]
  BY <1>1, NormalizedOnce
<1> HIDE DEF twice
<1>3. ASSUME NEW i \in DOMAIN ev.attributes
      PROVE  /\ once.attributes[i].key = Text(ev.attributes[i].key)
             /\ once.attributes[i].value = Text(ev.attributes[i].value)
             /\ twice.attributes[i].key = Text(Text(ev.attributes[i].key))
             /\ twice.attributes[i].value = Text(Text(ev.attributes[i].value))
  <2> DEFINE a == ev.attributes[i]
             b == once.attributes[i]
             c == twice.attributes[i]
  <2>1. b = [key |-> Text(a.key), value |-> Text(a.value)]
    BY <1>1
  <2>2. c = [key |-> Text(b.key), value |-> Text(b.value)]
    BY <1>1, <1>2
  <2> HIDE DEF a, b, c
  <2>3. b.key = Text(a.key) /\ b.value = Text(a.value)
    BY <2>1
  <2>4. c.key = Text(b.key) /\ c.value = Text(b.value)
    BY <2>2
  <2>5. QED
    BY <2>3, <2>4 DEF a, b, c
<1>4. EventReadsBack(once, ev)
  BY <1>1, <1>3, TextReadsBack DEF EventReadsBack
<1>5. EventReadsBack(twice, ev)
  BY <1>1, <1>2, <1>3, TextReadsBack DEF EventReadsBack
<1>6. QED
  BY <1>4, <1>5 DEF once, twice

LEMMA NormalizedAre ==
  ASSUME NEW evs, AreEvents(evs)
  PROVE  /\ AreEvents(normalizeEvents(evs)) /\ Len(normalizeEvents(evs)) = Len(evs)
         /\ Len(evs) \in Nat
         /\ \A e \in 1..Len(evs) :
              IsEvent(evs[e]) /\ normalizeEvents(evs)[e] = normalizeEvent(evs[e])
<1>1. AreEvents(normalizeEvents(evs))
  BY NormalizedEvents
<1>2. /\ Len(evs) \in Nat /\ DOMAIN evs = 1..Len(evs)
      /\ \A e \in 1..Len(evs) : IsEvent(evs[e])
  BY SequenceIsFunction DEF AreEvents, IsEvent
<1> DEFINE s == normalizeEvents(evs)
<1>3. s = [e \in 1..Len(evs) |-> normalizeEvent(evs[e])]
  BY <1>2 DEF normalizeEvents
<1> HIDE DEF s
<1>4. Len(s) = Len(evs)
  <2>1. s = [e \in 1..Len(evs) |-> s[e]]
    BY <1>3
  <2>2. QED
    BY <1>2, <2>1, AnySequence
<1>5. QED
  BY <1>1, <1>2, <1>3, <1>4 DEF s

(* The logs of an assembled transaction are those of its messages and, if  *)
(* it has events of its own, one more without a message.                   *)
LEMMA LogsSay ==
  ASSUME NEW result, IsResult(result), NEW m, NEW e, NEW ev
  PROVE  LogOf(buildCombinedLogs(result.raw_log, normalizeEvents(result.events)), m, e, ev)
           <=> Says(result, m, e, ev)
<1> DEFINE raw == result.raw_log
           events == result.events
           parsed == parseRawLogToStructured(raw)
           txLevel == normalizeEvents(normalizeEvents(events))
           log == [msg_index |-> Null, events |-> txLevel]
           flat == IF txLevel = << >> THEN << >> ELSE <<log>>
           saidOfMsg == raw # Null /\ \E l \in 1..Len(raw) :
                          /\ m = LogIndex(raw[l]) /\ e \in 1..Len(raw[l].events)
                          /\ ev = normalizeEvent(raw[l].events[e])
           saidOfTx == /\ m = -1 /\ e \in 1..Len(events)
                       /\ ev = normalizeEvent(normalizeEvent(events[e]))
<1>1. IsSequence(parsed) /\ (LogOf(parsed, m, e, ev) <=> saidOfMsg)
  <2>1. CASE raw = Null
    <3>1. parsed = << >>
      BY <2>1 DEF parseRawLogToStructured
    <3> HIDE DEF parsed, raw
    <3>2. QED
      BY <2>1, <3>1, EmptyIsSequence DEF LogOf
  <2>2. CASE raw # Null
    <3>1. IsSequence(raw) /\ \A x \in Range(raw) : AreEvents(x.events)
      BY <2>2 DEF IsResult
    <3>2. \A x : LogIndex(x) # Null
      BY NullAssumption DEF LogIndex, Default
    <3>3. parsed = [l \in DOMAIN raw |->
                      [msg_index |-> LogIndex(raw[l]),
                       events |-> normalizeEvents(raw[l].events)]]
      BY <2>2 DEF parseRawLogToStructured, LogIndex
    <3> HIDE DEF parsed, raw
    <3>4. /\ Len(raw) \in Nat /\ DOMAIN raw = 1..Len(raw)
          /\ \A l \in 1..Len(raw) : AreEvents(raw[l].events)
      BY <3>1, SequenceIsFunction
    <3>5. parsed = [l \in 1..Len(raw) |-> parsed[l]]
      BY <3>3, <3>4
    <3>6. /\ IsSequence(parsed) /\ DOMAIN parsed = 1..Len(raw)
          /\ \A x \in Range(parsed) : \E l \in 1..Len(raw) : x = parsed[l]
      BY <3>4, <3>5, AnySequence
    <3>7. \A l \in 1..Len(raw) : parsed[l] \in Range(parsed)
      BY <3>6 DEF Range
    <3>8. ASSUME NEW l \in 1..Len(raw)
          PROVE  /\ Default(parsed[l].msg_index, -1) = LogIndex(raw[l])
                 /\ Len(parsed[l].events) = Len(raw[l].events)
                 /\ \A d \in 1..Len(raw[l].events) :
                      parsed[l].events[d] = normalizeEvent(raw[l].events[d])
      <4>1. /\ parsed[l].msg_index = LogIndex(raw[l])
            /\ parsed[l].events = normalizeEvents(raw[l].events)
        BY <3>3, <3>4
      <4>2. LogIndex(raw[l]) # Null
        BY <3>2
      <4>3. AreEvents(raw[l].events)
        BY <3>4
      <4>4. QED
        BY <4>1, <4>2, <4>3, NormalizedAre DEF Default
    <3>9. LogOf(parsed, m, e, ev) <=>
            \E l \in 1..Len(raw) : /\ m = Default(parsed[l].msg_index, -1)
                                   /\ e \in 1..Len(parsed[l].events)
                                   /\ ev = parsed[l].events[e]
      BY <3>6, <3>7 DEF LogOf
    <3>10. QED
      BY <2>2, <3>6, <3>8, <3>9
  <2>3. QED
    BY <2>1, <2>2
<1>2. /\ AreEvents(txLevel) /\ Len(txLevel) = Len(events) /\ Len(events) \in Nat
      /\ \A d \in 1..Len(events) : txLevel[d] = normalizeEvent(normalizeEvent(events[d]))
  <2> DEFINE once == normalizeEvents(events)
  <2>1. AreEvents(events)
    BY DEF IsResult
  <2> HIDE DEF events
  <2>2. /\ AreEvents(once) /\ Len(once) = Len(events) /\ Len(events) \in Nat
        /\ \A d \in 1..Len(events) :
             IsEvent(events[d]) /\ once[d] = normalizeEvent(events[d])
    BY <2>1, NormalizedAre
  <2> HIDE DEF once
  <2>3. /\ AreEvents(normalizeEvents(once)) /\ Len(normalizeEvents(once)) = Len(once)
        /\ \A d \in 1..Len(once) : normalizeEvents(once)[d] = normalizeEvent(once[d])
    BY <2>2, NormalizedAre
  <2>4. txLevel = normalizeEvents(once)
    BY DEF once
  <2> HIDE DEF txLevel
  <2>5. QED
    BY <2>2, <2>3, <2>4
<1> HIDE DEF txLevel
<1>3. IsSequence(flat) /\ (LogOf(flat, m, e, ev) <=> saidOfTx)
  <2>1. CASE txLevel = << >>
    <3>1. Len(events) = 0
      BY <1>2, <2>1, EmptyIsSequence
    <3>2. flat = << >>
      BY <2>1
    <3> HIDE DEF flat
    <3>3. QED
      BY <3>1, <3>2, EmptyIsSequence DEF LogOf
  <2>2. CASE txLevel # << >>
    <3>1. flat = <<log>> /\ log.msg_index = Null /\ log.events = txLevel
      BY <2>2
    <3> HIDE DEF flat, log
    <3>2. IsSequence(flat) /\ Range(flat) = {log}
      <4>1. flat \in Seq({log}) /\ Len(flat) = 1 /\ flat[1] = log
        BY <3>1
      <4>2. IsSequence(flat)
        BY <4>1, IsSequenceOf
      <4>3. Range(flat) = {log}
        BY <4>1, <4>2, SequenceIsFunction
      <4>4. QED
        BY <4>2, <4>3
    <3>3. Default(log.msg_index, -1) = -1
      BY <3>1 DEF Default
    <3>4. QED
      BY <1>2, <3>1, <3>2, <3>3 DEF LogOf
  <2>3. QED
    BY <2>1, <2>2
<1>4. buildCombinedLogs(raw, normalizeEvents(events)) = parsed \o flat
  BY DEF buildCombinedLogs, txLevel
<1>5. Says(result, m, e, ev) <=> saidOfTx \/ saidOfMsg
  BY DEF Says
<1> HIDE DEF parsed, flat, saidOfMsg, saidOfTx
<1>6. Range(parsed \o flat) = Range(parsed) \union Range(flat)
  BY <1>1, <1>3, Joined
<1>7. LogOf(parsed \o flat, m, e, ev) <=> LogOf(parsed, m, e, ev) \/ LogOf(flat, m, e, ev)
  BY <1>6 DEF LogOf
<1>8. QED
  BY <1>1, <1>3, <1>4, <1>5, <1>7

(* An event is at one place of what the node says.                         *)
LEMMA SaidOnce ==
  ASSUME NEW result, IsResult(result), Apart(result.raw_log),
         NEW m, NEW e, NEW ev, NEW ev2,
         Says(result, m, e, ev), Says(result, m, e, ev2)
  PROVE  ev = ev2
<1> DEFINE raw == result.raw_log
<1>1. ASSUME raw # Null
      PROVE  \A l \in 1..Len(raw) :
               /\ LogIndex(raw[l]) # -1
               /\ \A k \in 1..Len(raw) : LogIndex(raw[k]) = LogIndex(raw[l]) => k = l
  <2>1. IsSequence(raw)
    BY <1>1 DEF IsResult
  <2>2. Apart(raw)
    OBVIOUS
  <2> HIDE DEF raw
  <2>3. DOMAIN raw = 1..Len(raw)
    BY <2>1, SequenceIsFunction
  <2>4. QED
    BY <1>1, <2>2, <2>3 DEF Apart
<1>2. CASE m = -1
  BY <1>1, <1>2 DEF Says
<1>3. CASE m # -1
  <2>1. raw # Null
    BY <1>3 DEF Says
  <2>2. PICK k \in 1..Len(raw) :
          m = LogIndex(raw[k]) /\ ev = normalizeEvent(raw[k].events[e])
    BY <1>3 DEF Says
  <2>3. PICK l \in 1..Len(raw) :
          m = LogIndex(raw[l]) /\ ev2 = normalizeEvent(raw[l].events[e])
    BY <1>3 DEF Says
  <2>4. k = l
    BY <1>1, <2>1, <2>2, <2>3
  <2>5. QED
    BY <2>2, <2>3, <2>4
<1>4. QED
  BY <1>2, <1>3

ResultOf(h, i) == getTxsResults(Answers[h].results, Len(Answers[h].txs))[i]
LogsOf(h, i) ==
  buildCombinedLogs(ResultOf(h, i).raw_log, normalizeEvents(ResultOf(h, i).events))
EventOfTx(r, h, i) == EventOf(r, h, Answers[h].txs[i], LogsOf(h, i))

LEMMA EventsOfBlock ==
  ASSUME NEW h \in Heights
  PROVE  /\ Len(Answers[h].txs) \in Nat /\ DOMAIN Answers[h].txs = 1..Len(Answers[h].txs)
         /\ \A i \in 1..Len(Answers[h].txs) : IsResult(ResultOf(h, i))
         /\ \A r : r \in Range(Rows[h]["events"]) <=>
                     \E i \in 1..Len(Answers[h].txs) : EventOfTx(r, h, i)
<1> DEFINE txs == assembleTxObjects(Answers[h])
           n == Len(Answers[h].txs)
           s == [i \in 1..n |-> evRows(h, txs[i])]
<1>1. IsAnswer(Answers[h])
  BY AnswersAssumption
<1>2. /\ n \in Nat /\ DOMAIN Answers[h].txs = 1..n
      /\ txs = [i \in 1..n |-> txs[i]]
      /\ \A i \in 1..n : txs[i].hash = Answers[h].txs[i] /\ IsTx(txs[i])
      /\ \A i \in 1..n : IsResult(ResultOf(h, i)) /\ txs[i].logs = LogsOf(h, i)
  BY <1>1, AssembledTxs DEF ResultOf, LogsOf
<1> HIDE DEF txs, n
<1>3. Rows[h]["events"] = FlattenSeq(s)
  <2> DEFINE R == extractRows(h, Answers[h])
  <2>1. R.events = FlattenSeq([i \in DOMAIN txs |-> evRows(h, txs[i])])
    BY DEF extractRows, PerTx, txs
  <2>2. Rows[h] = R
    BY DEF Rows
  <2> HIDE DEF R
  <2>3. DOMAIN txs = 1..n
    BY <1>2
  <2>4. QED
    BY <2>1, <2>2, <2>3
<1>4. ASSUME NEW i \in 1..n
      PROVE  /\ IsSequence(s[i])
             /\ \A r : r \in Range(s[i]) <=> EventOfTx(r, h, i)
  <2> DEFINE tx == txs[i]
  <2>1. IsTx(tx) /\ tx.hash = Answers[h].txs[i] /\ tx.logs = LogsOf(h, i)
    BY <1>2
  <2>2. s[i] = evRows(h, tx)
    OBVIOUS
  <2> HIDE DEF tx, s
  <2>3. IsSequence(evRows(h, tx))
    BY <2>1, EvRows DEF AreRows
  <2>4. ASSUME NEW r PROVE r \in Range(evRows(h, tx)) <=> EventOfTx(r, h, i)
    <3>1. r \in Range(evRows(h, tx)) <=> EventOf(r, h, tx.hash, tx.logs)
      BY <2>1, EventRowsAre
    <3>2. QED
      BY <2>1, <3>1 DEF EventOfTx
  <2>5. QED
    BY <2>2, <2>3, <2>4
<1>5. s = [i \in 1..n |-> s[i]]
  OBVIOUS
<1> HIDE DEF s
<1>6. /\ \A r \in Range(FlattenSeq(s)) : \E i \in 1..n : r \in Range(s[i])
      /\ \A i \in 1..n : Range(s[i]) \subseteq Range(FlattenSeq(s))
  BY <1>2, <1>4, <1>5, Flattened
<1>7. \A r : r \in Range(FlattenSeq(s)) <=> \E i \in 1..n : EventOfTx(r, h, i)
  BY <1>4, <1>6
<1>8. QED
  BY <1>2, <1>3, <1>7 DEF n

(* Of a transaction whose logs are told apart every event is stored,       *)
(* whatever the other transactions of its block are.                       *)
LEMMA EventsStored ==
  ASSUME NEW h \in Heights, NEW i \in 1..Len(Answers[h].txs),
         Apart(ResultOf(h, i).raw_log), NEW r
  PROVE  r \in FirstRows("events", h) /\ r.tx_hash = Answers[h].txs[i] <=>
           \E m, e, ev : Says(ResultOf(h, i), m, e, ev)
                         /\ r = EventRow(h, Answers[h].txs[i], m, e, ev)
<1> DEFINE n == Len(Answers[h].txs)
           hash == Answers[h].txs[i]
           result == ResultOf(h, i)
           L == Rows[h]["events"]
           f == Flusher["events"]
<1>1. /\ n \in Nat /\ DOMAIN Answers[h].txs = 1..n
      /\ IsResult(result) /\ Apart(result.raw_log)
      /\ \A q : q \in Range(L) <=> \E j \in 1..n : EventOfTx(q, h, j)
  BY EventsOfBlock
<1>2. ASSUME NEW j \in 1..n, Answers[h].txs[j] = hash PROVE j = i
  BY <1>1, <1>2, HashesAssumption
<1>3. \A m, e, ev : LogOf(LogsOf(h, i), m, e, ev) <=> Says(result, m, e, ev)
  BY <1>1, LogsSay DEF LogsOf
<1>4. Lot("events")[h] = L
  BY DEF Lot
<1>5. f.key = {"tx_hash", "msg_index", "event_index"}
  BY DEF Flusher, flushEvents, MultiInsert
<1>6. "events" \in TableNames
  BY TableOrderFacts
<1>7. IsSequence(L)
  BY <1>6, RawRows DEF RowsOfTable
<1>8. \A q : q \in FirstRows("events", h) <=>
               \E p \in 1..Len(L) : q = L[p] /\ IsFirst(L, p, f)
  BY <1>4, <1>6, InFirstRows
<1> HIDE DEF L, f, result, n, hash
<1>9. Len(L) \in Nat /\ DOMAIN L = 1..Len(L) /\ \A p \in 1..Len(L) : L[p] \in Range(L)
  BY <1>7, SequenceIsFunction
<1>10. \A j, q : EventOfTx(q, h, j) => q.tx_hash = Answers[h].txs[j]
  BY DEF EventOfTx, EventOf, EventRow
<1>11. EventOfTx(r, h, i) <=>
         \E m, e, ev : Says(result, m, e, ev) /\ r = EventRow(h, hash, m, e, ev)
  BY <1>3 DEF EventOfTx, EventOf, hash
<1>12. ASSUME r \in FirstRows("events", h), r.tx_hash = hash PROVE EventOfTx(r, h, i)
  <2>1. r \in Range(L)
    BY <1>8, <1>9, <1>12
  <2>2. PICK j \in 1..n : EventOfTx(r, h, j)
    BY <1>1, <2>1
  <2>3. QED
    BY <1>2, <1>10, <1>12, <2>2
<1>13. ASSUME EventOfTx(r, h, i) PROVE r \in FirstRows("events", h) /\ r.tx_hash = hash
  <2>1. r \in Range(L)
    BY <1>1, <1>13 DEF n
  <2>2. PICK p \in 1..Len(L) : r = L[p]
    BY <1>7, <2>1, SequenceIsFunction
  <2>3. PICK q \in 1..p : KeyOf(L[q], f) = KeyOf(L[p], f) /\ IsFirst(L, q, f)
    BY <1>9, FirstOfAll
  <2>4. q \in 1..Len(L)
    BY <1>9
  <2>5. \A c \in f.key : L[q][c] = r[c]
    BY <2>2, <2>3, SameKey
  <2>6. PICK j \in 1..n : EventOfTx(L[q], h, j)
    BY <1>1, <1>9, <2>4
  <2>7. r.tx_hash = hash
    BY <1>10, <1>13 DEF hash
  <2>8. j = i
    BY <1>2, <1>5, <1>10, <2>5, <2>6, <2>7
  <2>9. PICK m, e, ev : Says(result, m, e, ev) /\ r = EventRow(h, hash, m, e, ev)
    BY <1>11, <1>13
  <2>10. PICK m2, e2, ev2 : Says(result, m2, e2, ev2) /\ L[q] = EventRow(h, hash, m2, e2, ev2)
    BY <1>3, <2>6, <2>8 DEF EventOfTx, EventOf, hash
  <2>11. m = m2 /\ e - 1 = e2 - 1
    <3>1. L[q]["msg_index"] = r["msg_index"] /\ L[q]["event_index"] = r["event_index"]
      BY <1>5, <2>5
    <3>2. QED
      BY <2>9, <2>10, <3>1 DEF EventRow
  <2>12. e \in Int /\ e2 \in Int
    BY <2>9, <2>10 DEF Says
  <2>13. e = e2
    BY <2>11, <2>12
  <2>14. ev = ev2
    BY <1>1, <2>9, <2>10, <2>11, <2>13, SaidOnce
  <2>15. L[q] = r
    BY <2>9, <2>10, <2>11, <2>13, <2>14
  <2>16. QED
    BY <1>8, <2>3, <2>4, <2>7, <2>15
<1>14. QED
  BY <1>11, <1>12, <1>13 DEF hash, result

(* What is said of the messages and of the transaction is what the node    *)
(* reported, in words that read back.                                      *)
LEMMA SaysWhatIsReported ==
  ASSUME NEW result, IsResult(result), NEW h, NEW hash
  PROVE  /\ \A m, e, ev : Says(result, m, e, ev) =>
              \E said \in Reported(result) : Tells(EventRow(h, hash, m, e, ev), said)
         /\ \A said \in Reported(result) : \E m, e, ev :
              Says(result, m, e, ev) /\ Tells(EventRow(h, hash, m, e, ev), said)
<1> DEFINE raw == result.raw_log
<1>1. AreEvents(result.events)
  BY DEF IsResult
<1>2. ASSUME raw # Null
      PROVE  /\ DOMAIN raw = 1..Len(raw)
             /\ \A l \in 1..Len(raw) : AreEvents(raw[l].events)
  <2>1. IsSequence(raw) /\ \A x \in Range(raw) : AreEvents(x.events)
    BY <1>2 DEF IsResult
  <2> HIDE DEF raw
  <2>2. QED
    BY <2>1, SequenceIsFunction
<1>3. ASSUME NEW events, AreEvents(events)
      PROVE  /\ DOMAIN events = 1..Len(events)
             /\ \A e \in 1..Len(events) : IsEvent(events[e])
  BY <1>3, NormalizedAre, SequenceIsFunction DEF AreEvents
<1>4. ASSUME NEW m, NEW e, NEW ev, NEW stored, EventReadsBack(stored, ev)
      PROVE  Tells(EventRow(h, hash, m, e, stored), EventAt(m, e, ev))
  <2> DEFINE row == EventRow(h, hash, m, e, stored)
             said == EventAt(m, e, ev)
  <2>1. /\ row.msg_index = m /\ row.event_index = e - 1
        /\ row.event_type = stored.type /\ row.attributes = stored.attributes
    BY DEF EventRow
  <2>2. said.msg = m /\ said.index = e - 1 /\ said.ev = ev
    BY DEF EventAt
  <2> HIDE DEF row, said
  <2>3. Tells(row, said)
    BY <1>4, <2>1, <2>2 DEF Tells, EventReadsBack
  <2>4. QED
    BY <2>3 DEF row, said
<1>5. ASSUME NEW e \in 1..Len(result.events)
      PROVE  LET ev == result.events[e]
                 stored == normalizeEvent(normalizeEvent(ev))
             IN /\ Says(result, -1, e, stored)
                /\ EventAt(-1, e, ev) \in Reported(result)
                /\ Tells(EventRow(h, hash, -1, e, stored), EventAt(-1, e, ev))
  <2> DEFINE ev == result.events[e]
             stored == normalizeEvent(normalizeEvent(ev))
  <2>1. IsEvent(ev) /\ e \in DOMAIN result.events
    BY <1>1, <1>3
  <2>2. Says(result, -1, e, stored)
    BY DEF Says
  <2>3. EventAt(-1, e, ev) \in Reported(result)
    BY <2>1 DEF Reported, EventsOf
  <2> HIDE DEF ev
  <2>4. EventReadsBack(stored, ev)
    BY <2>1, NormalizedReadsBack
  <2> HIDE DEF stored
  <2>5. Tells(EventRow(h, hash, -1, e, stored), EventAt(-1, e, ev))
    BY <1>4, <2>4
  <2>6. QED
    BY <2>2, <2>3, <2>5 DEF ev, stored
<1>6. ASSUME raw # Null, NEW l \in 1..Len(raw), NEW e \in 1..Len(raw[l].events)
      PROVE  LET ev == raw[l].events[e]
                 m == LogIndex(raw[l])
                 stored == normalizeEvent(ev)
             IN /\ Says(result, m, e, stored)
                /\ EventAt(m, e, ev) \in Reported(result)
                /\ Tells(EventRow(h, hash, m, e, stored), EventAt(m, e, ev))
  <2> DEFINE ev == raw[l].events[e]
             m == LogIndex(raw[l])
             stored == normalizeEvent(ev)
  <2>1. l \in DOMAIN raw /\ IsEvent(ev) /\ e \in DOMAIN raw[l].events
    BY <1>2, <1>3, <1>6
  <2>2. Says(result, m, e, stored)
    BY <1>6 DEF Says
  <2>3. EventAt(m, e, ev) \in EventsOfLog(raw[l])
    BY <2>1 DEF EventsOfLog
  <2>4. EventsOfLog(raw[l]) \subseteq Reported(result)
    BY <1>6, <2>1 DEF Reported
  <2> HIDE DEF ev, m
  <2>5. EventReadsBack(stored, ev)
    BY <2>1, NormalizedReadsBack
  <2> HIDE DEF stored
  <2>6. Tells(EventRow(h, hash, m, e, stored), EventAt(m, e, ev))
    BY <1>4, <2>5
  <2>7. QED
    BY <2>2, <2>3, <2>4, <2>6 DEF ev, m, stored
<1>7. ASSUME NEW m, NEW e, NEW ev, Says(result, m, e, ev)
      PROVE  \E said \in Reported(result) : Tells(EventRow(h, hash, m, e, ev), said)
  <2>1. CASE /\ m = -1 /\ e \in 1..Len(result.events)
             /\ ev = normalizeEvent(normalizeEvent(result.events[e]))
    BY <1>5, <2>1
  <2>2. CASE /\ raw # Null
             /\ \E l \in 1..Len(raw) :
                  /\ m = LogIndex(raw[l]) /\ e \in 1..Len(raw[l].events)
                  /\ ev = normalizeEvent(raw[l].events[e])
    <3>1. PICK l \in 1..Len(raw) :
            /\ m = LogIndex(raw[l]) /\ e \in 1..Len(raw[l].events)
            /\ ev = normalizeEvent(raw[l].events[e])
      BY <2>2
    <3>2. QED
      BY <1>6, <2>2, <3>1
  <2>3. QED
    BY <1>7, <2>1, <2>2 DEF Says
<1>8. ASSUME NEW said \in Reported(result)
      PROVE  \E m, e, ev : Says(result, m, e, ev) /\ Tells(EventRow(h, hash, m, e, ev), said)
  <2>1. CASE said \in EventsOf(result)
    <3>1. PICK e \in DOMAIN result.events : said = EventAt(-1, e, result.events[e])
      BY <2>1 DEF EventsOf
    <3>2. e \in 1..Len(result.events)
      BY <1>1, <1>3
    <3>3. QED
      BY <1>5, <3>1, <3>2
  <2>2. CASE said \notin EventsOf(result)
    <3>1. raw # Null /\ \E l \in DOMAIN raw : said \in EventsOfLog(raw[l])
      BY <1>8, <2>2 DEF Reported
    <3>2. PICK l \in DOMAIN raw : said \in EventsOfLog(raw[l])
      BY <3>1
    <3>3. PICK e \in DOMAIN raw[l].events :
            said = EventAt(LogIndex(raw[l]), e, raw[l].events[e])
      BY <3>2 DEF EventsOfLog
    <3>4. l \in 1..Len(raw) /\ e \in 1..Len(raw[l].events)
      BY <1>2, <1>3, <3>1
    <3>5. QED
      BY <1>6, <3>1, <3>3, <3>4
  <2>3. QED
    BY <2>1, <2>2
<1>9. QED
  BY <1>7, <1>8

(* However blocks were written, split over flushes or indexed again, and   *)
(* whatever the node sent, in base64 or not: every event it reported of a  *)
(* stored transaction is in core.events, the events of each log under its  *)
(* index and those of the transaction under -1, every text in it that does *)
(* not look like base64 itself is there unchanged, and no row of           *)
(* core.events says anything else of that transaction.                     *)
THEOREM EventsReadBackHolds == Spec => []EventsReadBack
<1>1. IInv => EventsReadBack
  <2> SUFFICES ASSUME IInv, NEW h \in StoredHeights, NEW i \in DOMAIN Answers[h].txs,
                      Apart(ResultOf(h, i).raw_log)
               PROVE  LET rows == {r \in db["events"] : r.tx_hash = Answers[h].txs[i]}
                          result == ResultOf(h, i)
                      IN /\ \A said \in Reported(result) : \E r \in rows : Tells(r, said)
                         /\ \A r \in rows : \E said \in Reported(result) : Tells(r, said)
    BY DEF EventsReadBack, ResultOf
  <2> DEFINE hash == Answers[h].txs[i]
             result == ResultOf(h, i)
  <2>1. h \in Heights /\ Stored
    BY DEF IInv, Stored
  <2>2. i \in 1..Len(Answers[h].txs) /\ IsResult(result)
    BY <2>1, EventsOfBlock
  <2>3. ASSUME NEW r
        PROVE  r \in db["events"] /\ r.tx_hash = hash <=>
                 \E m, e, ev : Says(result, m, e, ev) /\ r = EventRow(h, hash, m, e, ev)
    <3>1. "events" \in TableNames
      BY TableOrderFacts
    <3>2. db["events"] = RowsOf("events", StoredHeights)
      BY <2>1, <3>1, StoredRows
    <3>3. ASSUME r \in db["events"], r.tx_hash = hash PROVE r \in FirstRows("events", h)
      <4>1. PICK g \in StoredHeights : r \in FirstRows("events", g)
        BY <3>2, <3>3 DEF RowsOf
      <4>2. g \in Heights
        BY <2>1 DEF Stored
      <4>3. RowOf("events", g, r)
        BY <3>1, <4>1, <4>2, InFirstRows
      <4>4. hash \in Hashes(g) /\ hash \in Hashes(h)
        BY <3>3, <4>3 DEF RowOf, Hashes, Range
      <4>5. QED
        BY <2>1, <4>1, <4>2, <4>4, HashOfOneBlock
    <3>4. r \in FirstRows("events", h) => r \in db["events"]
      BY <3>2 DEF RowsOf
    <3>5. r \in FirstRows("events", h) /\ r.tx_hash = hash <=>
            \E m, e, ev : Says(result, m, e, ev) /\ r = EventRow(h, hash, m, e, ev)
      BY <2>1, <2>2, EventsStored
    <3>6. QED
      BY <3>3, <3>4, <3>5
  <2> HIDE DEF hash, result
  <2>4. ASSUME NEW said \in Reported(result)
        PROVE  \E r \in db["events"] : r.tx_hash = hash /\ Tells(r, said)
    <3>1. PICK m, e, ev : Says(result, m, e, ev) /\ Tells(EventRow(h, hash, m, e, ev), said)
      BY <2>2, SaysWhatIsReported
    <3>2. QED
      BY <2>3, <3>1
  <2>5. ASSUME NEW r \in db["events"], r.tx_hash = hash
        PROVE  \E said \in Reported(result) : Tells(r, said)
    <3>1. PICK m, e, ev : Says(result, m, e, ev) /\ r = EventRow(h, hash, m, e, ev)
      BY <2>3, <2>5
    <3>2. QED
      BY <2>2, <3>1, SaysWhatIsReported
  <2>6. QED
    BY <2>4, <2>5 DEF hash, result
<1>2. QED
  BY <1>1, Invariant, PTL

(* The loop of execBatchedInsert ends: as a statement has room for a row,  *)
(* every statement takes at least one, and none goes past the rows.        *)
THEOREM StatementsAdvance ==
  Spec => [][InsertSlice => sent' > sent /\ sent' <= Len(Sent(Name))]_vars
<1>1. ASSUME IInv, InsertSlice PROVE sent' > sent /\ sent' <= Len(Sent(Name))
  <2>1. PICK H \in SUBSET Heights : FlushInv(H)
    BY <1>1 DEF IInv
  <2>2. Inserting(H) /\ sent < Len(Sent(Name))
    BY <1>1, <2>1 DEF FlushInv, InsertSlice
  <2> DEFINE left == Len(Sent(Name)) - sent
  <2>3. Name \in TableNames /\ sent \in Nat /\ Len(Sent(Name)) \in Nat
    BY <1>1, <2>2, SliceFacts
  <2>4. left \in Nat /\ left > 0
    BY <2>2, <2>3
  <2>5. Fits(0, Statement) /\ Fits(1, Statement)
    BY <2>3, LimitsAre DEF Statement
  <2>6. SliceSize = Slice(left, Statement)
    BY DEF SliceSize
  <2> HIDE DEF left
  <2>7. SliceSize \in 0..left /\ (SliceSize = left \/ ~Fits(SliceSize + 1, Statement))
    BY <2>4, <2>5, <2>6, SliceIs
  <2>8. SliceSize # 0
    <3> SUFFICES ASSUME SliceSize = 0 PROVE FALSE
      OBVIOUS
    <3>1. ~Fits(1, Statement)
      <4>1. SliceSize # left /\ SliceSize + 1 = 1
        BY <2>4
      <4>2. QED
        BY <2>7, <4>1
    <3>2. QED
      BY <2>5, <3>1
  <2>9. sent' = sent + SliceSize
    BY <1>1 DEF InsertSlice
  <2>10. QED
    BY <2>3, <2>4, <2>7, <2>8, <2>9 DEF left
<1>2. IInv /\ [Next]_vars => [InsertSlice => sent' > sent /\ sent' <= Len(Sent(Name))]_vars
  BY <1>1
<1>3. QED
  BY <1>2, Invariant, PTL DEF Spec

(***************************************************************************)
(* The refinement: row by row, slice by slice and table by table, a flush  *)
(* is one step on whole blocks, in either mode.  The blocks held are those *)
(* buffered or in the open transaction, and not stored already.            *)
(***************************************************************************)
HeightsIn(rows) == {r.height : r \in rows}
PendingHeights == (BufferedHeights \union HeightsIn(txn["blocks"])) \ StoredHeights

Store == INSTANCE BlockStore WITH stored <- StoredHeights, held <- PendingHeights

ImplementsBlockStore == Store!StoreSpec

(* Between two flushes there is no transaction, and block-atomic mode has  *)
(* nothing buffered.                                                       *)
Quiet ==
  /\ pc \in {"idle", "partitions", "failed"} => txn = EmptyDb
  /\ (mode = "block-atomic" /\ pc = "idle") \/ pc = "failed" => buf["blocks"] = << >>

LEMMA QuietKeeps == IInv /\ Quiet /\ [Next]_vars => Quiet'
<1> SUFFICES ASSUME IInv, Quiet, [Next]_vars PROVE Quiet'
  OBVIOUS
<1>1. EmptyBuf["blocks"] = << >>
  BY EmptyBuffers, TableOrderFacts
<1>2. CASE \E h \in Heights : WriteBlock(h) \/ WriteBlockAtomic(h)
  BY <1>2 DEF WriteBlock, WriteBlockAtomic, Quiet
<1>3. CASE StartFlush \/ CreatePartition \/ BeginInserts \/ InsertSlice \/ NextTable
  BY <1>3 DEF StartFlush, CreatePartition, BeginInserts, InsertSlice, NextTable, Quiet
<1>4. CASE Commit
  <2>1. buf["blocks"] = << >>
    BY <1>4, TableOrderFacts DEF IInv, FlushInv, Committing, Commit
  <2>2. QED
    BY <1>4, <2>1 DEF Commit, Quiet
<1>5. CASE AtomicFails \/ NewRun
  BY <1>1, <1>5 DEF AtomicFails, NewRun, Quiet
<1>6. CASE UNCHANGED vars
  BY <1>6 DEF vars, Quiet
<1>7. QED
  BY <1>2, <1>3, <1>4, <1>5, <1>6 DEF Next

(* The blocks of the flush under way, or of the next one, are held.        *)
PendingIs ==
  pc # "failed" =>
    \A H \in SUBSET Heights : FlushInv(H) => PendingHeights = H \ StoredHeights

LEMMA PendingAre == IInv /\ Quiet => PendingIs
<1> SUFFICES ASSUME IInv, Quiet, pc # "failed", NEW H \in SUBSET Heights, FlushInv(H)
             PROVE  PendingHeights = H \ StoredHeights
  BY DEF PendingIs
<1>1. HeightsIn({}) = {} /\ EmptyDb["blocks"] = {}
  BY TableOrderFacts DEF HeightsIn, EmptyDb
<1>2. BuffersOf(buf) /\ "blocks" \in TableNames /\ StoredHeights \union H \in SUBSET Heights
  BY TableOrderFacts DEF IInv, Stored
<1>3. HeightsIn(db["blocks"]) = StoredHeights
  BY DEF HeightsIn, StoredHeights
<1>4. CASE pc \in {"idle", "partitions"}
  <2>1. Filled(1, H) /\ txn["blocks"] = {}
    BY <1>1, <1>4 DEF FlushInv, Collecting, Partitioning, Quiet
  <2>2. BufferedHeights = H
    BY <1>2, <2>1, HeightsBuffered
  <2>3. QED
    BY <1>1, <2>1, <2>2 DEF PendingHeights
<1>5. CASE pc = "insert" /\ table = 1
  <2>1. Inserting(H) /\ Filled(1, H) /\ Name = "blocks"
    BY <1>5, TableOrderFacts DEF FlushInv, Inserting, Name
  <2>2. BufferedHeights = H
    BY <1>2, <2>1, HeightsBuffered
  <2> DEFINE s == buf["blocks"]
             f == Flusher["blocks"]
  <2>3. txn["blocks"] = db["blocks"] \union Firsts(s, sent, f)
    BY <2>1, TableOrderFacts DEF Inserting, Sent
  <2>4. sent \in 0..Len(s) /\ Len(s) \in Nat /\ DOMAIN s = 1..Len(s)
    <3>1. sent \in 0..Len(s)
      BY <2>1, TableOrderFacts DEF IInv, TypeOK, Sent
    <3>2. QED
      BY <1>2, <3>1, SequenceIsFunction DEF BuffersOf
  <2>5. \A r \in Firsts(s, sent, f) : r.height \in BufferedHeights
    <3>1. ASSUME NEW r \in Firsts(s, sent, f) PROVE r.height \in BufferedHeights
      <4>1. PICK i \in 1..sent : r = s[i]
        BY <3>1 DEF Firsts
      <4>2. i \in DOMAIN s
        BY <2>4, <4>1
      <4>3. QED
        BY <4>1, <4>2 DEF BufferedHeights
    <3>2. QED
      BY <3>1
  <2> HIDE DEF s, f
  <2>6. ASSUME NEW h \in HeightsIn(txn["blocks"]) PROVE h \in StoredHeights \union H
    <3>1. PICK r \in txn["blocks"] : h = r.height
      BY <2>6 DEF HeightsIn
    <3>2. QED
      BY <2>2, <2>3, <2>5, <3>1 DEF StoredHeights
  <2>7. QED
    BY <2>2, <2>6 DEF PendingHeights
<1>6. CASE (pc = "insert" /\ table # 1) \/ pc = "commit"
  <2>1. /\ buf["blocks"] = << >>
        /\ txn["blocks"] = RowsOf("blocks", StoredHeights \union H)
    <3>1. CASE pc = "insert" /\ table # 1
      <4>1. 1 \in 1..(table - 1) /\ TableOrder[1] = "blocks"
        BY <3>1, TableOrderFacts DEF IInv, TypeOK
      <4>2. QED
        BY <3>1, <4>1 DEF FlushInv, Inserting, Emptied
    <3>2. CASE pc = "commit"
      BY <1>2, <3>2 DEF FlushInv, Committing
    <3>3. QED
      BY <1>6, <3>1, <3>2
  <2>2. BufferedHeights = {}
    BY <2>1 DEF BufferedHeights
  <2>3. HeightsIn(txn["blocks"]) = StoredHeights \union H
    BY <1>2, <2>1, BlockRowsAre DEF HeightsIn
  <2>4. QED
    BY <2>2, <2>3 DEF PendingHeights
<1>7. QED
  BY <1>4, <1>5, <1>6 DEF IInv, TypeOK

LEMMA PendingAreNext == (IInv /\ Quiet)' => PendingIs'
BY PendingAre, PTL

(* A COMMIT stores what is held, a write adds its block to it, a rejected  *)
(* write or a new run loses it; no other call changes anything a reader of *)
(* whole blocks could see.                                                 *)
LEMMA StepIsStoreStep ==
  ASSUME IInv, IInv', Quiet, Quiet', [Next]_vars
  PROVE  [Store!StoreNext]_(Store!storeVars)
<1>1. PICK H \in SUBSET Heights : FlushInv(H)
  BY DEF IInv
<1>2. pc # "failed" => PendingHeights = H \ StoredHeights
  BY <1>1, PendingAre DEF PendingIs
<1>3. ASSUME NEW G \in SUBSET Heights, FlushInv(G)', pc' # "failed"
      PROVE  PendingHeights' = G \ StoredHeights'
  BY <1>3, PendingAreNext DEF PendingIs
<1>4. UNCHANGED db => StoredHeights' = StoredHeights
  BY DEF StoredHeights
<1>5. CASE StartFlush \/ CreatePartition \/ BeginInserts \/ InsertSlice \/ NextTable
  <2>1. FlushInv(H)'
    BY <1>1, <1>5, StartFlushKeeps, CreatePartitionKeeps, BeginInsertsKeeps, InsertSliceKeeps,
       NextTableKeeps
  <2>2. pc # "failed" /\ pc' # "failed" /\ db' = db
    BY <1>5 DEF StartFlush, CreatePartition, BeginInserts, InsertSlice, NextTable
  <2>3. PendingHeights' = PendingHeights /\ StoredHeights' = StoredHeights
    BY <1>2, <1>3, <1>4, <2>1, <2>2
  <2>4. QED
    BY <2>3 DEF Store!storeVars
<1>6. ASSUME NEW h \in Heights, WriteBlock(h) \/ WriteBlockAtomic(h)
      PROVE  [Store!StoreNext]_(Store!storeVars)
  <2>1. pc # "failed" /\ pc' # "failed" /\ db' = db /\ StoredHeights' = StoredHeights
    BY <1>4, <1>6 DEF WriteBlock, WriteBlockAtomic
  <2>2. PendingHeights' = PendingHeights \union ({h} \ StoredHeights)
    <3>1. CASE WriteBlock(h)
      <4>1. FlushInv(H \union {h})' /\ H \union {h} \in SUBSET Heights
        BY <1>1, <3>1, WriteBlockKeeps
      <4>2. QED
        BY <1>2, <1>3, <2>1, <4>1
    <3>2. CASE WriteBlockAtomic(h)
      <4>1. FlushInv({h})' /\ {h} \in SUBSET Heights
        BY <1>1, <3>2, WriteBlockAtomicKeeps
      <4>2. buf["blocks"] = << >> /\ txn = EmptyDb
        BY <3>2 DEF WriteBlockAtomic, Quiet
      <4>3. PendingHeights = {}
        BY <4>2, TableOrderFacts DEF PendingHeights, BufferedHeights, HeightsIn, EmptyDb
      <4>4. QED
        BY <1>3, <2>1, <4>1, <4>3
    <3>3. QED
      BY <1>6, <3>1, <3>2
  <2>3. CASE h \in StoredHeights
    <3>1. PendingHeights' = PendingHeights
      BY <2>2, <2>3
    <3>2. QED
      BY <2>1, <3>1 DEF Store!storeVars
  <2>4. CASE h \notin StoredHeights
    <3>1. Store!Accept(h) /\ h \in PendingHeights'
      BY <2>1, <2>2, <2>4 DEF Store!Accept
    <3>2. QED
      BY <3>1 DEF Store!StoreNext
  <2>5. QED
    BY <2>3, <2>4
<1>7. CASE Commit
  <2>1. FlushInv({})' /\ StoredHeights' = StoredHeights \union H
    BY <1>1, <1>7, CommitKeeps
  <2>2. pc # "failed" /\ pc' # "failed"
    BY <1>7 DEF Commit
  <2>3. PendingHeights' = {} /\ StoredHeights' = StoredHeights \union PendingHeights
    BY <1>2, <1>3, <2>1, <2>2
  <2>4. QED
    BY <2>3 DEF Store!StoreNext, Store!StoreAll
<1>8. CASE AtomicFails \/ NewRun
  <2>1. txn' = EmptyDb /\ buf' = EmptyBuf /\ StoredHeights' = StoredHeights
    BY <1>4, <1>8 DEF AtomicFails, NewRun
  <2>2. BufferedHeights' = {}
    <3>1. buf'["blocks"] = << >>
      BY <2>1, EmptyBuffers, TableOrderFacts
    <3>2. QED
      BY <3>1 DEF BufferedHeights
  <2>3. HeightsIn(txn["blocks"])' = {}
    BY <2>1, TableOrderFacts DEF HeightsIn, EmptyDb
  <2>4. Store!LoseHeld
    BY <2>1, <2>2, <2>3 DEF PendingHeights, Store!LoseHeld
  <2>5. QED
    BY <2>4 DEF Store!StoreNext
<1>9. CASE UNCHANGED vars
  BY <1>9 DEF vars, Store!storeVars, PendingHeights, BufferedHeights, HeightsIn, StoredHeights
<1>10. QED
  BY <1>5, <1>6, <1>7, <1>8, <1>9 DEF Next

LEMMA QuietHolds == Spec => []Quiet
<1>1. Init => Quiet
  BY EmptyBuffers, TableOrderFacts DEF Init, Quiet
<1>2. QED
  BY <1>1, QuietKeeps, Invariant, PTL DEF Spec

(* In both modes, whatever is sliced, indexed again or interrupted: all    *)
(* rows of the blocks of a flush (TablesHoldFirstRows) become visible in   *)
(* one step, and no block that is stored is ever lost.                     *)
THEOREM ImplementsBlockStoreHolds == Spec => ImplementsBlockStore
<1>1. Init => Store!StoreInit
  <2> SUFFICES ASSUME Init PROVE Store!StoreInit
    OBVIOUS
  <2>1. buf["blocks"] = << >> /\ txn["blocks"] = {} /\ db["blocks"] = {}
    BY EmptyBuffers, TableOrderFacts DEF Init, EmptyDb
  <2>2. StoredHeights = {} /\ BufferedHeights = {} /\ HeightsIn(txn["blocks"]) = {}
    BY <2>1 DEF StoredHeights, BufferedHeights, HeightsIn
  <2>3. QED
    BY <2>2 DEF Store!StoreInit, PendingHeights
<1>2. IInv /\ IInv' /\ Quiet /\ Quiet' /\ [Next]_vars => [Store!StoreNext]_(Store!storeVars)
  BY StepIsStoreStep
<1>3. QED
  BY <1>1, <1>2, Invariant, QuietHolds, PTL DEF Spec, ImplementsBlockStore, Store!StoreSpec

(* A committed row stays as it is: ON CONFLICT DO UPDATE, which overwrites *)
(* log_summary, and blocks that are indexed again change no row, and a     *)
(* later row with the same key never takes its place.                      *)
THEOREM CommittedRowsStay == Spec => [][\A t \in TableNames : db[t] \subseteq db'[t]]_vars
<1>1. ASSUME IInv, IInv', [Next]_vars
      PROVE  \A t \in TableNames : db[t] \subseteq db'[t]
  <2>1. StoredHeights \subseteq StoredHeights'
    <3>1. PICK H \in SUBSET Heights : FlushInv(H)
      BY <1>1 DEF IInv
    <3>2. Commit => StoredHeights' = StoredHeights \union H
      BY <1>1, <3>1, CommitKeeps
    <3>3. Commit \/ UNCHANGED db
      BY <1>1 DEF Next, vars, WriteBlock, WriteBlockAtomic, StartFlush, CreatePartition,
         BeginInserts, InsertSlice, AtomicFails, NextTable, NewRun
    <3>4. QED
      BY <3>2, <3>3 DEF StoredHeights
  <2>2. ASSUME NEW t \in TableNames
        PROVE  db[t] = RowsOf(t, StoredHeights) /\ db'[t] = RowsOf(t, StoredHeights')
    BY <1>1 DEF IInv, Stored, TablesHoldFirstRows, RowsOf
  <2>3. QED
    BY <2>1, <2>2 DEF RowsOf
<1>2. QED
  BY <1>1, Invariant, PTL DEF Spec
==============================================================================
