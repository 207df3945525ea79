--------------------------- MODULE OrderingProofs ---------------------------
(***************************************************************************)
(* What InOrder, Ascending, Keep and Joined are, for every finite set and  *)
(* every sequence.  An enumeration of a set in an order exists, and there  *)
(* is only one.  Then induction over numbers and steps, and sequences.     *)
(***************************************************************************)
EXTENDS Orderings, SequencesExt, FiniteSetTheorems, WellFoundedInduction, TLAPS

(* The order of the natural numbers is well founded.                       *)
LEMMA LeastNat ==
  ASSUME NEW T \in SUBSET Nat, T # {}
  PROVE  \E n \in T : \A m \in T : n <= m
<1> DEFINE Less == {p \in Nat \X Nat : p[1] < p[2]}
<1>1. IsWellFoundedOn(Less, Nat)
  BY NatLessThanWellFounded DEF OpToRel
<1> HIDE DEF Less
<1>2. PICK n \in T : \A m \in T : <<m, n>> \notin Less
  BY <1>1, WFMin
<1>3. \A m \in T : ~ (m < n)
  BY <1>2 DEF Less
<1> QED
  BY <1>3

(* A set that has 0 and with a number the next has all of them.            *)
LEMMA NatSetInduction ==
  ASSUME NEW S, 0 \in S, \A n \in Nat : n \in S => n + 1 \in S
  PROVE  Nat \subseteq S
<1> DEFINE T == Nat \ S
<1>1. SUFFICES ASSUME T # {} PROVE FALSE
  OBVIOUS
<1>2. PICK n \in T : \A m \in T : n <= m
  BY <1>1, LeastNat
<1>3. n - 1 \in Nat /\ n - 1 \notin T
  BY <1>2
<1> QED
  BY <1>2, <1>3

-----------------------------------------------------------------------------
(* A strict total order on the domain of before.                           *)
Orders(before) ==
  \A x \in DOMAIN before :
    /\ before[x] \subseteq DOMAIN before /\ x \notin before[x]
    /\ \A y \in before[x] : before[y] \subseteq before[x]
    /\ \A y \in DOMAIN before : x = y \/ x \in before[y] \/ y \in before[x]

(* Every member once, those that come before it in front of it.            *)
Enumerates(q, before) ==
  /\ q \in [1 .. Cardinality(DOMAIN before) -> DOMAIN before]
  /\ \A x \in DOMAIN before : \E k \in DOMAIN q : q[k] = x
  /\ \A j, k \in DOMAIN q : q[j] \in before[q[k]] <=> j < k

(* A member has less members before it than there are, and those before it *)
(* have less than it has.                                                  *)
LEMMA Numbered ==
  ASSUME NEW before, IsFiniteSet(DOMAIN before), Orders(before)
  PROVE  /\ Cardinality(DOMAIN before) \in Nat
         /\ \A x \in DOMAIN before :
              Cardinality(before[x]) \in 0 .. Cardinality(DOMAIN before) - 1
         /\ \A x, y \in DOMAIN before :
              y \in before[x] <=> Cardinality(before[y]) < Cardinality(before[x])
<1> DEFINE n == Cardinality(DOMAIN before)
<1>1. n \in Nat
  BY FS_CardinalityType
<1>2. ASSUME NEW x \in DOMAIN before
      PROVE  /\ IsFiniteSet(before[x]) /\ Cardinality(before[x]) \in Nat
             /\ Cardinality(before[x]) < n
  <2>1. before[x] \in SUBSET DOMAIN before /\ x \notin before[x]
    BY DEF Orders
  <2>2. /\ IsFiniteSet(before[x]) /\ Cardinality(before[x]) <= n
        /\ n = Cardinality(before[x]) => DOMAIN before = before[x]
    BY <2>1, FS_Subset
  <2>3. Cardinality(before[x]) \in Nat
    BY <2>2, FS_CardinalityType
  <2> QED
    BY <1>1, <2>1, <2>2, <2>3
<1>3. ASSUME NEW x \in DOMAIN before, NEW y \in before[x]
      PROVE  Cardinality(before[y]) < Cardinality(before[x])
  <2>1. before[y] \in SUBSET before[x] /\ y \in DOMAIN before /\ y \notin before[y]
    BY DEF Orders
  <2>2. /\ Cardinality(before[y]) <= Cardinality(before[x])
        /\ Cardinality(before[x]) = Cardinality(before[y]) => before[x] = before[y]
    BY <1>2, <2>1, FS_Subset
  <2>3. Cardinality(before[y]) \in Nat /\ Cardinality(before[x]) \in Nat
    BY <1>2, <2>1
  <2> QED
    BY <2>1, <2>2, <2>3
<1>4. ASSUME NEW x \in DOMAIN before, NEW y \in DOMAIN before,
             Cardinality(before[y]) < Cardinality(before[x])
      PROVE  y \in before[x]
  <2>1. Cardinality(before[y]) \in Nat /\ Cardinality(before[x]) \in Nat
    BY <1>2
  <2>2. x \notin before[y]
    BY <1>3, <1>4, <2>1
  <2>3. x # y
    BY <1>4, <2>1
  <2> QED
    BY <2>2, <2>3 DEF Orders
<1> QED
  BY <1>1, <1>2, <1>3, <1>4

(* The member with k - 1 others before it is the k-th.                     *)
LEMMA EnumerationIs ==
  ASSUME NEW before, IsFiniteSet(DOMAIN before), Orders(before)
  PROVE  Enumerates(InOrder(before), before)
<1> DEFINE D == DOMAIN before
           n == Cardinality(D)
           number == [x \in D |-> Cardinality(before[x])]
           q == InOrder(before)
<1>1. n \in Nat /\ number \in [D -> 0 .. n - 1]
  BY Numbered
<1>2. \A x, y \in D : y \in before[x] <=> number[y] < number[x]
  BY Numbered
<1>3. \A x, y \in D : number[x] = number[y] => x = y
  BY <1>1, <1>2 DEF Orders
<1>4. number \in Injection(D, 0 .. n - 1)
  BY <1>1, <1>3 DEF Injection, IsInjective
<1>5. IsFiniteSet(0 .. n - 1) /\ Cardinality(0 .. n - 1) = n
  BY <1>1, FS_Interval
<1>6. number \in Surjection(D, 0 .. n - 1)
  BY <1>4, <1>5, FS_Injection
<1>7. ASSUME NEW k \in 1 .. n PROVE q[k] \in D /\ number[q[k]] = k - 1
  <2> HIDE DEF number
  <2>1. k - 1 \in 0 .. n - 1
    BY <1>1
  <2>2. PICK x \in D : number[x] = k - 1
    BY <1>6, <2>1 DEF Surjection
  <2>3. Cardinality(before[x]) = k - 1
    BY <2>2 DEF number
  <2>4. q[k] = CHOOSE y \in D : Cardinality(before[y]) = k - 1
    BY DEF InOrder
  <2>5. q[k] \in D /\ Cardinality(before[q[k]]) = k - 1
    BY <2>3, <2>4
  <2> QED
    BY <2>5 DEF number
<1>8. q \in [1 .. n -> D]
  BY <1>7 DEF InOrder
<1> HIDE DEF q, number, n
<1>9. ASSUME NEW x \in D PROVE \E k \in 1 .. n : q[k] = x
  <2>1. number[x] + 1 \in 1 .. n
    BY <1>1
  <2>2. q[number[x] + 1] \in D /\ number[q[number[x] + 1]] = number[x]
    BY <1>1, <1>7, <2>1
  <2> QED
    BY <1>3, <2>1, <2>2
<1>10. ASSUME NEW j \in 1 .. n, NEW k \in 1 .. n PROVE q[j] \in before[q[k]] <=> j < k
  BY <1>1, <1>2, <1>7
<1> QED
  BY <1>8, <1>9, <1>10 DEF Enumerates, q, n

(* There is only one enumeration: what comes before the k-th member are    *)
(* the k - 1 members in front of it.                                       *)
LEMMA EnumerationIsOne ==
  ASSUME NEW before, IsFiniteSet(DOMAIN before), Orders(before),
         NEW q, Enumerates(q, before)
  PROVE  q = InOrder(before)
<1> DEFINE D == DOMAIN before
           n == Cardinality(D)
           r == InOrder(before)
<1>1. n \in Nat /\ Enumerates(r, before)
  BY EnumerationIs, Numbered
<1> HIDE DEF r, n, D
<1>2. /\ q \in [1 .. n -> D] /\ r \in [1 .. n -> D]
      /\ \A x \in D : \E k \in 1 .. n : q[k] = x
      /\ \A x \in D : \E k \in 1 .. n : r[k] = x
      /\ \A j, k \in 1 .. n : q[j] \in before[q[k]] <=> j < k
      /\ \A j, k \in 1 .. n : r[j] \in before[r[k]] <=> j < k
  BY <1>1 DEF Enumerates, n, D
<1>3. ASSUME NEW k \in 1 .. n, q[k] # r[k], \A j \in 1 .. n : j < k => q[j] = r[j]
      PROVE  FALSE
  <2>1. PICK j \in 1 .. n : q[j] = r[k]
    BY <1>2
  <2>2. PICK l \in 1 .. n : r[l] = q[k]
    BY <1>2
  <2>3. ~ (j < k) /\ ~ (l < k)
    <3>1. j < k => r[j] \in before[r[k]] /\ r[j] = r[k]
      BY <1>2, <1>3, <2>1
    <3>2. l < k => q[l] \in before[q[k]] /\ q[l] = q[k]
      BY <1>2, <1>3, <2>2
    <3>3. \A x \in D : x \notin before[x]
      BY DEF Orders, D
    <3> QED
      BY <1>2, <3>1, <3>2, <3>3
  <2>4. j # k /\ l # k
    BY <1>3, <2>1, <2>2
  <2>5. k < j /\ k < l
    BY <1>1, <2>3, <2>4
  <2>6. q[k] \in before[r[k]] /\ r[k] \in before[q[k]]
    BY <1>2, <2>1, <2>2, <2>5
  <2>7. \A x, y \in D : x \in before[y] => y \notin before[x]
    BY DEF Orders, D
  <2> QED
    BY <1>2, <2>6, <2>7
<1>4. \A k \in 1 .. n : q[k] = r[k]
  <2> DEFINE T == {k \in 1 .. n : q[k] # r[k]}
  <2>1. SUFFICES ASSUME T # {} PROVE FALSE
    OBVIOUS
  <2>2. T \in SUBSET Nat
    BY <1>1
  <2>3. PICK k \in T : \A m \in T : k <= m
    BY <2>1, <2>2, LeastNat
  <2> QED
    BY <1>1, <1>3, <2>3
<1>5. q = [k \in 1 .. n |-> q[k]] /\ r = [k \in 1 .. n |-> r[k]]
  BY <1>2
<1>6. [k \in 1 .. n |-> q[k]] = [k \in 1 .. n |-> r[k]]
  BY <1>4
<1>7. q = r
  BY <1>5, <1>6
<1> QED
  BY <1>7 DEF r

(* The same of a sequence that is not known to be as long as there are     *)
(* members.                                                                *)
Sorts(q, before) ==
  /\ q \in Seq(DOMAIN before)
  /\ \A x \in DOMAIN before : \E k \in 1 .. Len(q) : q[k] = x
  /\ \A j, k \in 1 .. Len(q) : q[j] \in before[q[k]] <=> j < k

(* InOrder sorts the set.                                                  *)
LEMMA SortsIs ==
  ASSUME NEW before, IsFiniteSet(DOMAIN before), Orders(before)
  PROVE  Sorts(InOrder(before), before) /\ Len(InOrder(before)) = Cardinality(DOMAIN before)
<1> DEFINE q == InOrder(before)
           n == Cardinality(DOMAIN before)
<1>1. n \in Nat /\ Enumerates(q, before)
  BY EnumerationIs, Numbered
<1> HIDE DEF q, n
<1>2. q \in [1 .. n -> DOMAIN before] /\ q \in Seq(DOMAIN before) /\ Len(q) = n
  BY <1>1 DEF Enumerates, n
<1>3. Sorts(q, before)
  BY <1>1, <1>2 DEF Sorts, Enumerates
<1> QED
  BY <1>2, <1>3 DEF q, n

(* Nothing comes twice in what is sorted.                                  *)
LEMMA SortsOnce ==
  ASSUME NEW before, Orders(before), NEW q, Sorts(q, before)
  PROVE  \A j, k \in 1 .. Len(q) : q[j] = q[k] => j = k
<1> TAKE j, k \in 1 .. Len(q)
<1>1. q[j] \in DOMAIN before /\ q[k] \in DOMAIN before
  BY DEF Sorts
<1>2. q[j] \notin before[q[j]]
  BY <1>1 DEF Orders
<1>3. q[j] = q[k] => ~(j < k) /\ ~(k < j)
  BY <1>2 DEF Sorts
<1>4. j \in Nat /\ k \in Nat
  BY DEF Sorts
<1> QED
  BY <1>3, <1>4

(* A sequence that sorts the set is InOrder.                               *)
LEMMA SortsIsOne ==
  ASSUME NEW before, IsFiniteSet(DOMAIN before), Orders(before), NEW q, Sorts(q, before)
  PROVE  q = InOrder(before)
<1>1. Len(q) \in Nat /\ q \in [1 .. Len(q) -> DOMAIN before]
  BY DEF Sorts
<1>2. \A n \in Nat : IsFiniteSet(1 .. n) /\ Cardinality(1 .. n) = n
  BY FS_Interval
<1>3. IsFiniteSet(1 .. Len(q)) /\ Cardinality(1 .. Len(q)) = Len(q)
  BY <1>2, <1>1
<1>4. DOMAIN q = 1 .. Len(q)
  BY <1>1
<1>5. \A j, k \in 1 .. Len(q) : q[j] = q[k] => j = k
  BY SortsOnce
<1>6. q \in Injection(1 .. Len(q), DOMAIN before) /\
        q \in Surjection(1 .. Len(q), DOMAIN before)
  BY <1>1, <1>4, <1>5 DEF Sorts, Injection, IsInjective, Surjection
<1>7. Cardinality(DOMAIN before) = Len(q)
  BY <1>3, <1>6, FS_Surjection
<1>8. Enumerates(q, before)
  BY <1>1, <1>7 DEF Sorts, Enumerates
<1> QED
  BY <1>8, EnumerationIsOne

(* It is enough that what is in front comes before.                        *)
LEMMA SortsForward ==
  ASSUME NEW before, Orders(before), NEW q \in Seq(DOMAIN before),
         \A x \in DOMAIN before : \E k \in 1 .. Len(q) : q[k] = x,
         \A j, k \in 1 .. Len(q) : j < k => q[j] \in before[q[k]]
  PROVE  Sorts(q, before)
<1>1. ASSUME NEW j \in 1 .. Len(q), NEW k \in 1 .. Len(q), q[j] \in before[q[k]]
      PROVE  j < k
  <2>1. q[j] \in DOMAIN before /\ q[k] \in DOMAIN before
    OBVIOUS
  <2>2. q[k] \notin before[q[j]] /\ q[j] \notin before[q[j]]
    BY <1>1, <2>1 DEF Orders
  <2>3. j # k
    BY <1>1, <2>2
  <2>4. ~(k < j)
    BY <2>2
  <2> QED
    BY <2>3, <2>4
<1> QED
  BY <1>1 DEF Sorts

-----------------------------------------------------------------------------
(* Ascending lists a set of numbers from the least on.                     *)
LEMMA AscendingIs ==
  ASSUME NEW I \in SUBSET Nat, IsFiniteSet(I)
  PROVE  /\ Cardinality(I) \in Nat
         /\ Ascending(I) \in [1 .. Cardinality(I) -> I]
         /\ \A i \in I : \E k \in 1 .. Cardinality(I) : Ascending(I)[k] = i
         /\ \A j, k \in 1 .. Cardinality(I) : Ascending(I)[j] < Ascending(I)[k] <=> j < k
<1> DEFINE before == [i \in I |-> {j \in I : j < i}]
<1>1. DOMAIN before = I
  OBVIOUS
<1>2. \A i, j \in I : j \in before[i] <=> j < i
  OBVIOUS
<1>3. \A i \in I : before[i] \subseteq I
  OBVIOUS
<1> HIDE DEF before
<1>4. \A i \in I : i \in Nat
  OBVIOUS
<1>5. \A i \in I : i \notin before[i] /\ \A j \in before[i] : before[j] \subseteq before[i]
  <2> TAKE i \in I
  <2>1. i \notin before[i]
    BY <1>2, <1>4
  <2>2. \A j \in before[i], l \in I : l \in before[j] => l \in before[i]
    <3> TAKE j \in before[i], l \in I
    <3>1. j \in I /\ j < i
      BY <1>2, <1>3
    <3>2. l \in before[j] => l < j
      BY <1>2, <3>1
    <3>3. i \in Nat /\ j \in Nat /\ l \in Nat
      BY <1>4, <3>1
    <3>4. l < j => l < i
      BY <3>1, <3>3
    <3> QED
      BY <1>2, <3>2, <3>4
  <2>3. \A j \in before[i] : j \in I
    BY <1>3
  <2>4. \A j \in before[i] : before[j] \subseteq I
    BY <1>3, <2>3
  <2>5. \A j \in before[i] : before[j] \subseteq before[i]
    BY <2>2, <2>4
  <2> QED
    BY <2>1, <2>5
<1>6. \A i, j \in I : i = j \/ i \in before[j] \/ j \in before[i]
  <2> TAKE i, j \in I
  <2>1. i = j \/ i < j \/ j < i
    BY <1>4
  <2> QED
    BY <1>2, <2>1
<1>7. Orders(before)
  BY <1>1, <1>3, <1>5, <1>6 DEF Orders
<1>8. Enumerates(Ascending(I), before) /\ Cardinality(I) \in Nat
  BY <1>1, <1>7, EnumerationIs, Numbered DEF Ascending, before
<1>9. Ascending(I) \in [1 .. Cardinality(I) -> I]
  BY <1>1, <1>8 DEF Enumerates
<1>10. \A i \in I : \E k \in 1 .. Cardinality(I) : Ascending(I)[k] = i
  BY <1>1, <1>8, <1>9 DEF Enumerates
<1>11. \A j, k \in 1 .. Cardinality(I) : Ascending(I)[j] \in before[Ascending(I)[k]] <=> j < k
  BY <1>8, <1>9 DEF Enumerates
<1>12. \A j, k \in 1 .. Cardinality(I) : Ascending(I)[j] < Ascending(I)[k] <=> j < k
  BY <1>2, <1>9, <1>11
<1> QED
  BY <1>8, <1>9, <1>10, <1>12

(* A set of places of a sequence is finite.                                *)
LEMMA IndicesAreFinite ==
  ASSUME NEW n \in Nat, NEW I \in SUBSET (1 .. n)
  PROVE  /\ I \in SUBSET Nat /\ IsFiniteSet(I) /\ Cardinality(I) \in 0 .. n
         /\ Cardinality(I) = n => I = 1 .. n
<1>1. IsFiniteSet(1 .. n) /\ Cardinality(1 .. n) = n
  BY FS_Interval
<1>2. /\ IsFiniteSet(I) /\ Cardinality(I) <= n
      /\ Cardinality(1 .. n) = Cardinality(I) => 1 .. n = I
  BY <1>1, FS_Subset
<1>3. Cardinality(I) \in Nat
  BY <1>2, FS_CardinalityType
<1> QED
  BY <1>1, <1>2, <1>3

(* A function on 1 .. n is a sequence of length n.                         *)
LEMMA IsSeq ==
  ASSUME NEW S, NEW n \in Nat, NEW s \in [1 .. n -> S]
  PROVE  s \in Seq(S) /\ Len(s) = n /\ DOMAIN s = 1 .. n
OBVIOUS

(* The k-th that is kept is the at[k]-th of s.                             *)
KeptAt(at, kept, s, wanted) ==
  /\ at \in [1 .. Len(kept) -> 1 .. Len(s)]
  /\ \A k \in 1 .. Len(kept) : kept[k] = s[at[k]] /\ s[at[k]] \in wanted
  /\ \A j, k \in 1 .. Len(kept) : at[j] < at[k] <=> j < k
  /\ \A i \in 1 .. Len(s) : s[i] \in wanted => \E k \in 1 .. Len(kept) : at[k] = i

(* Keep takes what is wanted, all of it, and in its order.                 *)
LEMMA KeepIs ==
  ASSUME NEW S, NEW s \in Seq(S), NEW wanted
  PROVE  /\ Keep(s, wanted) \in Seq(S) /\ Len(Keep(s, wanted)) <= Len(s)
         /\ \E at : KeptAt(at, Keep(s, wanted), s, wanted)
         /\ Len(Keep(s, wanted)) = Len(s) => \A i \in 1 .. Len(s) : s[i] \in wanted
<1> DEFINE I == {i \in DOMAIN s : s[i] \in wanted}
           n == Cardinality(I)
           at == Ascending(I)
           kept == [k \in 1 .. n |-> s[at[k]]]
<1>1. I \in SUBSET (1 .. Len(s))
  OBVIOUS
<1>2. I \in SUBSET Nat /\ IsFiniteSet(I) /\ n \in 0 .. Len(s) /\ (n = Len(s) => I = 1 .. Len(s))
  BY <1>1, IndicesAreFinite
<1>3. /\ at \in [1 .. n -> I]
      /\ \A i \in I : \E k \in 1 .. n : at[k] = i
      /\ \A j, k \in 1 .. n : at[j] < at[k] <=> j < k
  BY <1>2, AscendingIs
<1>4. Keep(s, wanted) = kept
  BY <1>3 DEF Keep
<1>5. \A i \in I : i \in 1 .. Len(s) /\ s[i] \in S /\ s[i] \in wanted
  OBVIOUS
<1>6. \A i \in 1 .. Len(s) : s[i] \in wanted => i \in I
  OBVIOUS
<1> HIDE DEF I, n, at
<1>7. \A k \in 1 .. n : s[at[k]] \in S
  BY <1>3, <1>5
<1>8. n \in Nat /\ kept \in [1 .. n -> S]
  BY <1>2, <1>7
<1>9. kept \in Seq(S) /\ Len(kept) = n
  BY <1>8
<1>10. \A k \in 1 .. n : kept[k] = s[at[k]]
  OBVIOUS
<1> HIDE DEF kept
<1>11. at \in [1 .. n -> 1 .. Len(s)]
  BY <1>1, <1>3
<1>12. \A k \in 1 .. n : s[at[k]] \in wanted
  BY <1>3, <1>5
<1>13. \A i \in 1 .. Len(s) : s[i] \in wanted => \E k \in 1 .. n : at[k] = i
  BY <1>3, <1>6
<1>14. n = Len(s) => \A i \in 1 .. Len(s) : s[i] \in wanted
  BY <1>2, <1>5
<1>15. n <= Len(s)
  BY <1>2
<1>16. KeptAt(at, kept, s, wanted)
  BY <1>3, <1>9, <1>10, <1>11, <1>12, <1>13 DEF KeptAt
<1> QED
  BY <1>4, <1>9, <1>14, <1>15, <1>16

(* A finite set has a finite image.                                        *)
LEMMA ImageIsFinite ==
  ASSUME NEW f, IsFiniteSet(DOMAIN f)
  PROVE  /\ IsFiniteSet({f[x] : x \in DOMAIN f})
         /\ Cardinality({f[x] : x \in DOMAIN f}) <= Cardinality(DOMAIN f)
<1> DEFINE T == {f[x] : x \in DOMAIN f}
           g == [x \in DOMAIN f |-> f[x]]
<1>1. g \in Surjection(DOMAIN f, T)
  BY DEF Surjection
<1> HIDE DEF g, T
<1>2. IsFiniteSet(T) /\ Cardinality(T) <= Cardinality(DOMAIN f)
  BY <1>1, FS_Surjection
<1> QED
  BY <1>2 DEF T

(* A sequence of sequences has finitely many places.                       *)
LEMMA PlacesAreFinite ==
  ASSUME NEW S, NEW seqs \in Seq(Seq(S))
  PROVE  IsFiniteSet(Places(seqs))
<1> DEFINE row == [i \in 1 .. Len(seqs) |-> {<<i, j>> : j \in 1 .. Len(seqs[i])}]
<1>1. Places(seqs) = UNION {row[i] : i \in DOMAIN row}
  BY DEF Places
<1>2. ASSUME NEW i \in 1 .. Len(seqs) PROVE IsFiniteSet(row[i])
  <2> DEFINE f == [j \in 1 .. Len(seqs[i]) |-> <<i, j>>]
  <2>1. Len(seqs[i]) \in Nat
    OBVIOUS
  <2>2. IsFiniteSet(DOMAIN f)
    BY <2>1, FS_Interval
  <2>3. row[i] = {f[j] : j \in DOMAIN f}
    OBVIOUS
  <2> HIDE DEF f, row
  <2> QED
    BY <2>2, <2>3, ImageIsFinite
<1>3. IsFiniteSet(DOMAIN row)
  BY FS_Interval
<1>4. DOMAIN row = 1 .. Len(seqs)
  OBVIOUS
<1> HIDE DEF row
<1>5. IsFiniteSet({row[i] : i \in DOMAIN row})
  BY <1>3, ImageIsFinite
<1> QED
  BY <1>1, <1>2, <1>4, <1>5, FS_UNION

(* The places of a sequence of sequences, in order.                        *)
PlacesBefore(seqs) == [p \in Places(seqs) |-> {q \in Places(seqs) : PairBefore(q, p)}]

(* The places are ordered, those of an earlier sequence first.             *)
LEMMA PlacesOrder ==
  ASSUME NEW S, NEW seqs \in Seq(Seq(S))
  PROVE  /\ DOMAIN PlacesBefore(seqs) = Places(seqs)
         /\ IsFiniteSet(Places(seqs))
         /\ Orders(PlacesBefore(seqs))
         /\ \A p, q \in Places(seqs) : q \in PlacesBefore(seqs)[p] <=> PairBefore(q, p)
         /\ \A p \in Places(seqs) : seqs[p[1]][p[2]] \in S /\ p[1] \in 1 .. Len(seqs)
                                     /\ p[2] \in 1 .. Len(seqs[p[1]]) /\ p = <<p[1], p[2]>>
         /\ \A i \in 1 .. Len(seqs) : \A j \in 1 .. Len(seqs[i]) : <<i, j>> \in Places(seqs)
<1> DEFINE P == Places(seqs)
           before == PlacesBefore(seqs)
<1>1. \A p \in P : /\ p = <<p[1], p[2]>> /\ p[1] \in 1 .. Len(seqs) /\ p[1] \in Nat
                    /\ p[2] \in 1 .. Len(seqs[p[1]]) /\ p[2] \in Nat
                    /\ seqs[p[1]][p[2]] \in S
  BY DEF Places
<1>2. \A i \in 1 .. Len(seqs) : \A j \in 1 .. Len(seqs[i]) : <<i, j>> \in P
  BY DEF Places
<1>3. DOMAIN before = P
  BY DEF PlacesBefore
<1>4. \A p, q \in P : q \in before[p] <=> PairBefore(q, p)
  BY DEF PlacesBefore
<1>5. \A p \in P : before[p] \subseteq P
  BY DEF PlacesBefore
<1> HIDE DEF before, P
<1>6. \A p \in P : p[1] \in Nat /\ p[2] \in Nat
  BY <1>1
<1>7. \A p \in P : p \notin before[p]
  BY <1>4, <1>6 DEF PairBefore
<1>8. \A p, q, r \in P : r \in before[q] /\ q \in before[p] => r \in before[p]
  BY <1>4, <1>6 DEF PairBefore
<1>9. \A p, q \in P : p = q \/ p \in before[q] \/ q \in before[p]
  <2> TAKE p, q \in P
  <2>1. p[1] = q[1] /\ p[2] = q[2] => p = q
    BY <1>1
  <2> QED
    BY <1>4, <1>6, <2>1 DEF PairBefore
<1>10. Orders(before)
  BY <1>3, <1>5, <1>7, <1>8, <1>9 DEF Orders
<1> QED
  BY <1>1, <1>2, <1>3, <1>4, <1>10, PlacesAreFinite DEF before, P

(* The k-th of the whole is at place at[k].                                *)
JoinedAt(at, joined, seqs) ==
  /\ at = InOrder(PlacesBefore(seqs)) /\ at \in [1 .. Len(joined) -> Places(seqs)]
  /\ \A k \in 1 .. Len(joined) : joined[k] = seqs[at[k][1]][at[k][2]]
  /\ \A j, k \in 1 .. Len(joined) : PairBefore(at[j], at[k]) <=> j < k
  /\ \A p \in Places(seqs) : \E k \in 1 .. Len(joined) : at[k] = p

(* Joined has the members of all the sequences, those of an earlier one in *)
(* front.                                                                  *)
LEMMA JoinedIs ==
  ASSUME NEW S, NEW seqs \in Seq(Seq(S))
  PROVE  Joined(seqs) \in Seq(S) /\ \E at : JoinedAt(at, Joined(seqs), seqs)
<1> DEFINE P == Places(seqs)
           before == PlacesBefore(seqs)
           at == InOrder(before)
           n == Len(at)
           joined == [k \in 1 .. n |-> seqs[at[k][1]][at[k][2]]]
<1>1. /\ DOMAIN before = P /\ IsFiniteSet(P) /\ Orders(before)
      /\ \A p, q \in P : q \in before[p] <=> PairBefore(q, p)
      /\ \A p \in P : seqs[p[1]][p[2]] \in S
  BY PlacesOrder
<1> HIDE DEF before
<1>2. Sorts(at, before)
  BY <1>1, SortsIs
<1> HIDE DEF P
<1>3. at \in Seq(P)
  BY <1>1, <1>2 DEF Sorts
<1>4. n \in Nat /\ at \in [1 .. n -> P]
  BY <1>3
<1>5. /\ at \in Seq(P) /\ n \in Nat /\ at \in [1 .. n -> P]
      /\ \A p \in P : \E k \in 1 .. n : at[k] = p
      /\ \A j, k \in 1 .. n : at[j] \in before[at[k]] <=> j < k
  BY <1>1, <1>2, <1>3, <1>4 DEF Sorts
<1>6. Joined(seqs) = joined
  BY <1>5 DEF Joined, before, PlacesBefore
<1> HIDE DEF at, n
<1>7. joined \in Seq(S) /\ Len(joined) = n
  BY <1>1, <1>5
<1>8. \A k \in 1 .. n : joined[k] = seqs[at[k][1]][at[k][2]]
  OBVIOUS
<1> HIDE DEF joined
<1>9. \A j, k \in 1 .. n : PairBefore(at[j], at[k]) <=> j < k
  BY <1>1, <1>5
<1>10. JoinedAt(at, joined, seqs)
  BY <1>5, <1>7, <1>8, <1>9 DEF JoinedAt, P, at, before
<1> QED
  BY <1>6, <1>7, <1>10 DEF P, at, before

(* The parts of B are those of A without what is not wanted: place p of B  *)
(* is place f[p] of A.                                                     *)
PartAt(f, B, A, wanted) ==
  /\ f \in [Places(B) -> Places(A)]
  /\ \A p \in Places(B) : /\ B[p[1]][p[2]] = A[f[p][1]][f[p][2]]
                          /\ B[p[1]][p[2]] \in wanted
  /\ \A p, q \in Places(B) : PairBefore(p, q) => PairBefore(f[p], f[q])
  /\ \A p \in Places(A) : A[p[1]][p[2]] \in wanted => \E q \in Places(B) : f[q] = p

(* Leaving out of the parts what is not wanted leaves it out of the whole. *)
LEMMA JoinedPart ==
  ASSUME NEW S, NEW A \in Seq(Seq(S)), NEW B \in Seq(Seq(S)), NEW wanted,
         NEW f, PartAt(f, B, A, wanted)
  PROVE  Joined(B) = Keep(Joined(A), wanted)
<1> DEFINE P == Places(A)
           Q == Places(B)
           J == Joined(A)
           K == Keep(J, wanted)
           n == Len(J)
           m == Len(K)
<1>1. J \in Seq(S)
  BY JoinedIs
<1>2. PICK atA : JoinedAt(atA, J, A)
  BY JoinedIs
<1>3. /\ atA \in [1 .. n -> P]
      /\ \A k \in 1 .. n : J[k] = A[atA[k][1]][atA[k][2]]
      /\ \A j, k \in 1 .. n : PairBefore(atA[j], atA[k]) <=> j < k
      /\ \A p \in P : \E k \in 1 .. n : atA[k] = p
  BY <1>2 DEF JoinedAt
<1>4. K \in Seq(S) /\ \E at : KeptAt(at, K, J, wanted)
  BY <1>1, KeepIs
<1>5. PICK at : KeptAt(at, K, J, wanted)
  BY <1>4
<1>6. /\ at \in [1 .. m -> 1 .. n]
      /\ \A k \in 1 .. m : K[k] = J[at[k]] /\ J[at[k]] \in wanted
      /\ \A j, k \in 1 .. m : at[j] < at[k] <=> j < k
      /\ \A i \in 1 .. n : J[i] \in wanted => \E k \in 1 .. m : at[k] = i
  BY <1>5 DEF KeptAt
<1>7. m \in Nat /\ n \in Nat /\ K = [k \in 1 .. m |-> K[k]]
  BY <1>1, <1>4
<1>8. /\ \A p, q \in P : PairBefore(p, q) => ~PairBefore(q, p)
      /\ \A p \in P : ~PairBefore(p, p)
  <2>1. /\ Orders(PlacesBefore(A)) /\ DOMAIN PlacesBefore(A) = P
        /\ \A p, q \in P : q \in PlacesBefore(A)[p] <=> PairBefore(q, p)
    BY PlacesOrder
  <2> QED
    BY <2>1 DEF Orders
<1>9. /\ DOMAIN PlacesBefore(B) = Q /\ IsFiniteSet(Q) /\ Orders(PlacesBefore(B))
      /\ \A p, q \in Q : q \in PlacesBefore(B)[p] <=> PairBefore(q, p)
      /\ \A p, q \in Q : p = q \/ PairBefore(p, q) \/ PairBefore(q, p)
  <2>1. /\ DOMAIN PlacesBefore(B) = Q /\ IsFiniteSet(Q) /\ Orders(PlacesBefore(B))
        /\ \A p, q \in Q : q \in PlacesBefore(B)[p] <=> PairBefore(q, p)
    BY PlacesOrder
  <2> QED
    BY <2>1 DEF Orders
<1> DEFINE g == [k \in 1 .. m |-> CHOOSE q \in Q : f[q] = atA[at[k]]]
<1> HIDE DEF P, Q, J, K, m, n
<1>10. \A k \in 1 .. m : g[k] \in Q /\ f[g[k]] = atA[at[k]]
  <2> TAKE k \in 1 .. m
  <2>1. atA[at[k]] \in P /\ A[atA[at[k]][1]][atA[at[k]][2]] \in wanted
    BY <1>3, <1>6
  <2>2. \E q \in Q : f[q] = atA[at[k]]
    BY <2>1 DEF P, Q, PartAt
  <2> QED
    BY <2>2
<1>11. g \in [1 .. m -> Q]
  BY <1>10
<1> HIDE DEF g
<1>12. g \in Seq(Q) /\ Len(g) = m
  BY <1>7, <1>11, IsSeq
<1>13. \A p, q \in Q : f[p] = f[q] => p = q
  <2> TAKE p, q \in Q
  <2>1. PairBefore(p, q) => PairBefore(f[p], f[q])
    BY DEF Q, PartAt
  <2>2. PairBefore(q, p) => PairBefore(f[q], f[p])
    BY DEF Q, PartAt
  <2>3. f[p] \in P
    BY DEF P, Q, PartAt
  <2> QED
    BY <1>8, <1>9, <2>1, <2>2, <2>3
<1>14. \A q \in Q : \E k \in 1 .. m : g[k] = q
  <2> TAKE q \in Q
  <2>1. f[q] \in P /\ A[f[q][1]][f[q][2]] \in wanted
    BY DEF P, Q, PartAt
  <2>2. PICK i \in 1 .. n : atA[i] = f[q]
    BY <1>3, <2>1
  <2>3. PICK k \in 1 .. m : at[k] = i
    <3>1. J[i] \in wanted
      BY <1>3, <2>1, <2>2
    <3> QED
      BY <1>6, <3>1
  <2>4. g[k] \in Q /\ f[g[k]] = f[q]
    BY <1>10, <2>2, <2>3
  <2> QED
    BY <1>13, <2>4
<1>15. \A j, k \in 1 .. m : j < k => g[j] \in PlacesBefore(B)[g[k]]
  <2> TAKE j, k \in 1 .. m
  <2>1. at[j] \in 1 .. n /\ at[k] \in 1 .. n /\ (j < k => at[j] < at[k])
    BY <1>6
  <2>2. j < k => PairBefore(f[g[j]], f[g[k]])
    BY <1>3, <1>10, <2>1
  <2>3. PairBefore(g[k], g[j]) => PairBefore(f[g[k]], f[g[j]])
    BY <1>10 DEF Q, PartAt
  <2>4. f[g[j]] \in P /\ f[g[k]] \in P
    BY <1>10 DEF P, Q, PartAt
  <2> QED
    BY <1>8, <1>9, <1>10, <2>2, <2>3, <2>4
<1>16. Sorts(g, PlacesBefore(B))
  <2> DEFINE b == PlacesBefore(B)
  <2> HIDE DEF b
  <2>1. g \in Seq(DOMAIN b)
    BY <1>9, <1>12 DEF b
  <2>2. \A x \in DOMAIN b : \E k \in 1 .. Len(g) : g[k] = x
    BY <1>9, <1>12, <1>14 DEF b
  <2>3. \A j, k \in 1 .. Len(g) : j < k => g[j] \in b[g[k]]
    BY <1>12, <1>15 DEF b
  <2>4. Orders(b)
    BY <1>9 DEF b
  <2>5. Sorts(g, b)
    BY <2>1, <2>2, <2>3, <2>4, SortsForward
  <2> QED
    BY <2>5 DEF b
<1>17. g = InOrder(PlacesBefore(B))
  BY <1>9, <1>16, SortsIsOne
<1>18. Joined(B) = [k \in 1 .. m |-> B[g[k][1]][g[k][2]]]
  <2>1. DOMAIN g = 1 .. m
    BY <1>12
  <2> QED
    BY <1>17, <2>1 DEF Joined, PlacesBefore
<1>19. \A k \in 1 .. m : B[g[k][1]][g[k][2]] = K[k]
  <2> TAKE k \in 1 .. m
  <2>1. B[g[k][1]][g[k][2]] = A[f[g[k]][1]][f[g[k]][2]]
    BY <1>10 DEF Q, PartAt
  <2>2. f[g[k]] = atA[at[k]] /\ at[k] \in 1 .. n /\ K[k] = J[at[k]]
    BY <1>6, <1>10
  <2>3. J[at[k]] = A[atA[at[k]][1]][atA[at[k]][2]]
    BY <1>3, <2>2
  <2> QED
    BY <2>1, <2>2, <2>3
<1>20. Joined(B) = K
  BY <1>7, <1>18, <1>19
<1> QED
  BY <1>20 DEF K, J
-----------------------------------------------------------------------------
(* 1 .. m in ascending order.                                              *)
LEMMA AscendingInterval ==
  ASSUME NEW m \in Nat
  PROVE  Ascending(1 .. m) = [k \in 1 .. m |-> k]
<1> DEFINE before == [i \in 1 .. m |-> {j \in 1 .. m : j < i}]
           q == [k \in 1 .. m |-> k]
<1>1. DOMAIN before = 1 .. m /\ IsFiniteSet(1 .. m)
  BY FS_Interval
<1>2. \A i, j \in 1 .. m : j \in before[i] <=> j < i
  OBVIOUS
<1>3. Orders(before)
  <2>1. \A i \in 1 .. m : before[i] \subseteq 1 .. m
    OBVIOUS
  <2> HIDE DEF before
  <2>2. \A i \in 1 .. m : i \notin before[i] /\
          \A j \in before[i] : before[j] \subseteq before[i]
    BY <1>2, <2>1
  <2>3. \A i, j \in 1 .. m : i = j \/ i \in before[j] \/ j \in before[i]
    BY <1>2
  <2> QED
    BY <1>1, <2>1, <2>2, <2>3 DEF Orders
<1> HIDE DEF before
<1>4. q \in Seq(1 .. m) /\ Len(q) = m /\ \A k \in 1 .. m : q[k] = k
  BY IsSeq
<1> HIDE DEF q
<1>5. Sorts(q, before)
  BY <1>1, <1>2, <1>4 DEF Sorts
<1>6. q = InOrder(before)
  BY <1>1, <1>3, <1>5, SortsIsOne
<1> QED
  BY <1>6 DEF q, before, Ascending

(* To keep the first m of a sequence is to cut it after them.              *)
LEMMA KeepPrefix ==
  ASSUME NEW S, NEW s \in Seq(S), NEW m \in 0 .. Len(s), NEW wanted,
         \A i \in 1 .. Len(s) : s[i] \in wanted <=> i <= m
  PROVE  Keep(s, wanted) = SubSeq(s, 1, m)
<1>1. {i \in DOMAIN s : s[i] \in wanted} = 1 .. m
  OBVIOUS
<1>2. m \in Nat /\ m <= Len(s)
  OBVIOUS
<1>3. Keep(s, wanted) = [k \in 1 .. m |-> s[k]]
  BY <1>1, <1>2, AscendingInterval DEF Keep
<1>4. SubSeq(s, 1, m) = [k \in 1 .. m |-> s[k]]
  BY <1>2
<1> QED
  BY <1>3, <1>4

-----------------------------------------------------------------------------
Iterates(f, X, N, first, step) ==
  f \in [0 .. N -> X] /\ f[0] = first /\ \A n \in 1 .. N : f[n] = step[n][f[n - 1]]

(* What is defined step by step exists.                                    *)
LEMMA Iteration ==
  ASSUME NEW X, NEW N \in Nat, NEW first \in X, NEW step \in [1 .. N -> [X -> X]]
  PROVE  \E f : Iterates(f, X, N, first, step)
<1> DEFINE Runs(f, n) == /\ f \in [0 .. n -> X] /\ f[0] = first
                         /\ \A k \in 1 .. n : f[k] = step[k][f[k - 1]]
           T == {n \in Nat : n <= N => \E f : Runs(f, n)}
<1>1. 0 \in T
  <2>1. Runs([k \in 0 .. 0 |-> first], 0)
    OBVIOUS
  <2> QED
    BY <2>1
<1>2. ASSUME NEW n \in Nat, n \in T PROVE n + 1 \in T
  <2>1. SUFFICES ASSUME n + 1 <= N PROVE \E f : Runs(f, n + 1)
    OBVIOUS
  <2>2. PICK f : Runs(f, n)
    BY <1>2, <2>1
  <2> DEFINE g == [k \in 0 .. n + 1 |-> IF k = n + 1 THEN step[n + 1][f[n]] ELSE f[k]]
  <2>3. n + 1 \in 1 .. N /\ f[n] \in X
    BY <2>1, <2>2
  <2>4. step[n + 1][f[n]] \in X
    BY <2>3
  <2>5. g \in [0 .. n + 1 -> X] /\ g[0] = first
    BY <2>2, <2>4
  <2>6. ASSUME NEW k \in 1 .. n + 1 PROVE g[k] = step[k][g[k - 1]]
    <3>1. g[k - 1] = f[k - 1]
      OBVIOUS
    <3>2. CASE k = n + 1
      BY <3>1, <3>2
    <3>3. CASE k # n + 1
      <4>1. k \in 1 .. n
        BY <3>3
      <4>2. g[k] = f[k]
        BY <4>1
      <4> QED
        BY <2>2, <3>1, <4>1, <4>2
    <3> QED
      BY <3>2, <3>3
  <2>7. Runs(g, n + 1)
    BY <2>5, <2>6
  <2> QED
    BY <2>7
<1>3. N \in T
  <2> HIDE DEF T
  <2> QED
    BY <1>1, <1>2, NatSetInduction
<1>4. PICK f : Runs(f, N)
  BY <1>3
<1>5. Iterates(f, X, N, first, step)
  BY <1>4 DEF Iterates
<1> QED
  BY <1>5

-----------------------------------------------------------------------------
(* Sequences of anything.                                                  *)
IsSequence(s) == s \in Seq(Range(s))

(* A sequence of members of a set.                                         *)
LEMMA SequenceIs ==
  ASSUME NEW S, NEW s \in Seq(S)
  PROVE  /\ IsSequence(s) /\ Range(s) \subseteq S
         /\ Len(s) \in Nat /\ DOMAIN s = 1 .. Len(s) /\ s = [k \in 1 .. Len(s) |-> s[k]]
<1>1. Len(s) \in Nat /\ DOMAIN s = 1 .. Len(s) /\ s = [k \in 1 .. Len(s) |-> s[k]]
  OBVIOUS
<1>2. Range(s) \subseteq S
  BY DEF Range
<1>3. \A k \in 1 .. Len(s) : s[k] \in Range(s)
  BY <1>1 DEF Range
<1>4. s \in [1 .. Len(s) -> Range(s)]
  BY <1>1, <1>3
<1>5. IsSequence(s)
  BY <1>1, <1>4, IsSeq DEF IsSequence
<1> QED
  BY <1>1, <1>2, <1>5

(* What a sequence has.                                                    *)
LEMMA SequenceHas ==
  ASSUME NEW s, IsSequence(s)
  PROVE  /\ Len(s) \in Nat /\ DOMAIN s = 1 .. Len(s) /\ s = [k \in 1 .. Len(s) |-> s[k]]
         /\ \A x : x \in Range(s) <=> \E k \in 1 .. Len(s) : s[k] = x
         /\ s = <<>> <=> Len(s) = 0
<1>1. Len(s) \in Nat /\ DOMAIN s = 1 .. Len(s) /\ s = [k \in 1 .. Len(s) |-> s[k]]
  BY SequenceIs DEF IsSequence
<1>2. \A x : x \in Range(s) <=> \E k \in 1 .. Len(s) : s[k] = x
  BY <1>1 DEF Range
<1>3. s \in Seq(Range(s))
  BY DEF IsSequence
<1>4. s = <<>> <=> Len(s) = 0
  BY <1>3
<1> QED
  BY <1>1, <1>2, <1>4

(* A function on the first n numbers.                                      *)
LEMMA FunctionIsSequence ==
  ASSUME NEW n \in Nat, NEW s, DOMAIN s = 1 .. n, s = [k \in 1 .. n |-> s[k]]
  PROVE  /\ IsSequence(s) /\ Len(s) = n
<1>1. \A k \in 1 .. n : s[k] \in Range(s)
  BY DEF Range
<1>2. s \in [1 .. n -> Range(s)]
  BY <1>1
<1> QED
  BY <1>2, IsSeq DEF IsSequence

(* The empty sequence.                                                     *)
LEMMA EmptyIs == IsSequence(<<>>) /\ Len(<<>>) = 0 /\ Range(<<>>) = {}
<1>1. <<>> \in Seq({})
  OBVIOUS
<1>2. Range(<<>>) = {}
  BY DEF Range
<1> QED
  BY <1>1, <1>2 DEF IsSequence

(* One member more.                                                        *)
LEMMA AppendIs ==
  ASSUME NEW s, IsSequence(s), NEW x
  PROVE  /\ IsSequence(Append(s, x)) /\ Len(Append(s, x)) = Len(s) + 1
         /\ Append(s, x)[Len(s) + 1] = x
         /\ \A k \in 1 .. Len(s) : Append(s, x)[k] = s[k]
<1> DEFINE S == Range(s) \cup {x}
<1>1. s \in Seq(S) /\ x \in S
  <2>1. s \in Seq(Range(s))
    BY DEF IsSequence
  <2> QED
    BY <2>1
<1> HIDE DEF S
<1>2. /\ Append(s, x) \in Seq(S) /\ Len(Append(s, x)) = Len(s) + 1
      /\ Append(s, x)[Len(s) + 1] = x
  BY <1>1
<1>3. \A k \in 1 .. Len(s) : Append(s, x)[k] = s[k]
  BY <1>1
<1> QED
  BY <1>2, <1>3, SequenceIs

(* Another last member.                                                    *)
LEMMA LastReplaced ==
  ASSUME NEW s, IsSequence(s), s # <<>>, NEW x
  PROVE  /\ IsSequence(Append(Front(s), x)) /\ Len(Append(Front(s), x)) = Len(s)
         /\ Append(Front(s), x)[Len(s)] = x
         /\ \A k \in 1 .. Len(s) - 1 : Append(Front(s), x)[k] = s[k]
<1> DEFINE S == Range(s) \cup {x}
<1>1. s \in Seq(S) /\ x \in S /\ Len(s) # 0 /\ Len(s) \in Nat
  <2>1. s \in Seq(Range(s)) /\ Len(s) # 0
    BY SequenceHas DEF IsSequence
  <2> QED
    BY <2>1
<1> HIDE DEF S
<1> DEFINE f == Front(s)
<1>2. /\ f \in Seq(S) /\ Len(f) = Len(s) - 1
      /\ \A k \in 1 .. Len(s) - 1 : f[k] = s[k]
  <2>1. Len(s) - 1 \in Nat /\ f = [k \in 1 .. Len(s) - 1 |-> s[k]]
    BY <1>1 DEF Front
  <2>2. f \in [1 .. Len(s) - 1 -> S]
    BY <1>1, <2>1
  <2> HIDE DEF f
  <2>3. f \in Seq(S) /\ Len(f) = Len(s) - 1
    BY <2>1, <2>2, IsSeq
  <2> QED
    BY <2>1, <2>3
<1> HIDE DEF f
<1>3. IsSequence(f) /\ Len(f) + 1 = Len(s)
  BY <1>1, <1>2, SequenceIs
<1>4. /\ IsSequence(Append(f, x)) /\ Len(Append(f, x)) = Len(f) + 1
      /\ Append(f, x)[Len(f) + 1] = x
      /\ \A k \in 1 .. Len(f) : Append(f, x)[k] = f[k]
  BY <1>3, AppendIs
<1>5. \A k \in 1 .. Len(s) - 1 : Append(f, x)[k] = s[k]
  BY <1>2, <1>4
<1> QED
  BY <1>3, <1>4, <1>5 DEF f

(* Two sequences, one after the other.                                     *)
LEMMA ConcatIs ==
  ASSUME NEW s, IsSequence(s), NEW t, IsSequence(t)
  PROVE  /\ IsSequence(s \o t) /\ Len(s \o t) = Len(s) + Len(t)
         /\ \A k \in 1 .. Len(s) : (s \o t)[k] = s[k]
         /\ \A k \in 1 .. Len(t) : (s \o t)[Len(s) + k] = t[k]
         /\ Range(s \o t) = Range(s) \cup Range(t)
<1> DEFINE S == Range(s) \cup Range(t)
<1>1. s \in Seq(S) /\ t \in Seq(S)
  <2>1. s \in Seq(Range(s)) /\ t \in Seq(Range(t))
    BY DEF IsSequence
  <2> QED
    BY <2>1
<1> HIDE DEF S
<1>2. /\ s \o t \in Seq(S) /\ Len(s \o t) = Len(s) + Len(t) /\ Len(s) \in Nat /\ Len(t) \in Nat
      /\ \A k \in 1 .. Len(s) : (s \o t)[k] = s[k]
      /\ \A k \in 1 .. Len(t) : (s \o t)[Len(s) + k] = t[k]
  BY <1>1
<1>3. IsSequence(s \o t)
  BY <1>2, SequenceIs
<1>4. \A k \in 1 .. Len(s \o t) : k \in 1 .. Len(s) \/ \E j \in 1 .. Len(t) : k = Len(s) + j
  <2> TAKE k \in 1 .. Len(s \o t)
  <2>1. k \notin 1 .. Len(s) => k - Len(s) \in 1 .. Len(t) /\ k = Len(s) + (k - Len(s))
    BY <1>2
  <2> QED
    BY <2>1
<1>5. \A x : x \in Range(s \o t) <=> x \in Range(s) \/ x \in Range(t)
  <2>1. ASSUME NEW x \in Range(s \o t) PROVE x \in Range(s) \/ x \in Range(t)
    <3>1. PICK k \in 1 .. Len(s \o t) : (s \o t)[k] = x
      BY <1>3, SequenceHas
    <3> QED
      BY <1>2, <1>4, <3>1, SequenceHas
  <2>2. ASSUME NEW x \in Range(s) PROVE x \in Range(s \o t)
    <3>1. PICK k \in 1 .. Len(s) : s[k] = x
      BY SequenceHas
    <3>2. k \in 1 .. Len(s \o t)
      BY <1>2
    <3> QED
      BY <1>2, <1>3, <3>1, <3>2, SequenceHas
  <2>3. ASSUME NEW x \in Range(t) PROVE x \in Range(s \o t)
    <3>1. PICK k \in 1 .. Len(t) : t[k] = x
      BY SequenceHas
    <3>2. Len(s) + k \in 1 .. Len(s \o t)
      BY <1>2
    <3> QED
      BY <1>2, <1>3, <3>1, <3>2, SequenceHas
  <2> QED
    BY <2>1, <2>2, <2>3
<1> QED
  BY <1>2, <1>3, <1>5

(* The same of Joined.                                                     *)
LEMMA JoinedHas ==
  ASSUME NEW seqs, IsSequence(seqs), \A i \in 1 .. Len(seqs) : IsSequence(seqs[i])
  PROVE  /\ IsSequence(Joined(seqs))
         /\ \E at : JoinedAt(at, Joined(seqs), seqs)
         /\ \A x : x \in Range(Joined(seqs)) <=> \E i \in 1 .. Len(seqs) : x \in Range(seqs[i])
<1> DEFINE S == UNION {Range(seqs[i]) : i \in 1 .. Len(seqs)}
<1>1. /\ Len(seqs) \in Nat /\ DOMAIN seqs = 1 .. Len(seqs) /\ seqs = [k \in 1 .. Len(seqs) |-> seqs[k]]
  BY SequenceHas
<1>2. \A i \in 1 .. Len(seqs) : Range(seqs[i]) \subseteq S
  OBVIOUS
<1> HIDE DEF S
<1>3. ASSUME NEW i \in 1 .. Len(seqs) PROVE seqs[i] \in Seq(S)
  <2>1. seqs[i] \in Seq(Range(seqs[i])) /\ Range(seqs[i]) \subseteq S
    BY <1>2 DEF IsSequence
  <2> HIDE DEF S
  <2> QED
    BY <2>1
<1>4. seqs \in [1 .. Len(seqs) -> Seq(S)]
  BY <1>1, <1>3
<1>5. seqs \in Seq(Seq(S))
  BY <1>1, <1>4, IsSeq
<1>6. Joined(seqs) \in Seq(S) /\ \E at : JoinedAt(at, Joined(seqs), seqs)
  BY <1>5, JoinedIs
<1>7. IsSequence(Joined(seqs))
  BY <1>6, SequenceIs
<1>8. ASSUME NEW x \in Range(Joined(seqs)) PROVE \E i \in 1 .. Len(seqs) : x \in Range(seqs[i])
  <2>1. PICK k \in 1 .. Len(Joined(seqs)) : Joined(seqs)[k] = x
    BY <1>7, SequenceHas
  <2>2. PICK at : JoinedAt(at, Joined(seqs), seqs)
    BY <1>6
  <2>3. at[k] \in Places(seqs) /\ x = seqs[at[k][1]][at[k][2]]
    BY <2>1, <2>2 DEF JoinedAt
  <2>4. at[k][1] \in 1 .. Len(seqs) /\ at[k][2] \in 1 .. Len(seqs[at[k][1]])
    BY <1>5, <2>3, PlacesOrder
  <2> QED
    BY <2>3, <2>4, SequenceHas
<1>9. ASSUME NEW i \in 1 .. Len(seqs), NEW x \in Range(seqs[i]) PROVE x \in Range(Joined(seqs))
  <2>1. PICK j \in 1 .. Len(seqs[i]) : seqs[i][j] = x
    BY SequenceHas
  <2>2. <<i, j>> \in Places(seqs)
    BY <1>5, PlacesOrder
  <2>3. PICK at : JoinedAt(at, Joined(seqs), seqs)
    BY <1>6
  <2>4. PICK k \in 1 .. Len(Joined(seqs)) : at[k] = <<i, j>>
    BY <2>2, <2>3 DEF JoinedAt
  <2>5. Joined(seqs)[k] = x
    BY <2>1, <2>3, <2>4 DEF JoinedAt
  <2> QED
    BY <1>7, <2>5, SequenceHas
<1> QED
  BY <1>6, <1>7, <1>8, <1>9

(* What is there at the start and stays from step to step is there at the  *)
(* end.                                                                    *)
LEMMA Inductively ==
  ASSUME NEW N \in Nat, NEW X, 0 \in X, \A n \in 1 .. N : n - 1 \in X => n \in X
  PROVE  \A n \in 0 .. N : n \in X
<1> DEFINE S == {n \in Nat : n <= N => n \in X}
<1>1. 0 \in S
  OBVIOUS
<1>2. ASSUME NEW n \in Nat, n \in S PROVE n + 1 \in S
  <2>1. SUFFICES ASSUME n + 1 <= N PROVE n + 1 \in X
    OBVIOUS
  <2>2. n + 1 \in 1 .. N /\ (n + 1) - 1 = n /\ n <= N
    BY <2>1
  <2> QED
    BY <1>2, <2>2
<1> HIDE DEF S
<1>3. Nat \subseteq S
  BY <1>1, <1>2, NatSetInduction
<1> QED
  BY <1>3 DEF S
=============================================================================
