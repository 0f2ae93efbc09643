--------------------------- MODULE StorageProofs ---------------------------
(* What the sums over the daemon's disk are: the definition picks the items  *)
(* in an order of its own, and nothing depends on it.  The arguments that    *)
(* would go by induction take a smallest set for which the fact fails.       *)
EXTENDS Storage, FiniteSetTheorems, WellFoundedInduction, TLAPS

\* Of the numbers with a property one is smallest.
LEMMA SmallestNumber ==
    ASSUME NEW N \in SUBSET Nat, N # {}
    PROVE  \E n \in N : \A k \in N : n <= k
<1>1. PICK n \in N : \A k \in N : <<k, n>> \notin OpToRel(<, Nat)
  BY NatLessThanWellFounded, WFMin, Zenon
<1>2. \A k \in N : ~(k < n)
  BY <1>1 DEF OpToRel
<1> QED
  BY <1>2

\* Among finite sets one is smallest.
LEMMA SmallestSet ==
    ASSUME NEW F, F # {}, \A s \in F : IsFiniteSet(s)
    PROVE  \E m \in F : \A s \in F : Cardinality(m) <= Cardinality(s)
<1> DEFINE sizes == {Cardinality(s) : s \in F}
<1>1. sizes \in SUBSET Nat /\ sizes # {}
  BY FS_CardinalityType
<1> HIDE DEF sizes
<1>2. PICK n \in sizes : \A k \in sizes : n <= k
  BY <1>1, SmallestNumber
<1> QED
  BY <1>2 DEF sizes

-----------------------------------------------------------------------------
(* The recursion of MapThenSumSet. *)

Pick(s) == CHOOSE x \in s : TRUE
Peeled(w, f, s) == IF s = {} THEN 0 ELSE w[Pick(s)] + f[s \ {Pick(s)}]
Sums(w, S) == CHOOSE f : f = [s \in SUBSET S |-> Peeled(w, f, s)]
Total(w, S) == Sums(w, S)[S]

LEMMA SumOfIsTotal == \A w, S : SumOf(w, S) = Total(w, S)
  BY DEF SumOf, MapThenSumSet, MapThenFoldSet, Total, Sums, Peeled, Pick

LEMMA SumsAreTotals ==
    \A S : /\ Sum64(S) = Total(Size, S) % Word
           /\ Reclaimed(S) = Total(Freed, S) /\ Worth(S) = Total(Worths, S)
  BY SumOfIsTotal DEF Sum64, Reclaimed, Worth

LEMMA SmallerWithout ==
    ASSUME NEW s, IsFiniteSet(s), NEW x \in s
    PROVE  /\ IsFiniteSet(s \ {x}) /\ s \ {x} \subseteq s
           /\ Cardinality(s) \in Nat /\ Cardinality(s \ {x}) \in Nat
           /\ Cardinality(s \ {x}) < Cardinality(s)
<1>1. IsFiniteSet(s \ {x}) /\ Cardinality(s \ {x}) = Cardinality(s) - 1
  BY FS_RemoveElement
<1>2. Cardinality(s) \in Nat /\ Cardinality(s \ {x}) \in Nat
  BY <1>1, FS_CardinalityType
<1> QED
  BY <1>1, <1>2

LEMMA PickIsIn == \A s : s # {} => Pick(s) \in s
  BY DEF Pick

\* The recursion defines a function.
LEMMA SumsExist ==
    ASSUME NEW w, NEW S, IsFiniteSet(S)
    PROVE  Sums(w, S) = [s \in SUBSET S |-> Peeled(w, Sums(w, S), s)]
<1> DEFINE below(n) == {s \in SUBSET S : Cardinality(s) < n}
           sums(f, n) == f = [s \in below(n) |-> Peeled(w, f, s)]
<1>1. \A s \in SUBSET S : IsFiniteSet(s) /\ Cardinality(s) \in Nat
  BY FS_Subset, FS_CardinalityType
<1>2. \E f : sums(f, 0)
  <2>1. below(0) = {}
    BY <1>1
  <2>2. sums([s \in {} |-> 0], 0)
    BY <2>1
  <2> QED
    BY <2>2
<1>3. ASSUME NEW n \in Nat, NEW f, sums(f, n)
      PROVE  \E g : sums(g, n + 1)
  <2> DEFINE g == [s \in below(n + 1) |-> Peeled(w, f, s)]
  <2>1. ASSUME NEW s \in below(n + 1)
        PROVE  Peeled(w, g, s) = Peeled(w, f, s)
    <3>1. CASE s = {}
      BY <3>1 DEF Peeled
    <3>2. CASE s # {}
      <4> DEFINE t == s \ {Pick(s)}
      <4>1. t \in below(n)
        BY <1>1, <3>2, PickIsIn, SmallerWithout
      <4>2. t \in below(n + 1)
        BY <1>1, <4>1
      <4>3. g[t] = f[t]
        BY <1>3, <4>1, <4>2
      <4> QED
        BY <3>2, <4>3 DEF Peeled
    <3> QED
      BY <3>1, <3>2
  <2>2. sums(g, n + 1)
    BY <2>1
  <2> QED
    BY <2>2
<1> DEFINE good(n) == \E f : sums(f, n)
           wrong == {n \in Nat : ~good(n)}
<1>4. good(0) /\ \A n \in Nat : good(n) => good(n + 1)
  BY <1>2, <1>3
<1> HIDE DEF good
<1>5. wrong = {}
  <2> SUFFICES ASSUME wrong # {} PROVE FALSE
    OBVIOUS
  <2>1. PICK n \in wrong : \A k \in wrong : n <= k
    BY SmallestNumber
  <2>2. n # 0
    BY <1>4
  <2>3. n - 1 \in Nat /\ n - 1 \notin wrong
    BY <2>1, <2>2
  <2> QED
    BY <1>4, <2>3
<1>6. good(Cardinality(S) + 1)
  BY <1>1, <1>5
<1>7. PICK f : sums(f, Cardinality(S) + 1)
  BY <1>6 DEF good
<1>8. below(Cardinality(S) + 1) = SUBSET S
  <2>1. \A s \in SUBSET S : Cardinality(s) <= Cardinality(S)
    BY FS_Subset
  <2> QED
    BY <1>1, <2>1
<1>9. f = [s \in SUBSET S |-> Peeled(w, f, s)]
  BY <1>7, <1>8
<1> QED
  BY <1>9 DEF Sums

LEMMA TotalOfNone == ASSUME NEW w PROVE Total(w, {}) = 0
<1>1. Sums(w, {}) = [s \in SUBSET {} |-> Peeled(w, Sums(w, {}), s)]
  BY SumsExist, FS_EmptySet
<1> QED
  BY <1>1 DEF Total, Peeled

\* What is around a set makes no difference to its sum.
LEMMA SumsAgree ==
    ASSUME NEW w, NEW S, IsFiniteSet(S), NEW T \in SUBSET S
    PROVE  Sums(w, S)[T] = Total(w, T)
<1> DEFINE differs(s) == \E U \in SUBSET S : s \subseteq U /\ Sums(w, U)[s] # Total(w, s)
           wrong == {s \in SUBSET S : differs(s)}
<1>1. \A s \in SUBSET S : IsFiniteSet(s) /\ Cardinality(s) \in Nat
  BY FS_Subset, FS_CardinalityType
<1>2. ASSUME NEW U \in SUBSET S, NEW s \in SUBSET U
      PROVE  Sums(w, U)[s] = Peeled(w, Sums(w, U), s)
  <2>1. Sums(w, U) = [t \in SUBSET U |-> Peeled(w, Sums(w, U), t)]
    BY <1>1, SumsExist
  <2> DEFINE f == Sums(w, U)
  <2> HIDE DEF f
  <2>2. f = [t \in SUBSET U |-> Peeled(w, f, t)]
    BY <2>1 DEF f
  <2>3. f[s] = Peeled(w, f, s)
    BY <2>2
  <2> QED
    BY <2>3 DEF f
<1>3. wrong = {}
  <2> SUFFICES ASSUME wrong # {} PROVE FALSE
    OBVIOUS
  <2>1. PICK s \in wrong : \A t \in wrong : Cardinality(s) <= Cardinality(t)
    BY <1>1, SmallestSet
  <2>2. PICK U \in SUBSET S : s \subseteq U /\ Sums(w, U)[s] # Total(w, s)
    OBVIOUS
  <2>3. s # {}
    BY <1>2, <2>2 DEF Total, Peeled
  <2> DEFINE t == s \ {Pick(s)}
  <2>4. t \in SUBSET S /\ t \notin wrong
    BY <1>1, <2>1, <2>3, PickIsIn, SmallerWithout
  <2>5. Sums(w, U)[t] = Total(w, t) /\ Sums(w, s)[t] = Total(w, t)
    BY <2>2, <2>4
  <2>6. Sums(w, U)[s] = Sums(w, s)[s]
    BY <1>2, <2>2, <2>3, <2>5 DEF Peeled
  <2> QED
    BY <2>2, <2>6 DEF Total
<1> QED
  BY <1>3

\* The sum, one item at a time.
LEMMA TotalPicks ==
    ASSUME NEW w, NEW S, IsFiniteSet(S), S # {}
    PROVE  Total(w, S) = w[Pick(S)] + Total(w, S \ {Pick(S)})
<1>1. Total(w, S) = Peeled(w, Sums(w, S), S)
  <2> DEFINE f == Sums(w, S)
  <2>1. f = [t \in SUBSET S |-> Peeled(w, f, t)]
    BY SumsExist
  <2> HIDE DEF f
  <2>2. f[S] = Peeled(w, f, S)
    BY <2>1
  <2> QED
    BY <2>2 DEF f, Total
<1>2. Sums(w, S)[S \ {Pick(S)}] = Total(w, S \ {Pick(S)})
  BY SumsAgree
<1> QED
  BY <1>1, <1>2 DEF Peeled

\* A sum is where its items are, if that has 0 and is closed under addition.
LEMMA TotalIn ==
    ASSUME NEW w, NEW S, IsFiniteSet(S), NEW R, 0 \in R, \A a, b \in R : a + b \in R,
           \A i \in S : w[i] \in R
    PROVE  Total(w, S) \in R
<1> DEFINE wrong == {s \in SUBSET S : Total(w, s) \notin R}
<1>1. \A s \in SUBSET S : IsFiniteSet(s) /\ Cardinality(s) \in Nat
  BY FS_Subset, FS_CardinalityType
<1>2. wrong = {}
  <2> SUFFICES ASSUME wrong # {} PROVE FALSE
    OBVIOUS
  <2>1. PICK s \in wrong : \A t \in wrong : Cardinality(s) <= Cardinality(t)
    BY <1>1, SmallestSet
  <2>2. s # {}
    BY TotalOfNone
  <2>3. s \ {Pick(s)} \in SUBSET S /\ s \ {Pick(s)} \notin wrong
    BY <1>1, <2>1, <2>2, PickIsIn, SmallerWithout
  <2>4. w[Pick(s)] \in R
    BY <2>2, PickIsIn
  <2>5. Total(w, s) = w[Pick(s)] + Total(w, s \ {Pick(s)})
    BY <1>1, <2>2, TotalPicks
  <2> QED
    BY <2>3, <2>4, <2>5
<1> QED
  BY <1>2

\* A sum of integers is an integer, and one of naturals a natural.
LEMMA TotalType ==
    ASSUME NEW w, NEW S, IsFiniteSet(S), NEW R \in {Int, Nat}, \A i \in S : w[i] \in R
    PROVE  Total(w, S) \in R
<1>1. 0 \in R /\ \A a, b \in R : a + b \in R
  OBVIOUS
<1> QED
  BY <1>1, TotalIn

\* It does not matter which item is taken first.
LEMMA TotalTakes ==
    ASSUME NEW w, NEW S, IsFiniteSet(S), \A i \in S : w[i] \in Int, NEW x \in S
    PROVE  Total(w, S) = w[x] + Total(w, S \ {x})
<1> DEFINE differs(s) == \E y \in s : Total(w, s) # w[y] + Total(w, s \ {y})
           wrong == {s \in SUBSET S : differs(s)}
<1>1. \A s \in SUBSET S : IsFiniteSet(s) /\ Cardinality(s) \in Nat
  BY FS_Subset, FS_CardinalityType
<1>2. \A s \in SUBSET S : Total(w, s) \in Int
  BY <1>1, TotalType
<1>3. wrong = {}
  <2> SUFFICES ASSUME wrong # {} PROVE FALSE
    OBVIOUS
  <2>1. PICK s \in wrong : \A t \in wrong : Cardinality(s) <= Cardinality(t)
    BY <1>1, SmallestSet
  <2>2. PICK y \in s : Total(w, s) # w[y] + Total(w, s \ {y})
    OBVIOUS
  <2> DEFINE p == Pick(s)
  <2>3. p \in s /\ Total(w, s) = w[p] + Total(w, s \ {p})
    <3>1. IsFiniteSet(s) /\ s # {}
      BY <1>1, <2>2
    <3>2. p \in s
      BY <3>1, PickIsIn
    <3> QED
      BY <3>1, <3>2, TotalPicks
  <2> HIDE DEF p
  <2>4. p # y
    BY <2>2, <2>3
  <2>5. ASSUME NEW z \in s PROVE ~differs(s \ {z})
    <3>1. s \ {z} \in SUBSET S /\ ~(Cardinality(s) <= Cardinality(s \ {z}))
      BY <1>1, SmallerWithout
    <3> QED
      BY <2>1, <3>1
  <2>6. /\ Total(w, s \ {p}) = w[y] + Total(w, (s \ {p}) \ {y})
        /\ Total(w, s \ {y}) = w[p] + Total(w, (s \ {y}) \ {p})
    <3>1. y \in s \ {p} /\ p \in s \ {y}
      BY <2>3, <2>4
    <3>2. ~differs(s \ {p}) /\ ~differs(s \ {y})
      BY <2>3, <2>5
    <3> QED
      BY <3>1, <3>2
  <2>7. (s \ {p}) \ {y} = (s \ {y}) \ {p}
    OBVIOUS
  <2>8. w[y] \in Int /\ w[p] \in Int /\ Total(w, (s \ {y}) \ {p}) \in Int
    BY <1>2, <2>2, <2>3
  <2>9. Total(w, s) = w[y] + Total(w, s \ {y})
    <3> DEFINE c == Total(w, (s \ {y}) \ {p})
    <3>1. /\ Total(w, s) = w[p] + Total(w, s \ {p})
          /\ Total(w, s \ {p}) = w[y] + c /\ Total(w, s \ {y}) = w[p] + c
      BY <2>3, <2>6, <2>7
    <3>2. w[y] \in Int /\ w[p] \in Int /\ c \in Int
      BY <2>8
    <3> HIDE DEF c
    <3> QED
      BY <3>1, <3>2
  <2> QED
    BY <2>2, <2>9
<1> QED
  BY <1>3

\* The sum of two sets that have nothing in common.
LEMMA TotalOfBoth ==
    ASSUME NEW w, NEW A, IsFiniteSet(A), NEW B, IsFiniteSet(B), A \cap B = {},
           \A i \in A \cup B : w[i] \in Int
    PROVE  Total(w, A \cup B) = Total(w, A) + Total(w, B)
<1> DEFINE wrong == {s \in SUBSET B : Total(w, A \cup s) # Total(w, A) + Total(w, s)}
<1>1. \A s \in SUBSET B : IsFiniteSet(s) /\ Cardinality(s) \in Nat /\ IsFiniteSet(A \cup s)
  BY FS_Subset, FS_CardinalityType, FS_Union
<1>2. Total(w, A) \in Int /\ \A s \in SUBSET B : Total(w, s) \in Int
  BY <1>1, TotalType
<1>3. wrong = {}
  <2> SUFFICES ASSUME wrong # {} PROVE FALSE
    OBVIOUS
  <2>1. PICK s \in wrong : \A t \in wrong : Cardinality(s) <= Cardinality(t)
    BY <1>1, SmallestSet
  <2>2. s # {}
    <3>1. A \cup {} = A
      OBVIOUS
    <3>2. Total(w, A \cup {}) = Total(w, A) + Total(w, {})
      BY <1>2, <3>1, TotalOfNone
    <3> QED
      BY <3>2
  <2>3. PICK x : x \in s
    BY <2>2
  <2> DEFINE t == s \ {x}
  <2>4. t \in SUBSET B /\ t \notin wrong
    <3>1. t \in SUBSET B /\ ~(Cardinality(s) <= Cardinality(t))
      BY <1>1, <2>3, SmallerWithout
    <3> QED
      BY <2>1, <3>1
  <2>5. Total(w, A \cup t) = Total(w, A) + Total(w, t)
    BY <2>4
  <2>6. Total(w, s) = w[x] + Total(w, t)
    <3>1. IsFiniteSet(s) /\ \A i \in s : w[i] \in Int
      BY <1>1
    <3> QED
      BY <2>3, <3>1, TotalTakes
  <2>7. Total(w, A \cup s) = w[x] + Total(w, A \cup t)
    <3>1. (A \cup s) \ {x} = A \cup t
      BY <2>3
    <3>2. x \in A \cup s /\ A \cup s \subseteq A \cup B
      BY <2>3
    <3>3. IsFiniteSet(A \cup s) /\ \A i \in A \cup s : w[i] \in Int
      BY <1>1, <3>2
    <3>4. Total(w, A \cup s) = w[x] + Total(w, (A \cup s) \ {x})
      BY <3>2, <3>3, TotalTakes
    <3> QED
      BY <3>1, <3>4
  <2>8. w[x] \in Int /\ Total(w, t) \in Int
    BY <1>2, <2>3, <2>4
  <2> HIDE DEF t
  <2> QED
    BY <1>2, <2>5, <2>6, <2>7, <2>8
<1> QED
  BY <1>3

-----------------------------------------------------------------------------
(* The sums of Storage. *)

\* What is known of some weights is their sum, when one is added for each that
\* is not.
LEMMA UnknownWeights ==
    ASSUME NEW w, NEW v, NEW S, IsFiniteSet(S), \A i \in S : w[i] \in Int,
           \A i \in S : v[i] = IF w[i] = -1 THEN 0 ELSE w[i]
    PROVE  Total(v, S) = Total(w, S) + Cardinality({i \in S : w[i] = -1})
<1> DEFINE unknown(s) == {i \in s : w[i] = -1}
           wrong == {s \in SUBSET S : Total(v, s) # Total(w, s) + Cardinality(unknown(s))}
<1>1. \A i \in S : w[i] \in Int /\ v[i] \in Int
  OBVIOUS
<1>2. \A s \in SUBSET S : /\ IsFiniteSet(s) /\ Cardinality(s) \in Nat
                          /\ IsFiniteSet(unknown(s)) /\ Cardinality(unknown(s)) \in Nat
  BY FS_Subset, FS_CardinalityType
<1>3. ASSUME NEW s \in SUBSET S PROVE Total(w, s) \in Int /\ Total(v, s) \in Int
  <2>1. IsFiniteSet(s) /\ (\A i \in s : w[i] \in Int) /\ \A i \in s : v[i] \in Int
    BY <1>1, <1>2
  <2> QED
    BY <2>1, TotalType
<1>4. wrong = {}
  <2> SUFFICES ASSUME wrong # {} PROVE FALSE
    OBVIOUS
  <2>1. PICK s \in wrong : \A t \in wrong : Cardinality(s) <= Cardinality(t)
    BY <1>2, SmallestSet
  <2>2. s # {}
    <3>1. unknown({}) = {}
      OBVIOUS
    <3>2. Total(v, {}) = Total(w, {}) + Cardinality(unknown({}))
      BY <3>1, TotalOfNone, FS_EmptySet
    <3> QED
      BY <3>2
  <2>3. PICK x : x \in s
    BY <2>2
  <2> DEFINE t == s \ {x}
  <2>4. t \in SUBSET S /\ t \notin wrong
    <3>1. s \in SUBSET S /\ IsFiniteSet(s)
      BY <1>2
    <3>2. /\ Cardinality(s) \in Nat /\ Cardinality(t) \in Nat
          /\ Cardinality(t) < Cardinality(s)
      BY <2>3, <3>1, SmallerWithout
    <3>3. t \in SUBSET S
      BY <3>1
    <3> QED
      BY <2>1, <3>2, <3>3
  <2>5. Total(v, t) = Total(w, t) + Cardinality(unknown(t))
    BY <2>4
  <2>6. Total(w, s) = w[x] + Total(w, t) /\ Total(v, s) = v[x] + Total(v, t)
    <3>1. IsFiniteSet(s) /\ (\A i \in s : w[i] \in Int) /\ \A i \in s : v[i] \in Int
      BY <1>1, <1>2
    <3>2. Total(w, s) = w[x] + Total(w, s \ {x})
      BY <2>3, <3>1, TotalTakes
    <3>3. Total(v, s) = v[x] + Total(v, s \ {x})
      BY <2>3, <3>1, TotalTakes
    <3> QED
      BY <3>2, <3>3
  <2>7. Cardinality(unknown(s)) = Cardinality(unknown(t)) + v[x] - w[x]
    <3>1. v[x] = (IF w[x] = -1 THEN 0 ELSE w[x]) /\ w[x] \in Int
      BY <2>3
    <3>2. unknown(t) = unknown(s) \ {x}
      OBVIOUS
    <3>3. Cardinality(unknown(t)) = IF x \in unknown(s) THEN Cardinality(unknown(s)) - 1
                                    ELSE Cardinality(unknown(s))
      BY <1>2, <3>2, FS_RemoveElement
    <3>4. Cardinality(unknown(s)) \in Nat
      BY <1>2
    <3>5. CASE w[x] = -1
      BY <2>3, <3>1, <3>3, <3>4, <3>5
    <3>6. CASE w[x] # -1
      BY <2>3, <3>1, <3>3, <3>4, <3>6
    <3> QED
      BY <3>5, <3>6
  <2>8. /\ w[x] \in Int /\ v[x] \in Int
        /\ Total(w, t) \in Int /\ Cardinality(unknown(t)) \in Nat
    BY <1>1, <1>2, <1>3, <2>3, <2>4
  <2> HIDE DEF t, unknown
  <2>9. Total(v, s) = Total(w, s) + Cardinality(unknown(s))
    BY <2>5, <2>6, <2>7, <2>8
  <2> QED
    BY <2>9
<1> QED
  BY <1>4

\* The space that an item takes.
LEMMA BytesType ==
    ASSUME NEW S \in SUBSET Items
    PROVE  /\ IsFiniteSet(S)
           /\ \A i \in S : Bytes[i] \in Int /\ Freed[i] \in Nat
           /\ Total(Bytes, S) \in Int /\ Total(Freed, S) \in Nat
<1>1. IsFiniteSet(S)
  BY StorageAssumption, FS_Subset
<1>2. \A i \in S : Bytes[i] \in Int /\ Freed[i] \in Nat
  BY StorageAssumption, DaemonAssumption DEF Freed, Known
<1> QED
  BY <1>1, <1>2, TotalType

\* An image is worth what its layers take.
LEMMA ImageSize ==
    ASSUME NEW i \in Items, Kind[i] = "image"
    PROVE  /\ Layers(i) \in SUBSET Items
           /\ Size[i] \in Nat /\ Worths[i] = Size[i] /\ Size[i] = Reclaimed(Layers(i))
<1> DEFINE L == Layers(i)
<1>1. L \in SUBSET Items /\ \A l \in L : Kind[l] = "layer"
  BY DEF Layers, Of
<1>2. Size[i] = Total(Bytes, L)
  BY SumOfIsTotal DEF Size
<1> HIDE DEF L
<1>3. Total(Freed, L) = Total(Bytes, L) + Cardinality({l \in L : Bytes[l] = -1})
  <2>1. IsFiniteSet(L) /\ (\A l \in L : Bytes[l] \in Int)
    BY <1>1, BytesType
  <2>2. \A l \in L : Freed[l] = IF Bytes[l] = -1 THEN 0 ELSE Bytes[l]
    BY <1>1 DEF Freed, Known
  <2> QED
    BY <2>1, <2>2, UnknownWeights
<1>4. {l \in L : Bytes[l] = -1} = {}
  BY <1>1, DaemonAssumption
<1>5. Total(Bytes, L) \in Int /\ Total(Freed, L) \in Nat
  BY <1>1, BytesType
<1>6. Total(Freed, L) = Total(Bytes, L)
  BY <1>3, <1>4, <1>5, FS_EmptySet
<1>7. Worths[i] = IF Size[i] = -1 THEN 0 ELSE Size[i]
  BY DEF Worths, Known
<1> QED
  BY <1>1, <1>2, <1>5, <1>6, <1>7, SumsAreTotals DEF L

\* The sizes that the daemon gives.
LEMMA SizesType ==
    ASSUME NEW S \in SUBSET Items
    PROVE  /\ IsFiniteSet(S)
           /\ \A i \in S : /\ Size[i] \in Int /\ Worths[i] \in Nat
                           /\ Worths[i] = IF Size[i] = -1 THEN 0 ELSE Size[i]
                           /\ Size[i] = -1 <=> Bytes[i] = -1
                           /\ Kind[i] # "image" => Worths[i] = Freed[i]
           /\ Total(Size, S) \in Int /\ Total(Worths, S) \in Nat
<1>1. IsFiniteSet(S)
  BY StorageAssumption, FS_Subset
<1>2. ASSUME NEW i \in S
      PROVE  /\ Size[i] \in Int /\ Worths[i] \in Nat
             /\ Worths[i] = IF Size[i] = -1 THEN 0 ELSE Size[i]
             /\ Size[i] = -1 <=> Bytes[i] = -1
             /\ Kind[i] # "image" => Worths[i] = Freed[i]
  <2>1. Worths[i] = IF Size[i] = -1 THEN 0 ELSE Size[i]
    BY DEF Worths, Known
  <2>2. CASE Kind[i] = "image"
    <3>1. Bytes[i] = 0
      BY <2>2, DaemonAssumption
    <3> QED
      BY <2>1, <2>2, <3>1, ImageSize
  <2>3. CASE Kind[i] # "image"
    <3>1. Size[i] = Bytes[i]
      BY <2>3 DEF Size
    <3>2. Bytes[i] \in Int /\ Freed[i] \in Nat
      BY BytesType
    <3> QED
      BY <2>1, <2>3, <3>1, <3>2 DEF Freed, Known
  <2> QED
    BY <2>2, <2>3
<1>3. \A i \in S : Size[i] \in Int
  BY <1>2
<1>4. \A i \in S : Worths[i] \in Nat
  BY <1>2
<1> QED
  BY <1>1, <1>2, <1>3, <1>4, TotalType

\* What the daemon says it reclaimed is a number, and adds up; so does what
\* items are worth.
LEMMA ReclaimedType == \A S \in SUBSET Items : Reclaimed(S) \in Nat /\ Worth(S) \in Nat
  BY BytesType, SizesType, SumsAreTotals

LEMMA ReclaimedOfNone == Reclaimed({}) = 0 /\ Worth({}) = 0
  BY TotalOfNone, SumsAreTotals

LEMMA ReclaimedOfBoth ==
    ASSUME NEW A \in SUBSET Items, NEW B \in SUBSET Items, A \cap B = {}
    PROVE  /\ Reclaimed(A \cup B) = Reclaimed(A) + Reclaimed(B)
           /\ Worth(A \cup B) = Worth(A) + Worth(B)
<1>1. IsFiniteSet(A) /\ IsFiniteSet(B)
  BY BytesType
<1>2. A \cup B \in SUBSET Items
  OBVIOUS
<1>3. (\A i \in A \cup B : Freed[i] \in Nat) /\ \A i \in A \cup B : Worths[i] \in Nat
  BY <1>2, BytesType, SizesType
<1>4. (\A i \in A \cup B : Freed[i] \in Int) /\ \A i \in A \cup B : Worths[i] \in Int
  BY <1>3
<1>5. Total(Freed, A \cup B) = Total(Freed, A) + Total(Freed, B)
  BY <1>1, <1>4, TotalOfBoth
<1>6. Total(Worths, A \cup B) = Total(Worths, A) + Total(Worths, B)
  BY <1>1, <1>4, TotalOfBoth
<1> QED
  BY <1>5, <1>6, SumsAreTotals

\* More items take more.
LEMMA ReclaimedOfPart ==
    ASSUME NEW B \in SUBSET Items, NEW A \in SUBSET B
    PROVE  Reclaimed(A) <= Reclaimed(B)
<1> DEFINE C == B \ A
<1>1. A \in SUBSET Items /\ C \in SUBSET Items /\ A \cap C = {} /\ A \cup C = B
  OBVIOUS
<1> HIDE DEF C
<1>2. Reclaimed(B) = Reclaimed(A) + Reclaimed(C)
  <2>1. Reclaimed(A \cup C) = Reclaimed(A) + Reclaimed(C)
    BY <1>1, ReclaimedOfBoth
  <2> QED
    BY <1>1, <2>1
<1>3. Reclaimed(A) \in Nat /\ Reclaimed(C) \in Nat
  BY <1>1, ReclaimedType
<1> QED
  BY <1>2, <1>3

\* What takes no space.
LEMMA ReclaimedOfEmpty ==
    ASSUME NEW S \in SUBSET Items, \A i \in S : Kind[i] \in {"network", "image"}
    PROVE  Reclaimed(S) = 0
<1> DEFINE none == {0}
<1>1. 0 \in none /\ \A a, b \in none : a + b \in none
  OBVIOUS
<1>2. \A i \in S : Freed[i] \in none
  BY DaemonAssumption DEF Freed, Known
<1>3. IsFiniteSet(S)
  BY BytesType
<1>4. Total(Freed, S) \in none
  <2> HIDE DEF none
  <2> QED
    BY <1>1, <1>2, <1>3, TotalIn
<1> QED
  BY <1>4, SumsAreTotals

\* Where no image is, items are worth what they take.
LEMMA WorthOfOthers ==
    ASSUME NEW S \in SUBSET Items, \A i \in S : Kind[i] # "image"
    PROVE  Worth(S) = Reclaimed(S)
<1> DEFINE wrong == {s \in SUBSET S : Total(Worths, s) # Total(Freed, s)}
<1>1. \A s \in SUBSET S : IsFiniteSet(s) /\ Cardinality(s) \in Nat
  BY BytesType, FS_Subset, FS_CardinalityType
<1>2. (\A i \in S : Worths[i] = Freed[i]) /\ \A i \in S : Freed[i] \in Int
  BY BytesType, SizesType
<1>3. wrong = {}
  <2> SUFFICES ASSUME wrong # {} PROVE FALSE
    OBVIOUS
  <2>1. PICK s \in wrong : \A t \in wrong : Cardinality(s) <= Cardinality(t)
    BY <1>1, SmallestSet
  <2>2. s # {}
    BY TotalOfNone
  <2>3. Pick(s) \in s /\ s \ {Pick(s)} \in SUBSET S /\ s \ {Pick(s)} \notin wrong
    BY <1>1, <2>1, <2>2, PickIsIn, SmallerWithout
  <2>4. Total(Worths, s) = Worths[Pick(s)] + Total(Worths, s \ {Pick(s)})
    BY <1>1, <2>2, TotalPicks
  <2>5. Total(Freed, s) = Freed[Pick(s)] + Total(Freed, s \ {Pick(s)})
    BY <1>1, <2>2, TotalPicks
  <2> QED
    BY <1>2, <2>3, <2>4, <2>5
<1> QED
  BY <1>3, SumsAreTotals

\* Images do not have more in layers than they are worth.
LEMMA SharedLayers ==
    ASSUME NEW S \in SUBSET Items, \A i \in S : Kind[i] = "image"
    PROVE  Reclaimed(UNION {Layers(i) : i \in S}) <= Worth(S)
<1> DEFINE all(s) == UNION {Layers(i) : i \in s}
           wrong == {s \in SUBSET S : ~(Reclaimed(all(s)) <= Worth(s))}
<1>1. \A s \in SUBSET S : IsFiniteSet(s) /\ Cardinality(s) \in Nat
  BY BytesType, FS_Subset, FS_CardinalityType
<1>2. \A i \in S : Layers(i) \in SUBSET Items
  BY ImageSize
<1>3. \A s \in SUBSET S : all(s) \in SUBSET Items
  BY <1>2
<1>4. wrong = {}
  <2> SUFFICES ASSUME wrong # {} PROVE FALSE
    OBVIOUS
  <2>1. PICK s \in wrong : \A t \in wrong : Cardinality(s) <= Cardinality(t)
    BY <1>1, SmallestSet
  <2>2. s # {}
    <3>1. all({}) = {}
      OBVIOUS
    <3> QED
      BY <3>1, ReclaimedOfNone
  <2>3. PICK x : x \in s
    BY <2>2
  <2> DEFINE t == s \ {x}
             own == Layers(x) \ all(t)
  <2>4. t \in SUBSET S /\ t \notin wrong
    BY <1>1, <2>1, <2>3, SmallerWithout
  <2>5. Reclaimed(all(t)) <= Worth(t)
    BY <2>4
  <2>6. own \in SUBSET Items /\ all(t) \cap own = {} /\ all(s) = all(t) \cup own
    BY <1>2, <2>3
  <2>7. Worth(s) = Worths[x] + Worth(t)
    <3>1. IsFiniteSet(s) /\ \A i \in s : Worths[i] \in Int
      BY <1>1, SizesType
    <3>2. Total(Worths, s) = Worths[x] + Total(Worths, s \ {x})
      BY <2>3, <3>1, TotalTakes
    <3> QED
      BY <3>2, SumsAreTotals
  <2>8. Reclaimed(own) <= Worths[x] /\ Worths[x] \in Nat
    <3>1. x \in Items /\ Kind[x] = "image"
      BY <2>3
    <3>2. Worths[x] = Reclaimed(Layers(x)) /\ Worths[x] \in Nat /\ Layers(x) \in SUBSET Items
      BY <3>1, ImageSize
    <3>3. own \in SUBSET Layers(x)
      OBVIOUS
    <3> HIDE DEF own
    <3>4. Reclaimed(own) <= Reclaimed(Layers(x))
      BY <3>2, <3>3, ReclaimedOfPart
    <3> QED
      BY <3>2, <3>4
  <2>9. all(t) \in SUBSET Items /\ t \in SUBSET Items
    BY <1>3, <2>4
  <2> HIDE DEF t, own, all
  <2>10. Reclaimed(all(s)) = Reclaimed(all(t)) + Reclaimed(own)
    <3>1. Reclaimed(all(t) \cup own) = Reclaimed(all(t)) + Reclaimed(own)
      BY <2>6, <2>9, ReclaimedOfBoth
    <3> QED
      BY <2>6, <3>1
  <2>11. Reclaimed(all(t)) \in Nat /\ Reclaimed(own) \in Nat /\ Worth(t) \in Nat
    BY <2>6, <2>9, ReclaimedType
  <2>12. Reclaimed(all(s)) <= Worth(s)
    BY <2>5, <2>7, <2>8, <2>10, <2>11
  <2> QED
    BY <2>12
<1> QED
  BY <1>4

\* A prune of images frees no more than they are worth.
LEMMA FreedOfImages ==
    ASSUME NEW disk \in SUBSET Items, NEW images \in SUBSET Of("image", disk)
    PROVE  Reclaimed(Freeable(images, disk)) <= Worth(images)
<1> DEFINE all == UNION {Layers(i) : i \in images}
           some == Freeable(images, disk)
<1>1. images \in SUBSET Items /\ \A i \in images : Kind[i] = "image"
  BY DEF Of
<1>2. all \in SUBSET Items /\ some \in SUBSET all
  BY <1>1 DEF Freeable, Layers, Of
<1>3. Reclaimed(all) <= Worth(images)
  BY <1>1, SharedLayers
<1> HIDE DEF all, some
<1>4. Reclaimed(some) <= Reclaimed(all)
  BY <1>2, ReclaimedOfPart
<1>5. Reclaimed(some) \in Nat /\ Reclaimed(all) \in Nat /\ Worth(images) \in Nat
  BY <1>1, <1>2, ReclaimedType
<1> QED
  BY <1>3, <1>4, <1>5 DEF some

\* The sums that GetStorageInfo reports fit a word.
LEMMA StorageInfoType ==
    ASSUME NEW disk \in SUBSET Items
    PROVE  StorageInfo(disk) \in [volumes : 0..(Word - 1), total : 0..(Word - 1),
                                  reclaimable : 0..(Word - 1)]
<1>1. \A S \in SUBSET Items : Sum64(S) \in 0..(Word - 1)
  BY SizesType, SumsAreTotals, StorageAssumption
<1>2. /\ Of("volume", disk) \in SUBSET Items
      /\ Offered(disk) \in SUBSET Items /\ Listed(disk) \in SUBSET Items
  BY DEF Of, Offered, Listed
<1> QED
  BY <1>1, <1>2 DEF StorageInfo

\* What items are worth is their size, when one byte is added for each whose size
\* is unknown.
LEMMA UnknownSizes ==
    ASSUME NEW S \in SUBSET Items
    PROVE  Worth(S) = Total(Size, S) + Cardinality({i \in S : Bytes[i] = -1})
<1>1. IsFiniteSet(S) /\ (\A i \in S : Size[i] \in Int)
  BY SizesType
<1>2. \A i \in S : Worths[i] = IF Size[i] = -1 THEN 0 ELSE Size[i]
  BY SizesType
<1>3. {i \in S : Size[i] = -1} = {i \in S : Bytes[i] = -1}
  BY SizesType
<1>4. Total(Worths, S) = Total(Size, S) + Cardinality({i \in S : Size[i] = -1})
  BY <1>1, <1>2, UnknownWeights
<1> QED
  BY <1>3, <1>4, SumsAreTotals

\* What is offered is worth its size.
LEMMA OfferedSizes ==
    ASSUME NEW disk \in SUBSET Items
    PROVE  Worth(Offered(disk)) = Total(Size, Offered(disk))
<1> DEFINE S == Offered(disk)
<1>1. S \in SUBSET Items /\ {i \in S : Bytes[i] = -1} = {}
  BY DaemonAssumption DEF Offered, Of
<1> HIDE DEF S
<1>2. Worth(S) = Total(Size, S) + 0
  BY <1>1, UnknownSizes, FS_EmptySet
<1>3. Total(Size, S) \in Int
  BY <1>1, SizesType
<1> QED
  BY <1>2, <1>3 DEF S

\* Reducing before an addition makes no difference to its remainder.
LEMMA ReducedFirst ==
    ASSUME NEW a \in Int, NEW b \in Int, NEW n \in Nat \ {0}
    PROVE  ((a % n) + b) % n = (a + b) % n
<1> DEFINE r == a % n
           q == a \div n
           u == (r + b) % n
           v == (a + b) % n
           x == (r + b) \div n
           y == (a + b) \div n
<1>1. q \in Int /\ r \in 0..(n - 1) /\ a = n * q + r
  OBVIOUS
<1>2. x \in Int /\ u \in 0..(n - 1) /\ r + b = n * x + u
  BY <1>1
<1>3. y \in Int /\ v \in 0..(n - 1) /\ a + b = n * y + v
  OBVIOUS
<1> HIDE DEF q, r, u, v, x, y
<1>4. n * (x + q) + u = n * y + v
  BY <1>1, <1>2, <1>3
<1>5. x + q = y
  <2>1. n * (x + q - y) = v - u
    BY <1>1, <1>2, <1>3, <1>4
  <2>2. CASE x + q - y >= 1
    BY <1>1, <1>2, <1>3, <2>1, <2>2
  <2>3. CASE x + q - y <= -1
    BY <1>1, <1>2, <1>3, <2>1, <2>3
  <2> QED
    BY <1>1, <1>2, <1>3, <2>2, <2>3
<1>6. u = v
  BY <1>1, <1>2, <1>3, <1>4, <1>5
<1> QED
  BY <1>6 DEF u, v, r
=============================================================================
