--------------------------- MODULE Subsequences_proofs --------------------------
(***************************************************************************)
(* The members of a finite set of numbers can be counted from the least,   *)
(* and so the elements at some places of a sequence are what they should   *)
(* be; what Append, RemoveAt, \o and FlattenSeq keep; and that recursive    *)
(* functions exist and can be reasoned about by induction.                 *)
(***************************************************************************)
EXTENDS Subsequences, SequencesExt, SequenceTheorems, FiniteSetTheorems, TLAPS

\* A set of natural numbers that is not empty has a least member.  This stands for
\* induction in all that follows: the intervals 0 .. m are finite sets, among which
\* inclusion is well-founded.
LEMMA LeastMember ==
  ASSUME NEW T \in SUBSET Nat, T # {}
  PROVE  \E m \in T : \A k \in T : m <= k
<1> DEFINE intervals == {0 .. m : m \in T}
<1>1. intervals \subseteq FiniteSubsetsOf(Nat)
  <2>1. ASSUME NEW m \in Nat PROVE 0 .. m \in SUBSET Nat /\ IsFiniteSet(0 .. m)
    BY FS_Interval
  <2>2. QED
    BY <2>1 DEF FiniteSubsetsOf
<1>2. intervals # {}
  OBVIOUS
<1>3. \E x \in intervals : \A y \in intervals : <<y, x>> \notin StrictSubsetOrdering(Nat)
  BY <1>1, <1>2, WFMin, FS_StrictSubsetOrderingWellFounded
<1>4. PICK m \in T : \A y \in intervals : <<y, 0 .. m>> \notin StrictSubsetOrdering(Nat)
  BY <1>3
<1>5. ASSUME NEW k \in T, k < m PROVE FALSE
  <2>1. 0 .. k \in intervals
    OBVIOUS
  <2>2. 0 .. k \subseteq 0 .. m /\ 0 .. k # 0 .. m
    BY <1>5
  <2>3. <<0 .. k, 0 .. m>> \in (SUBSET Nat) \X (SUBSET Nat)
    OBVIOUS
  <2>4. <<0 .. k, 0 .. m>> \in StrictSubsetOrdering(Nat)
    BY <2>2, <2>3 DEF StrictSubsetOrdering
  <2>5. QED
    BY <1>4, <2>1, <2>4
<1>6. QED
  BY <1>5

\* Induction over the natural numbers, for a property given as a set.
LEMMA SetInduction ==
  ASSUME NEW T \in SUBSET Nat, 0 \in T, \A n \in Nat : n \in T => n + 1 \in T
  PROVE  T = Nat
<1> SUFFICES ASSUME Nat \ T # {} PROVE FALSE
  OBVIOUS
<1>1. PICK m \in Nat \ T : \A k \in Nat \ T : m <= k
  BY LeastMember
<1>2. m - 1 \in Nat /\ m - 1 \in T
  BY <1>1
<1>3. QED
  BY <1>1, <1>2

\* Induction over the subsets of a finite set, for a property given as a set of sets.
LEMMA SubsetInduction ==
  ASSUME NEW I, IsFiniteSet(I), NEW F, {} \in F,
         \A T \in SUBSET I, x \in I : T \in F => T \cup {x} \in F
  PROVE  I \in F
<1> DEFINE R == StrictSubsetOrdering(I)
           Bad == (SUBSET I) \ F
<1> SUFFICES ASSUME Bad # {} PROVE FALSE
  OBVIOUS
<1>1. Bad \subseteq FiniteSubsetsOf(I)
  BY FS_FiniteSubsetsOfFinite
<1>2. PICK T \in Bad : \A U \in Bad : <<U, T>> \notin R
  BY <1>1, WFMin, FS_StrictSubsetOrderingWellFounded
<1>3. PICK x \in T : TRUE
  BY <1>2
<1>4. T \ {x} \in SUBSET I /\ (T \ {x}) \cup {x} = T /\ x \in I
  BY <1>2, <1>3
<1>5. <<T \ {x}, T>> \in R
  BY <1>2, <1>3, <1>4 DEF StrictSubsetOrdering
<1>6. T \ {x} \in F
  BY <1>2, <1>4, <1>5
<1>7. QED
  BY <1>2, <1>4, <1>6

\* A finite set of natural numbers has a bound.
LEMMA FiniteBounded ==
  ASSUME NEW I \in SUBSET Nat, IsFiniteSet(I)
  PROVE  \E n \in Nat : \A i \in I : i < n
<1> DEFINE F == {T \in SUBSET I : \E n \in Nat : \A i \in T : i < n}
<1>1. {} \in F
  OBVIOUS
<1>2. ASSUME NEW T \in SUBSET I, NEW x \in I, T \in F PROVE T \cup {x} \in F
  <2>1. PICK n \in Nat : \A i \in T : i < n
    BY <1>2
  <2>2. PICK m \in Nat : m >= n /\ m > x
    <3>1. x \in Nat
      OBVIOUS
    <3>2. n + x + 1 \in Nat /\ n + x + 1 >= n /\ n + x + 1 > x
      BY <3>1
    <3>3. QED
      BY <3>2
  <2>3. ASSUME NEW i \in T \cup {x} PROVE i < m
    BY <2>1, <2>2, <2>3
  <2>4. QED
    BY <2>2, <2>3
<1>3. I \in F
  BY <1>1, <1>2, SubsetInduction
<1>4. QED
  BY <1>3

-------------------------------------------------------------------------------
\* How the count of the members below n grows.
LEMMA BelowStep ==
  ASSUME NEW I \in SUBSET Nat, IsFiniteSet(I), NEW n \in Nat
  PROVE  /\ Below(I, n) \in Nat
         /\ Below(I, n + 1) = Below(I, n) + (IF n \in I THEN 1 ELSE 0)
<1> DEFINE B(k) == {j \in I : j < k}
<1>0. \A j \in I : j \in Nat
  OBVIOUS
<1>1. IsFiniteSet(B(n)) /\ Cardinality(B(n)) \in Nat
  <2>1. B(n) \in SUBSET I
    OBVIOUS
  <2>2. QED
    BY <2>1, FS_Subset, FS_CardinalityType
<1>2. \A j \in I : j < n + 1 <=> j < n \/ j = n
  BY <1>0
<1>3. CASE n \in I
  <2>1. n \notin B(n)
    OBVIOUS
  <2>2. B(n + 1) = B(n) \cup {n}
    BY <1>2, <1>3, Zenon
  <2>3. QED
    BY <1>1, <1>3, <2>1, <2>2, FS_AddElement DEF Below
<1>4. CASE n \notin I
  <2>1. B(n + 1) = B(n)
    BY <1>2, <1>4
  <2>2. QED
    BY <1>1, <1>4, <2>1 DEF Below
<1>5. QED
  BY <1>3, <1>4

LEMMA BelowZero ==
  ASSUME NEW I \in SUBSET Nat
  PROVE  Below(I, 0) = 0
<1>1. \A j \in I : ~ j < 0
  OBVIOUS
<1>2. {j \in I : j < 0} = {}
  BY <1>1
<1>3. QED
  BY <1>2, FS_EmptySet DEF Below

\* The count grows from its argument's lesser values to its greater ones, and a member
\* is counted by all numbers that are greater.
LEMMA BelowMonotone ==
  ASSUME NEW I \in SUBSET Nat, IsFiniteSet(I), NEW i \in I, NEW n \in Nat, i < n
  PROVE  Below(I, i) < Below(I, n)
<1> DEFINE B(k) == {j \in I : j < k}
<1>0. i \in Nat /\ \A j \in I : j \in Nat
  OBVIOUS
<1>1. B(n) \in SUBSET I /\ B(i) \cup {i} \in SUBSET B(n) /\ i \notin B(i)
  <2>1. \A j \in I : j < i => j < n
    BY <1>0
  <2>2. ~ i < i
    BY <1>0
  <2>3. QED
    BY <2>1, <2>2, Zenon
<1>2. IsFiniteSet(B(n)) /\ IsFiniteSet(B(i))
  BY <1>1, FS_Subset
<1>3. Cardinality(B(i) \cup {i}) = Cardinality(B(i)) + 1
  BY <1>1, <1>2, FS_AddElement
<1>4. Cardinality(B(i) \cup {i}) <= Cardinality(B(n))
  BY <1>1, <1>2, FS_Subset
<1>5. Cardinality(B(i)) \in Nat /\ Cardinality(B(n)) \in Nat
  BY <1>2, FS_CardinalityType
<1>6. QED
  BY <1>3, <1>4, <1>5 DEF Below

\* The members can be counted: the k-th is one, and it has k - 1 below it.
LEMMA NthMember ==
  ASSUME NEW I \in SUBSET Nat, IsFiniteSet(I), NEW k \in 1 .. Cardinality(I)
  PROVE  Nth(I, k) \in I /\ Below(I, Nth(I, k)) = k - 1
<1> DEFINE T == {n \in Nat : Below(I, n) >= k}
<1>0. Cardinality(I) \in Nat /\ k \in Nat
  BY FS_CardinalityType
<1>1. T # {}
  <2>1. PICK n \in Nat : \A i \in I : i < n
    BY FiniteBounded
  <2>2. {j \in I : j < n} = I
    BY <2>1
  <2>3. Below(I, n) = Cardinality(I)
    BY <2>2 DEF Below
  <2>4. QED
    BY <1>0, <2>3
<1>2. PICK m \in T : \A n \in T : m <= n
  BY <1>1, LeastMember
<1>3. m # 0
  BY <1>2, BelowZero
<1>4. m - 1 \in Nat /\ ~ (Below(I, m - 1) >= k)
  BY <1>2, <1>3
<1>5. /\ Below(I, m - 1) \in Nat
      /\ Below(I, m) = Below(I, m - 1) + (IF m - 1 \in I THEN 1 ELSE 0)
  <2>1. (m - 1) + 1 = m
    BY <1>4
  <2>2. QED
    BY <1>4, <2>1, BelowStep
<1>6. m - 1 \in I /\ Below(I, m - 1) = k - 1
  BY <1>0, <1>2, <1>4, <1>5
<1>7. QED
  BY <1>6 DEF Nth

\* Different numbers count different members, in their order.
LEMMA NthIncreases ==
  ASSUME NEW I \in SUBSET Nat, IsFiniteSet(I),
         NEW k \in 1 .. Cardinality(I), NEW l \in 1 .. Cardinality(I), k < l
  PROVE  Nth(I, k) < Nth(I, l)
<1> DEFINE x == Nth(I, k)
           y == Nth(I, l)
<1>1. x \in I /\ y \in I /\ Below(I, x) = k - 1 /\ Below(I, y) = l - 1
  BY NthMember
<1>2. x \in Nat /\ y \in Nat
  BY <1>1
<1>3. CASE y < x
  <2>1. Below(I, y) < Below(I, x)
    BY <1>1, <1>2, <1>3, BelowMonotone
  <2>2. QED
    BY <1>1, <2>1, FS_CardinalityType
<1>4. x # y
  BY <1>1, FS_CardinalityType
<1>5. QED
  BY <1>2, <1>3, <1>4

\* Every member is counted.
LEMMA MemberNth ==
  ASSUME NEW I \in SUBSET Nat, IsFiniteSet(I), NEW i \in I
  PROVE  \E k \in 1 .. Cardinality(I) : Nth(I, k) = i
<1> DEFINE k == Below(I, i) + 1
           B  == {j \in I : j < i}
<1>0. i \in Nat /\ Cardinality(I) \in Nat
  BY FS_CardinalityType
<1>1. B \in SUBSET I /\ i \notin B /\ IsFiniteSet(B) /\ B \cup {i} \in SUBSET I
  BY <1>0, FS_Subset
<1>2. Cardinality(B) \in Nat /\ Cardinality(B) + 1 <= Cardinality(I)
  BY <1>1, FS_Subset, FS_AddElement, FS_CardinalityType
<1>3. k \in 1 .. Cardinality(I)
  BY <1>0, <1>2 DEF Below
<1>4. Nth(I, k) \in I /\ Below(I, Nth(I, k)) = k - 1
  BY <1>3, NthMember
<1>5. Nth(I, k) \in Nat
  BY <1>4
<1>6. Nth(I, k) < i => Below(I, Nth(I, k)) < Below(I, i)
  BY <1>0, <1>4, BelowMonotone
<1>7. i < Nth(I, k) => Below(I, i) < Below(I, Nth(I, k))
  BY <1>5, BelowMonotone
<1>8. Below(I, i) \in Nat
  BY <1>2 DEF Below
<1>9. Nth(I, k) = i
  BY <1>0, <1>4, <1>5, <1>6, <1>7, <1>8
<1>10. QED
  BY <1>3, <1>9

\* The first member is the least.
LEMMA FirstIsLeast ==
  ASSUME NEW I \in SUBSET Nat, IsFiniteSet(I), I # {}
  PROVE  Nth(I, 1) \in I /\ \A j \in I : Nth(I, 1) <= j
<1>1. 1 \in 1 .. Cardinality(I) /\ Cardinality(I) \in Nat
  <2>1. Cardinality(I) \in Nat /\ Cardinality(I) # 0
    BY FS_CardinalityType, FS_EmptySet
  <2>2. QED
    BY <2>1
<1>2. Nth(I, 1) \in I
  BY <1>1, NthMember
<1>3. ASSUME NEW j \in I PROVE Nth(I, 1) <= j
  <2>1. PICK k \in 1 .. Cardinality(I) : Nth(I, k) = j
    BY MemberNth
  <2>2. CASE k = 1
    <3>1. Nth(I, 1) \in Nat /\ Nth(I, 1) = j
      BY <1>2, <2>1, <2>2
    <3>2. QED
      BY <3>1
  <2>3. CASE k # 1
    <3>1. 1 < k
      BY <1>1, <2>3
    <3>2. Nth(I, 1) < j
      BY <1>1, <2>1, <3>1, NthIncreases
    <3>3. Nth(I, 1) \in Nat /\ j \in Nat
      BY <1>2
    <3>4. QED
      BY <3>2, <3>3
  <2>4. QED
    BY <2>2, <2>3
<1>4. QED
  BY <1>2, <1>3

-------------------------------------------------------------------------------
\* What ElementsAt returns: a sequence of the elements at these places and of no others.
LEMMA ElementsAtProperties ==
  ASSUME NEW S, NEW s \in Seq(S), NEW I \in SUBSET DOMAIN s
  PROVE  /\ IsFiniteSet(I)
         /\ Cardinality(I) \in Nat
         /\ ElementsAt(s, I) \in Seq(S)
         /\ Len(ElementsAt(s, I)) = Cardinality(I)
         /\ \A k \in 1 .. Cardinality(I) :
              Nth(I, k) \in I /\ ElementsAt(s, I)[k] = s[Nth(I, k)]
         /\ \A i \in I : \E k \in 1 .. Cardinality(I) : ElementsAt(s, I)[k] = s[i]
<1>1. IsFiniteSet(DOMAIN s) /\ DOMAIN s = 1 .. Len(s) /\ Len(s) \in Nat
  BY FS_Interval
<1>2. IsFiniteSet(I) /\ I \in SUBSET Nat
  BY <1>1, FS_Subset
<1>3. Cardinality(I) \in Nat
  BY <1>2, FS_CardinalityType
<1>4. \A k \in 1 .. Cardinality(I) : Nth(I, k) \in I
  BY <1>2, NthMember
<1>5. \A k \in 1 .. Cardinality(I) : s[Nth(I, k)] \in S
  BY <1>4
<1>6. \A i \in I : \E k \in 1 .. Cardinality(I) : Nth(I, k) = i
  BY <1>2, MemberNth
<1>7. QED
  BY <1>2, <1>3, <1>4, <1>5, <1>6 DEF ElementsAt

\* The members of an initial segment are counted as those of the whole set.
LEMMA NthSegment ==
  ASSUME NEW I \in SUBSET Nat, IsFiniteSet(I), NEW J \in SUBSET I,
         \A i \in I \ J, j \in J : j < i
  PROVE  /\ Cardinality(J) <= Cardinality(I)
         /\ \A k \in 1 .. Cardinality(J) : k \in 1 .. Cardinality(I) /\ Nth(I, k) = Nth(J, k)
<1>1. /\ IsFiniteSet(J) /\ J \in SUBSET Nat
      /\ Cardinality(J) <= Cardinality(I) /\ Cardinality(J) \in Nat /\ Cardinality(I) \in Nat
  BY FS_Subset, FS_CardinalityType
<1>2. ASSUME NEW k \in 1 .. Cardinality(J)
      PROVE  k \in 1 .. Cardinality(I) /\ Nth(I, k) = Nth(J, k)
  <2> DEFINE x == Nth(J, k)
             y == Nth(I, k)
  <2>1. k \in 1 .. Cardinality(I)
    BY <1>1
  <2>2. x \in J /\ Below(J, x) = k - 1 /\ y \in I /\ Below(I, y) = k - 1
    BY <1>1, <2>1, NthMember
  <2>3. x \in Nat /\ y \in Nat /\ x \in I
    BY <1>1, <2>2
  <2>4. \A i \in I : i < x => i \in J
    <3>1. \A i \in I : i \in Nat
      OBVIOUS
    <3>2. QED
      BY <2>2, <2>3, <3>1
  <2>5. {i \in I : i < x} = {i \in J : i < x}
    BY <2>4
  <2>6. Below(I, x) = k - 1
    BY <2>2, <2>5 DEF Below
  <2>7. ~ x < y /\ ~ y < x
    <3> HIDE DEF x, y
    <3>1. x < y => Below(I, x) < Below(I, y)
      BY <2>3, BelowMonotone
    <3>2. y < x => Below(I, y) < Below(I, x)
      BY <2>2, <2>3, BelowMonotone
    <3>3. k - 1 \in Int /\ ~ k - 1 < k - 1
      BY <1>1
    <3>4. QED
      BY <2>2, <2>6, <3>1, <3>2, <3>3
  <2>8. QED
    BY <2>1, <2>3, <2>7
<1>3. QED
  BY <1>1, <1>2

\* A place after all others adds its element at the end.
LEMMA ElementsAtAppend ==
  ASSUME NEW S, NEW s \in Seq(S), NEW I \in SUBSET DOMAIN s, NEW m \in DOMAIN s,
         \A i \in I : i < m
  PROVE  ElementsAt(s, I \cup {m}) = Append(ElementsAt(s, I), s[m])
<1> DEFINE J == I \cup {m}
           n == Cardinality(I)
<1>1. /\ J \in SUBSET DOMAIN s /\ DOMAIN s \in SUBSET Nat /\ m \in Nat /\ m \notin I
      /\ IsFiniteSet(I) /\ IsFiniteSet(J) /\ n \in Nat
  <2>1. J \in SUBSET DOMAIN s /\ DOMAIN s \in SUBSET Nat /\ m \in Nat
    OBVIOUS
  <2>2. m \notin I
    BY <2>1
  <2>3. QED
    BY <2>1, <2>2, ElementsAtProperties
<1>2. Cardinality(J) = n + 1
  BY <1>1, FS_AddElement
<1>3. \A k \in 1 .. n : k \in 1 .. Cardinality(J) /\ Nth(J, k) = Nth(I, k) /\ Nth(I, k) \in I
  <2>1. I \in SUBSET J /\ J \in SUBSET Nat /\ \A i \in J \ I, j \in I : j < i
    BY <1>1
  <2>2. I \in SUBSET Nat
    BY <1>1
  <2>3. \A k \in 1 .. n : Nth(I, k) \in I
    BY <1>1, <2>2, NthMember
  <2>4. \A k \in 1 .. n : k \in 1 .. Cardinality(J) /\ Nth(J, k) = Nth(I, k)
    <3> HIDE DEF J
    <3>1. QED
      BY <1>1, <2>1, NthSegment
  <2>5. QED
    BY <2>3, <2>4
<1>4. Nth(J, n + 1) = m
  <2>1. PICK k \in 1 .. Cardinality(J) : Nth(J, k) = m
    <3>1. J \in SUBSET Nat /\ m \in J
      BY <1>1
    <3>2. QED
      BY <1>1, <3>1, MemberNth
  <2>2. k \notin 1 .. n
    BY <1>1, <1>3, <2>1
  <2>3. k = n + 1
    BY <1>1, <1>2, <2>1, <2>2
  <2>4. QED
    BY <2>1, <2>3
<1> DEFINE u == ElementsAt(s, J)
           t == ElementsAt(s, I)
<1>5. /\ u \in Seq(S) /\ Len(u) = n + 1 /\ t \in Seq(S) /\ Len(t) = n
      /\ \A k \in 1 .. n + 1 : u[k] = s[Nth(J, k)]
      /\ \A k \in 1 .. n : t[k] = s[Nth(I, k)]
  <2> HIDE DEF J
  <2>1. QED
    BY <1>1, <1>2, ElementsAtProperties
<1> HIDE DEF J, u, t, n
<1>6. /\ Append(t, s[m]) \in Seq(S) /\ Len(Append(t, s[m])) = n + 1
      /\ \A k \in 1 .. n : Append(t, s[m])[k] = t[k]
      /\ Append(t, s[m])[n + 1] = s[m]
  BY <1>1, <1>5
<1>7. \A k \in 1 .. n + 1 : u[k] = Append(t, s[m])[k]
  <2>1. \A k \in 1 .. n + 1 : k \in 1 .. n \/ k = n + 1
    BY <1>1
  <2>2. n + 1 \in 1 .. n + 1
    BY <1>1
  <2>3. QED
    BY <1>3, <1>4, <1>5, <1>6, <2>1, <2>2
<1>8. u = Append(t, s[m])
  BY <1>5, <1>6, <1>7, SeqEqual
<1>9. QED
  BY <1>8 DEF J, t, u

\* The elements at the places of an initial segment come first.
LEMMA ElementsAtPrefix ==
  ASSUME NEW S, NEW s \in Seq(S), NEW I \in SUBSET DOMAIN s, NEW J \in SUBSET I,
         \A i \in I \ J, j \in J : j < i
  PROVE  IsPrefix(ElementsAt(s, J), ElementsAt(s, I))
<1> DEFINE u == ElementsAt(s, J)
           v == ElementsAt(s, I)
<1>1. /\ IsFiniteSet(I) /\ I \in SUBSET Nat /\ J \in SUBSET DOMAIN s
      /\ u \in Seq(S) /\ v \in Seq(S) /\ Len(u) = Cardinality(J) /\ Len(v) = Cardinality(I)
  <2>1. I \in SUBSET Nat /\ J \in SUBSET DOMAIN s
    OBVIOUS
  <2>2. QED
    BY <2>1, ElementsAtProperties
<1>2. /\ Cardinality(J) <= Cardinality(I)
      /\ \A k \in 1 .. Cardinality(J) : k \in 1 .. Cardinality(I) /\ Nth(I, k) = Nth(J, k)
  BY <1>1, NthSegment
<1>3. \A k \in 1 .. Len(u) : k \in 1 .. Len(v) /\ u[k] = v[k]
  BY <1>1, <1>2 DEF ElementsAt
<1> HIDE DEF u, v
<1>4. Len(u) \in Nat /\ Len(v) \in Nat /\ Len(u) <= Len(v)
  BY <1>1, <1>2
<1>5. SubSeq(u, 1, Len(u)) = [k \in 1 .. Len(u) |-> u[k]]
  BY <1>1, <1>4
<1>6. SubSeq(v, 1, Len(u)) = [k \in 1 .. Len(u) |-> v[k]]
  BY <1>1, <1>4
<1>7. QED
  BY <1>3, <1>4, <1>5, <1>6 DEF IsPrefix, u, v

(***************************************************************************)
(* Sequences without repetition, and the sets of their elements.           *)
(***************************************************************************)
LEMMA EmptyHolds == ToSet(<<>>) = {} /\ IsInjective(<<>>)
BY DEF ToSet, IsInjective

LEMMA AppendHolds ==
  ASSUME NEW S, NEW s \in Seq(S), NEW x \in S
  PROVE  /\ ToSet(Append(s, x)) = ToSet(s) \cup {x}
         /\ IsInjective(s) /\ x \notin ToSet(s) => IsInjective(Append(s, x))
<1> DEFINE t == Append(s, x)
<1>1. /\ DOMAIN s = 1 .. Len(s) /\ DOMAIN t = 1 .. Len(s) + 1 /\ Len(s) \in Nat
      /\ t[Len(s) + 1] = x
      /\ \A i \in DOMAIN s : t[i] = s[i]
  OBVIOUS
<1> HIDE DEF t
<1>2. \A i \in DOMAIN t : i \in DOMAIN s \/ i = Len(s) + 1
  BY <1>1
<1>3. \A i \in DOMAIN s : i \in DOMAIN t
  BY <1>1
<1>4. ToSet(t) = ToSet(s) \cup {x}
  BY <1>1, <1>2, <1>3 DEF ToSet
<1>5. IsInjective(s) /\ x \notin ToSet(s) => IsInjective(t)
  BY <1>1, <1>2 DEF ToSet, IsInjective
<1>6. QED
  BY <1>4, <1>5 DEF t

LEMMA ConcatHolds ==
  ASSUME NEW S, NEW s \in Seq(S), NEW t \in Seq(S)
  PROVE  /\ ToSet(s \o t) = ToSet(s) \cup ToSet(t)
         /\ IsInjective(s) /\ IsInjective(t) /\ ToSet(s) \cap ToSet(t) = {}
              => IsInjective(s \o t)
<1> DEFINE u == s \o t
<1>1. /\ DOMAIN s = 1 .. Len(s) /\ DOMAIN t = 1 .. Len(t) /\ DOMAIN u = 1 .. Len(s) + Len(t)
      /\ Len(s) \in Nat /\ Len(t) \in Nat
      /\ \A i \in DOMAIN s : u[i] = s[i]
      /\ \A i \in DOMAIN t : u[Len(s) + i] = t[i]
  OBVIOUS
<1> HIDE DEF u
<1>2. \A i \in DOMAIN u : i \in DOMAIN s \/ (i - Len(s) \in DOMAIN t /\ i = Len(s) + (i - Len(s)))
  BY <1>1
<1>3. (\A i \in DOMAIN s : i \in DOMAIN u) /\ (\A i \in DOMAIN t : Len(s) + i \in DOMAIN u)
  BY <1>1
<1>4. ToSet(u) \subseteq ToSet(s) \cup ToSet(t)
  BY <1>1, <1>2 DEF ToSet
<1>5. ToSet(s) \cup ToSet(t) \subseteq ToSet(u)
  BY <1>1, <1>3 DEF ToSet
<1>6. ASSUME IsInjective(s), IsInjective(t), ToSet(s) \cap ToSet(t) = {},
             NEW i \in DOMAIN u, NEW j \in DOMAIN u, u[i] = u[j]
      PROVE  i = j
  <2>1. \A k \in DOMAIN s, l \in DOMAIN t : s[k] # t[l]
    BY <1>6 DEF ToSet
  <2>2. CASE i \in DOMAIN s /\ j \in DOMAIN s
    BY <1>1, <1>6, <2>2 DEF IsInjective
  <2>3. CASE i \notin DOMAIN s /\ j \notin DOMAIN s
    <3>1. t[i - Len(s)] = t[j - Len(s)] /\ i - Len(s) \in DOMAIN t /\ j - Len(s) \in DOMAIN t
      BY <1>1, <1>2, <1>6, <2>3
    <3>2. i - Len(s) = j - Len(s)
      BY <1>6, <3>1 DEF IsInjective
    <3>3. QED
      BY <1>1, <3>2
  <2>4. CASE (i \in DOMAIN s) # (j \in DOMAIN s)
    BY <1>1, <1>2, <1>6, <2>1, <2>4
  <2>5. QED
    BY <2>2, <2>3, <2>4
<1>7. QED
  BY <1>4, <1>5, <1>6 DEF u, IsInjective

\* Where the elements are when one is removed.
LEMMA RemovePlaces ==
  ASSUME NEW S, NEW s \in Seq(S), NEW i \in DOMAIN s
  PROVE  /\ RemoveAt(s, i) \in Seq(S) /\ DOMAIN RemoveAt(s, i) = 1 .. Len(s) - 1
         /\ \A j \in DOMAIN RemoveAt(s, i) :
              RemoveAt(s, i)[j] = s[IF j < i THEN j ELSE j + 1]
<1> DEFINE u == RemoveAt(s, i)
           Old(j) == IF j < i THEN j ELSE j + 1
<1> DEFINE before == SubSeq(s, 1, i - 1)
           after  == SubSeq(s, i + 1, Len(s))
<1>1. /\ DOMAIN s = 1 .. Len(s) /\ Len(s) \in Nat /\ i \in 1 .. Len(s)
      /\ \A j \in 1 .. Len(s) : s[j] \in S
  BY ElementOfSeq
<1>2. /\ before \in Seq(S) /\ Len(before) = i - 1
      /\ \A j \in 1 .. i - 1 : before[j] = s[j]
  <2>1. \A j \in 1 .. i - 1 : s[j] \in S
    BY <1>1
  <2>2. i - 1 \in Nat /\ 1 \in Int /\ i - 1 \in Int
    BY <1>1
  <2>3. /\ before \in Seq(S) /\ Len(before) = IF 1 <= i - 1 THEN i - 1 - 1 + 1 ELSE 0
        /\ \A j \in 1 .. i - 1 - 1 + 1 : before[j] = s[1 + j - 1]
    BY <2>1, <2>2, SubSeqProperties
  <2>4. Len(before) = i - 1
    BY <2>2, <2>3
  <2>5. ASSUME NEW j \in 1 .. i - 1 PROVE before[j] = s[j]
    <3>1. j \in 1 .. i - 1 - 1 + 1 /\ 1 + j - 1 = j
      BY <2>2
    <3>2. QED
      BY <2>3, <3>1
  <2>6. QED
    BY <2>3, <2>4, <2>5
<1>3. /\ after \in Seq(S) /\ Len(after) = Len(s) - i
      /\ \A j \in 1 .. Len(s) - i : after[j] = s[i + j]
  <2>1. \A j \in i + 1 .. Len(s) : s[j] \in S
    BY <1>1
  <2>2. /\ after \in Seq(S) /\ Len(after) = IF i + 1 <= Len(s) THEN Len(s) - (i + 1) + 1 ELSE 0
        /\ \A j \in 1 .. Len(s) - (i + 1) + 1 : after[j] = s[i + 1 + j - 1]
    BY <1>1, <2>1, SubSeqProperties
  <2>3. Len(after) = Len(s) - i
    BY <1>1, <2>2
  <2>4. ASSUME NEW j \in 1 .. Len(s) - i PROVE after[j] = s[i + j]
    <3>1. j \in 1 .. Len(s) - (i + 1) + 1 /\ i + 1 + j - 1 = i + j
      BY <1>1
    <3>2. QED
      BY <2>2, <3>1
  <2>5. QED
    BY <2>2, <2>3, <2>4
<1> HIDE DEF before, after, u
<1>4. /\ before \o after \in Seq(S)
      /\ Len(before \o after) = (i - 1) + (Len(s) - i)
      /\ \A j \in 1 .. (i - 1) + (Len(s) - i) :
           (before \o after)[j] = IF j <= i - 1 THEN before[j] ELSE after[j - (i - 1)]
  <2>1. before \in Seq(S) /\ after \in Seq(S)
    BY <1>2, <1>3
  <2>2. /\ before \o after \in Seq(S)
        /\ Len(before \o after) = Len(before) + Len(after)
        /\ \A j \in 1 .. Len(before) + Len(after) : (before \o after)[j] =
             IF j <= Len(before) THEN before[j] ELSE after[j - Len(before)]
    BY <2>1, ConcatProperties
  <2>3. QED
    BY <1>2, <1>3, <2>2
<1>5. u = before \o after
  BY DEF RemoveAt, before, after, u
<1>6. /\ u \in Seq(S) /\ DOMAIN u = 1 .. Len(s) - 1
      /\ \A j \in 1 .. Len(s) - 1 : u[j] = IF j <= i - 1 THEN before[j] ELSE after[j - (i - 1)]
  <2>1. (i - 1) + (Len(s) - i) = Len(s) - 1
    BY <1>1
  <2>2. /\ u \in Seq(S) /\ Len(u) = Len(s) - 1
        /\ \A j \in 1 .. Len(s) - 1 : u[j] = IF j <= i - 1 THEN before[j] ELSE after[j - (i - 1)]
    BY <1>4, <1>5, <2>1, Zenon
  <2>3. QED
    BY <2>2, LenProperties
<1> HIDE DEF Old
<1>7. ASSUME NEW j \in DOMAIN u PROVE u[j] = s[Old(j)]
  <2>1. CASE j <= i - 1
    <3>1. j \in 1 .. Len(s) - 1 /\ j \in 1 .. i - 1 /\ Old(j) = j
      BY <1>1, <1>6, <2>1 DEF Old
    <3>2. QED
      BY <1>2, <1>6, <2>1, <3>1, Zenon
  <2>2. CASE ~ (j <= i - 1)
    <3>1. /\ j \in 1 .. Len(s) - 1 /\ j - (i - 1) \in 1 .. Len(s) - i
          /\ Old(j) = i + (j - (i - 1))
      BY <1>1, <1>6, <2>2 DEF Old
    <3>2. QED
      BY <1>3, <1>6, <2>2, <3>1, Zenon
  <2>3. QED
    BY <2>1, <2>2
<1>8. QED
  BY <1>6, <1>7 DEF u, Old

LEMMA RemoveHolds ==
  ASSUME NEW S, NEW s \in Seq(S), NEW i \in DOMAIN s
  PROVE  /\ RemoveAt(s, i) \in Seq(S)
         /\ ToSet(RemoveAt(s, i)) \subseteq ToSet(s)
         /\ IsInjective(s) => /\ IsInjective(RemoveAt(s, i))
                              /\ s[i] \notin ToSet(RemoveAt(s, i))
         /\ \A x \in ToSet(s) : x # s[i] => x \in ToSet(RemoveAt(s, i))
<1> DEFINE u == RemoveAt(s, i)
           Old(j) == IF j < i THEN j ELSE j + 1
<1>1. /\ DOMAIN s = 1 .. Len(s) /\ Len(s) \in Nat /\ i \in 1 .. Len(s)
      /\ u \in Seq(S) /\ DOMAIN u = 1 .. Len(s) - 1
      /\ \A j \in DOMAIN u : u[j] = s[Old(j)]
  <2>1. DOMAIN s = 1 .. Len(s) /\ Len(s) \in Nat
    BY ElementOfSeq
  <2>2. QED
    BY <2>1, RemovePlaces
<1> HIDE DEF u
<1>2. \A j \in DOMAIN u : Old(j) \in DOMAIN s /\ Old(j) # i
  BY <1>1
<1>3. \A j, k \in DOMAIN u : Old(j) = Old(k) => j = k
  BY <1>1
<1>4. \A j \in DOMAIN s : j # i => \E k \in DOMAIN u : Old(k) = j
  <2>1. SUFFICES ASSUME NEW j \in DOMAIN s, j # i PROVE \E k \in DOMAIN u : Old(k) = j
    OBVIOUS
  <2>2. CASE j < i
    <3>1. j \in DOMAIN u /\ Old(j) = j
      BY <1>1, <2>2
    <3>2. QED
      BY <3>1
  <2>3. CASE j > i
    <3>1. j - 1 \in DOMAIN u /\ Old(j - 1) = j
      BY <1>1, <2>3
    <3>2. QED
      BY <3>1
  <2>4. QED
    BY <1>1, <2>1, <2>2, <2>3
<1> HIDE DEF Old
<1>5. ToSet(u) \subseteq ToSet(s)
  BY <1>1, <1>2 DEF ToSet
<1>6. IsInjective(s) => IsInjective(u) /\ s[i] \notin ToSet(u)
  BY <1>1, <1>2, <1>3 DEF ToSet, IsInjective
<1>7. \A x \in ToSet(s) : x # s[i] => x \in ToSet(u)
  <2>1. SUFFICES ASSUME NEW j \in DOMAIN s, s[j] # s[i] PROVE s[j] \in ToSet(u)
    BY DEF ToSet
  <2>2. PICK k \in DOMAIN u : Old(k) = j
    BY <1>4, <2>1
  <2>3. QED
    BY <1>1, <2>2 DEF ToSet
<1>8. QED
  BY <1>1, <1>5, <1>6, <1>7 DEF u

LEMMA HeadHolds ==
  ASSUME NEW S, NEW s \in Seq(S), s # <<>>
  PROVE  /\ Head(s) \in ToSet(s) /\ ToSet(Tail(s)) \subseteq ToSet(s)
         /\ IsInjective(s) => Head(s) \notin ToSet(Tail(s))
<1>1. /\ DOMAIN s = 1 .. Len(s) /\ Len(s) \in Nat \ {0} /\ Head(s) = s[1] /\ 1 \in DOMAIN s
      /\ DOMAIN Tail(s) = 1 .. Len(s) - 1
      /\ \A i \in DOMAIN Tail(s) : Tail(s)[i] = s[i + 1] /\ i + 1 \in DOMAIN s /\ i + 1 # 1
  OBVIOUS
<1>2. QED
  BY <1>1 DEF ToSet, IsInjective

LEMMA FrontHolds ==
  ASSUME NEW S, NEW s \in Seq(S), s # <<>>
  PROVE  /\ Front(s) \in Seq(S) /\ Len(Front(s)) = Len(s) - 1
         /\ \A i \in 1 .. Len(s) - 1 : Front(s)[i] = s[i]
<1>1. Len(s) \in Nat \ {0} /\ \A i \in 1 .. Len(s) : s[i] \in S
  BY ElementOfSeq, EmptySeq
<1>2. 1 \in Int /\ Len(s) - 1 \in Nat /\ \A i \in 1 .. Len(s) - 1 : s[i] \in S
  BY <1>1
<1>3. /\ Front(s) \in Seq(S)
      /\ Len(Front(s)) = IF 1 <= Len(s) - 1 THEN Len(s) - 1 - 1 + 1 ELSE 0
      /\ \A i \in 1 .. Len(s) - 1 - 1 + 1 : Front(s)[i] = s[1 + i - 1]
  BY <1>2, SubSeqProperties DEF Front
<1>4. Len(Front(s)) = Len(s) - 1
  <2> DEFINE n == Len(s)
             m == Len(Front(s))
  <2>1. n \in Nat \ {0} /\ m = IF 1 <= n - 1 THEN n - 1 - 1 + 1 ELSE 0
    BY <1>1, <1>3
  <2> HIDE DEF n, m
  <2>2. m = n - 1
    BY <2>1
  <2>3. QED
    BY <2>2 DEF n, m
<1>5. ASSUME NEW i \in 1 .. Len(s) - 1 PROVE Front(s)[i] = s[i]
  <2>1. i \in 1 .. Len(s) - 1 - 1 + 1 /\ 1 + i - 1 = i
    BY <1>2
  <2>2. QED
    BY <1>3, <2>1
<1>6. QED
  BY <1>3, <1>4, <1>5

LEMMA RemoveShifts ==
  ASSUME NEW S, NEW s \in Seq(S), NEW i \in DOMAIN s
  PROVE  /\ \A j \in DOMAIN RemoveAt(s, i) : \E k \in DOMAIN s : RemoveAt(s, i)[j] = s[k]
         /\ \A k \in DOMAIN s : k > i =>
              k - 1 \in DOMAIN RemoveAt(s, i) /\ RemoveAt(s, i)[k - 1] = s[k]
<1> DEFINE u == RemoveAt(s, i)
<1>1. /\ DOMAIN u = 1 .. Len(s) - 1
      /\ \A j \in DOMAIN u : u[j] = s[IF j < i THEN j ELSE j + 1]
      /\ DOMAIN s = 1 .. Len(s) /\ Len(s) \in Nat
  BY RemovePlaces, ElementOfSeq
<1> HIDE DEF u
<1>2. ASSUME NEW j \in DOMAIN u PROVE \E k \in DOMAIN s : u[j] = s[k]
  <2>1. (IF j < i THEN j ELSE j + 1) \in DOMAIN s
    BY <1>1
  <2>2. QED
    BY <1>1, <2>1
<1>3. ASSUME NEW k \in DOMAIN s, k > i PROVE k - 1 \in DOMAIN u /\ u[k - 1] = s[k]
  <2>1. k - 1 \in DOMAIN u /\ ~ (k - 1 < i) /\ (k - 1) + 1 = k
    BY <1>1, <1>3
  <2>2. QED
    BY <1>1, <2>1
<1>4. QED
  BY <1>2, <1>3 DEF u

(***************************************************************************)
(* Recursive functions: one exists when every step stays in a set, and     *)
(* what holds at 0 and is kept by a step holds at every place.             *)
(***************************************************************************)
Recurs(f, N, a, F) == f[0] = a /\ \A n \in 1 .. N : f[n] = F[<<f[n - 1], n>>]

LEMMA RecursionExists ==
  ASSUME NEW N \in Nat, NEW V, NEW a \in V, NEW F \in [V \X (1 .. N) -> V]
  PROVE  \E f \in [0 .. N -> V] : Recurs(f, N, a, F)
<1> DEFINE T == {m \in Nat : m <= N => \E f \in [0 .. m -> V] : Recurs(f, m, a, F)}
<1>1. 0 \in T
  <2> DEFINE f == [n \in 0 .. 0 |-> a]
  <2>1. f \in [0 .. 0 -> V] /\ f[0] = a
    OBVIOUS
  <2>2. \A n \in 1 .. 0 : f[n] = F[<<f[n - 1], n>>]
    OBVIOUS
  <2> HIDE DEF f
  <2>3. QED
    BY <2>1, <2>2 DEF Recurs
<1>2. \A m \in Nat : m \in T => m + 1 \in T
  <2> SUFFICES ASSUME NEW m \in Nat, m \in T, m + 1 <= N
               PROVE  \E f \in [0 .. m + 1 -> V] : Recurs(f, m + 1, a, F)
    OBVIOUS
  <2>1. PICK g \in [0 .. m -> V] : Recurs(g, m, a, F)
    <3>1. m <= N
      OBVIOUS
    <3>2. QED
      BY <3>1
  <2> DEFINE f == [n \in 0 .. m + 1 |-> IF n = m + 1 THEN F[<<g[m], m + 1>>] ELSE g[n]]
  <2>2. F[<<g[m], m + 1>>] \in V
    <3>1. g[m] \in V /\ m + 1 \in 1 .. N
      OBVIOUS
    <3>2. <<g[m], m + 1>> \in V \X (1 .. N)
      BY <3>1
    <3>3. QED
      BY <3>2
  <2>3. \A n \in 0 .. m : g[n] \in V /\ f[n] = g[n]
    OBVIOUS
  <2>4. f[m + 1] = F[<<g[m], m + 1>>] /\ f \in [0 .. m + 1 -> V]
    BY <2>2
  <2> HIDE DEF f
  <2>5. f[0] = a
    BY <2>1, <2>3 DEF Recurs
  <2>6. ASSUME NEW n \in 1 .. m + 1
        PROVE  f[n] = F[<<f[n - 1], n>>]
    <3>1. CASE n = m + 1
      <4>1. f[n - 1] = g[m]
        BY <2>3, <3>1
      <4>2. QED
        BY <2>4, <3>1, <4>1
    <3>2. CASE n \in 1 .. m
      <4>1. f[n - 1] = g[n - 1] /\ f[n] = g[n]
        BY <2>3, <3>2
      <4>2. QED
        BY <2>1, <3>2, <4>1 DEF Recurs
    <3>3. QED
      BY <3>1, <3>2
  <2>7. QED
    BY <2>4, <2>5, <2>6 DEF Recurs
<1>3. T = Nat
  <2>1. T \in SUBSET Nat
    OBVIOUS
  <2> HIDE DEF T
  <2>2. QED
    BY <1>1, <1>2, <2>1, SetInduction
<1>4. N \in T
  BY <1>3
<1>5. QED
  BY <1>4

\* Induction up to a bound.
LEMMA BoundedInduction ==
  ASSUME NEW N \in Nat, NEW T, 0 \in T,
         \A n \in 1 .. N : n - 1 \in T => n \in T
  PROVE  \A n \in 0 .. N : n \in T
<1> DEFINE S == {n \in Nat : n <= N => n \in T}
<1>1. S \in SUBSET Nat /\ 0 \in S
  OBVIOUS
<1>2. ASSUME NEW n \in Nat, n \in S
      PROVE  n + 1 \in S
  <2> SUFFICES ASSUME n + 1 <= N
               PROVE  n + 1 \in T
    OBVIOUS
  <2>1. n + 1 \in 1 .. N /\ (n + 1) - 1 = n /\ n \in T
    BY <1>2
  <2>2. QED
    BY <2>1
<1>3. S = Nat
  <2> HIDE DEF S
  <2>1. QED
    BY <1>1, <1>2, SetInduction
<1>4. QED
  BY <1>3

\* The same for functions that start at 1.
RecursFromOne(f, N, a, F) == f[1] = a /\ \A n \in 2 .. N : f[n] = F[<<f[n - 1], n>>]

LEMMA RecursionFromOne ==
  ASSUME NEW N \in Nat \ {0}, NEW V, NEW a \in V, NEW F \in [V \X (2 .. N) -> V]
  PROVE  \E f \in [1 .. N -> V] : RecursFromOne(f, N, a, F)
<1> DEFINE G == [x \in V \X (1 .. N - 1) |-> F[<<x[1], x[2] + 1>>]]
<1>1. N - 1 \in Nat
  OBVIOUS
<1>2. ASSUME NEW v \in V, NEW n \in 1 .. N - 1
      PROVE  /\ <<v, n>> \in V \X (1 .. N - 1) /\ <<v, n + 1>> \in V \X (2 .. N)
             /\ G[<<v, n>>] = F[<<v, n + 1>>] /\ F[<<v, n + 1>>] \in V
  <2>1. <<v, n>> \in V \X (1 .. N - 1) /\ <<v, n + 1>> \in V \X (2 .. N)
    OBVIOUS
  <2>2. G[<<v, n>>] = F[<<v, n + 1>>]
    BY <2>1
  <2>3. QED
    BY <2>1, <2>2
<1>3. G \in [V \X (1 .. N - 1) -> V]
  <2>1. ASSUME NEW x \in V \X (1 .. N - 1)
        PROVE  F[<<x[1], x[2] + 1>>] \in V
    <3>1. x[1] \in V /\ x[2] \in 1 .. N - 1
      OBVIOUS
    <3> HIDE DEF G
    <3>2. QED
      BY <1>2, <3>1
  <2>2. QED
    BY <2>1
<1> HIDE DEF G
<1>4. PICK g \in [0 .. N - 1 -> V] : Recurs(g, N - 1, a, G)
  BY <1>1, <1>3, RecursionExists
<1> DEFINE f == [n \in 1 .. N |-> g[n - 1]]
<1>5. \A n \in 1 .. N : n - 1 \in 0 .. N - 1 /\ g[n - 1] \in V /\ f[n] = g[n - 1]
  <2>1. \A n \in 1 .. N : n - 1 \in 0 .. N - 1
    OBVIOUS
  <2>2. QED
    BY <2>1
<1>6. f \in [1 .. N -> V]
  BY <1>5
<1> HIDE DEF f
<1>7. f[1] = a
  <2>1. 1 \in 1 .. N /\ 1 - 1 = 0
    OBVIOUS
  <2>2. QED
    BY <1>4, <1>5, <2>1 DEF Recurs
<1>8. ASSUME NEW n \in 2 .. N
      PROVE  f[n] = F[<<f[n - 1], n>>]
  <2>1. PICK m \in 1 .. N - 1 : n = m + 1 /\ m = n - 1
    <3>1. n - 1 \in 1 .. N - 1 /\ n = (n - 1) + 1
      OBVIOUS
    <3>2. QED
      BY <3>1
  <2>2. m \in 1 .. N /\ n \in 1 .. N /\ n - 1 = m
    BY <2>1
  <2>3. f[n] = g[m] /\ f[m] = g[m - 1] /\ g[m - 1] \in V
    BY <1>5, <2>2
  <2>4. g[m] = G[<<g[m - 1], m>>]
    BY <1>4 DEF Recurs
  <2>5. G[<<g[m - 1], m>>] = F[<<g[m - 1], m + 1>>]
    BY <1>2, <2>3
  <2>6. QED
    BY <2>1, <2>3, <2>4, <2>5
<1>9. QED
  BY <1>6, <1>7, <1>8 DEF RecursFromOne

(***************************************************************************)
(* FlattenSeq: the elements of all rows, and their order.                  *)
(***************************************************************************)
\* R relates each element of s to those after it.
OrderedBy(s, R) == \A k, l \in DOMAIN s : k < l => <<s[k], s[l]>> \in R

LEMMA ConcatOrdered ==
  ASSUME NEW S, NEW s \in Seq(S), NEW t \in Seq(S), NEW R,
         OrderedBy(s, R), OrderedBy(t, R), (ToSet(s) \X ToSet(t)) \subseteq R
  PROVE  OrderedBy(s \o t, R)
<1> DEFINE u == s \o t
<1>1. PICK m \in Nat, n \in Nat : m = Len(s) /\ n = Len(t)
  OBVIOUS
<1>2. /\ DOMAIN u = 1 .. m + n /\ DOMAIN s = 1 .. m /\ DOMAIN t = 1 .. n
      /\ \A k \in 1 .. m : u[k] = s[k]
      /\ \A k \in 1 .. n : u[m + k] = t[k]
  BY <1>1
<1> HIDE DEF u
<1>3. \A k \in 1 .. m + n : k \notin 1 .. m => \E l \in 1 .. n : k = m + l
  <2>1. ASSUME NEW k \in 1 .. m + n, k \notin 1 .. m
        PROVE  k - m \in 1 .. n /\ k = m + (k - m)
    BY <2>1
  <2>2. QED
    BY <2>1
<1>4. ASSUME NEW k \in 1 .. m + n, NEW l \in 1 .. m + n, k < l
      PROVE  <<u[k], u[l]>> \in R
  <2>1. CASE k \in 1 .. m /\ l \in 1 .. m
    BY <1>2, <1>4, <2>1 DEF OrderedBy
  <2>2. CASE k \in 1 .. m /\ l \notin 1 .. m
    <3>1. PICK j \in 1 .. n : l = m + j
      BY <1>3, <2>2
    <3>2. u[k] \in ToSet(s) /\ u[l] \in ToSet(t)
      BY <1>2, <2>2, <3>1 DEF ToSet
    <3>3. QED
      BY <3>2
  <2>3. CASE k \notin 1 .. m
    <3>1. PICK i \in 1 .. n : k = m + i
      BY <1>3, <2>3
    <3>2. l \notin 1 .. m
      BY <1>4, <2>3
    <3>3. PICK j \in 1 .. n : l = m + j
      BY <1>3, <3>2
    <3>4. i < j /\ u[k] = t[i] /\ u[l] = t[j]
      BY <1>2, <1>4, <3>1, <3>3
    <3>5. QED
      BY <1>2, <3>4 DEF OrderedBy
  <2>4. QED
    BY <2>1, <2>2, <2>3
<1>5. QED
  BY <1>2, <1>4 DEF OrderedBy, u

\* h[n] holds the elements of the first n rows.
Flattens(h, rows, N) ==
  /\ h[1] = rows[1]
  /\ \A n \in 2 .. N : h[n] = h[n - 1] \o rows[n]
  /\ FlattenSeq(rows) = h[N]

LEMMA FlattenRows ==
  ASSUME NEW S, NEW rows \in Seq(Seq(S)), NEW N \in Nat \ {0}, N = Len(rows)
  PROVE  \E h \in [1 .. N -> Seq(S)] : Flattens(h, rows, N)
<1> DEFINE F == [x \in Seq(S) \X (2 .. N) |-> x[1] \o rows[x[2]]]
           Is(h) == h = [n \in 1 .. N |-> IF n = 1 THEN rows[n] ELSE h[n - 1] \o rows[n]]
           f == CHOOSE h : Is(h)
<1>1. \A n \in 1 .. N : rows[n] \in Seq(S)
  OBVIOUS
<1>2. \A u, v \in Seq(S) : u \o v \in Seq(S)
  OBVIOUS
<1>3. F \in [Seq(S) \X (2 .. N) -> Seq(S)]
  <2>1. ASSUME NEW x \in Seq(S) \X (2 .. N)
        PROVE  x[1] \o rows[x[2]] \in Seq(S)
    <3>1. x[1] \in Seq(S) /\ x[2] \in 1 .. N
      OBVIOUS
    <3>2. QED
      BY <1>1, <1>2, <3>1
  <2>2. QED
    BY <2>1
<1>4. \A v \in Seq(S), n \in 2 .. N : F[<<v, n>>] = v \o rows[n]
  OBVIOUS
<1>5. rows[1] \in Seq(S)
  BY <1>1
<1> HIDE DEF F
<1>6. PICK g \in [1 .. N -> Seq(S)] : RecursFromOne(g, N, rows[1], F)
  BY <1>3, <1>5, RecursionFromOne
<1>7. \A n \in 2 .. N : g[n - 1] \in Seq(S) /\ g[n] = g[n - 1] \o rows[n]
  <2>1. \A n \in 2 .. N : n - 1 \in 1 .. N
    OBVIOUS
  <2>2. QED
    BY <1>4, <1>6, <2>1 DEF RecursFromOne
<1>8. Is(g)
  <2>1. ASSUME NEW n \in 1 .. N
        PROVE  g[n] = IF n = 1 THEN rows[n] ELSE g[n - 1] \o rows[n]
    <3>1. CASE n = 1
      BY <1>6, <3>1 DEF RecursFromOne
    <3>2. CASE n # 1
      <4>1. n \in 2 .. N
        BY <3>2
      <4>2. QED
        BY <1>7, <3>2, <4>1, Zenon
    <3>3. QED
      BY <3>1, <3>2
  <2>2. g = [n \in 1 .. N |-> g[n]]
    OBVIOUS
  <2>3. QED
    BY <2>1, <2>2
<1>9. Is(f)
  <2> HIDE DEF Is
  <2>1. QED
    BY <1>8
<1>10. FlattenSeq(rows) = f[N]
  <2>1. Len(rows) # 0
    OBVIOUS
  <2>2. QED
    BY <2>1, Zenon DEF FlattenSeq
<1> HIDE DEF f
<1>11. \A n \in 1 .. N : f[n] = IF n = 1 THEN rows[n] ELSE f[n - 1] \o rows[n]
  BY <1>9, Zenon
<1>12. f[1] = rows[1] /\ \A n \in 2 .. N : f[n] = f[n - 1] \o rows[n]
  <2>1. 1 \in 1 .. N /\ \A n \in 2 .. N : n \in 1 .. N /\ n # 1
    OBVIOUS
  <2>2. QED
    BY <1>11, <2>1, Zenon
<1>13. \A n \in 1 .. N : f[n] \in Seq(S)
  <2> DEFINE T == {n \in 0 .. N : n = 0 \/ f[n] \in Seq(S)}
  <2>1. 0 \in T
    OBVIOUS
  <2>2. ASSUME NEW n \in 1 .. N, n - 1 \in T
        PROVE  n \in T
    <3>1. CASE n = 1
      <4>1. f[n] \in Seq(S)
        BY <1>5, <1>12, <3>1
      <4>2. QED
        BY <4>1
    <3>2. CASE n # 1
      <4>1. n \in 2 .. N /\ n - 1 # 0
        BY <3>2
      <4>2. f[n - 1] \in Seq(S)
        BY <2>2, <4>1
      <4>3. f[n] = f[n - 1] \o rows[n]
        BY <1>12, <4>1
      <4>4. f[n] \in Seq(S)
        BY <1>1, <1>2, <4>2, <4>3
      <4>5. QED
        BY <4>4
    <3>3. QED
      BY <3>1, <3>2
  <2> HIDE DEF T
  <2>3. \A n \in 0 .. N : n \in T
    BY <2>1, <2>2, BoundedInduction
  <2>4. \A n \in 1 .. N : n \in 0 .. N /\ n # 0
    OBVIOUS
  <2>5. QED
    BY <2>3, <2>4 DEF T
<1>14. f \in [1 .. N -> Seq(S)]
  <2>1. f = [n \in 1 .. N |-> f[n]]
    <3>1. DOMAIN f = 1 .. N /\ f = [n \in DOMAIN f |-> f[n]]
      BY <1>9, Zenon
    <3>2. QED
      BY <3>1
  <2>2. QED
    BY <1>13, <2>1
<1>15. QED
  BY <1>10, <1>12, <1>14 DEF Flattens

LEMMA FlattenHolds ==
  ASSUME NEW S, NEW rows \in Seq(Seq(S)), NEW R
  PROVE  /\ FlattenSeq(rows) \in Seq(S)
         /\ ToSet(FlattenSeq(rows)) = UNION {ToSet(rows[i]) : i \in DOMAIN rows}
         /\ /\ \A i \in DOMAIN rows : OrderedBy(rows[i], R)
            /\ \A i, j \in DOMAIN rows : i < j => (ToSet(rows[i]) \X ToSet(rows[j])) \subseteq R
            => OrderedBy(FlattenSeq(rows), R)
<1> DEFINE Rows == /\ \A i \in DOMAIN rows : OrderedBy(rows[i], R)
                   /\ \A i, j \in DOMAIN rows :
                        i < j => (ToSet(rows[i]) \X ToSet(rows[j])) \subseteq R
<1>1. PICK N \in Nat : N = Len(rows)
  OBVIOUS
<1>2. DOMAIN rows = 1 .. N /\ \A n \in 1 .. N : rows[n] \in Seq(S)
  BY <1>1
<1>3. CASE N = 0
  <2>1. rows = <<>>
    BY <1>1, <1>3, EmptySeq, Zenon
  <2>2. FlattenSeq(rows) = <<>>
    BY <1>1, <1>3, <2>1 DEF FlattenSeq
  <2>3. ToSet(<<>>) = {} /\ DOMAIN rows = {} /\ OrderedBy(<<>>, R)
    BY <2>1 DEF ToSet, OrderedBy
  <2>4. UNION {ToSet(rows[i]) : i \in DOMAIN rows} = {}
    BY <2>3
  <2>5. QED
    BY <2>2, <2>3, <2>4
<1>4. CASE N # 0
  <2>1. N \in Nat \ {0}
    BY <1>4
  <2>2. PICK h \in [1 .. N -> Seq(S)] : Flattens(h, rows, N)
    BY <1>1, <2>1, FlattenRows
  <2> DEFINE Good(n) == /\ ToSet(h[n]) = UNION {ToSet(rows[i]) : i \in 1 .. n}
                        /\ Rows => OrderedBy(h[n], R)
             T == {n \in 0 .. N : n = 0 \/ Good(n)}
  <2>3. Good(1)
    <3>1. 1 .. 1 = {1} /\ 1 \in DOMAIN rows
      BY <1>2, <2>1
    <3>2. UNION {ToSet(rows[i]) : i \in 1 .. 1} = ToSet(rows[1])
      BY <3>1
    <3>3. QED
      BY <2>2, <3>1, <3>2 DEF Flattens
  <2>4. ASSUME NEW n \in 2 .. N, Good(n - 1)
        PROVE  Good(n)
    <3>1. /\ n \in 1 .. N /\ n - 1 \in 1 .. N
          /\ 1 .. n = (1 .. n - 1) \cup {n}
          /\ \A i \in 1 .. n - 1 : i \in 1 .. N /\ i < n
      BY <2>1
    <3>2. h[n - 1] \in Seq(S) /\ rows[n] \in Seq(S) /\ h[n] = h[n - 1] \o rows[n]
      BY <1>2, <2>2, <3>1 DEF Flattens
    <3>3. ToSet(h[n]) = ToSet(h[n - 1]) \cup ToSet(rows[n])
      <4> HIDE DEF Rows, Good
      <4>1. ToSet(h[n - 1] \o rows[n]) = ToSet(h[n - 1]) \cup ToSet(rows[n])
        BY <3>2, ConcatHolds
      <4>2. QED
        BY <3>2, <4>1
    <3>4. UNION {ToSet(rows[i]) : i \in 1 .. n} =
            (UNION {ToSet(rows[i]) : i \in 1 .. n - 1}) \cup ToSet(rows[n])
      BY <3>1
    <3>5. ASSUME Rows
          PROVE  OrderedBy(h[n], R)
      <4>1. OrderedBy(h[n - 1], R) /\ OrderedBy(rows[n], R)
        BY <1>2, <2>4, <3>1, <3>5
      <4>2. ASSUME NEW x \in ToSet(h[n - 1]), NEW y \in ToSet(rows[n])
            PROVE  <<x, y>> \in R
        <5>1. PICK i \in 1 .. n - 1 : x \in ToSet(rows[i])
          BY <2>4
        <5>2. (ToSet(rows[i]) \X ToSet(rows[n])) \subseteq R
          BY <1>2, <3>1, <3>5
        <5>3. QED
          BY <5>1, <5>2
      <4>3. (ToSet(h[n - 1]) \X ToSet(rows[n])) \subseteq R
        BY <4>2
      <4> HIDE DEF Rows, Good
      <4>4. OrderedBy(h[n - 1] \o rows[n], R)
        BY <3>2, <4>1, <4>3, ConcatOrdered, Zenon
      <4>5. QED
        BY <3>2, <4>4
    <3>6. QED
      BY <2>4, <3>3, <3>4, <3>5
  <2> HIDE DEF Good
  <2>5. ASSUME NEW n \in 1 .. N, n - 1 \in T
        PROVE  n \in T
    <3>1. CASE n = 1
      BY <2>3, <3>1
    <3>2. CASE n # 1
      <4>1. n \in 2 .. N /\ n - 1 # 0
        BY <3>2
      <4>2. QED
        BY <2>4, <2>5, <4>1
    <3>3. QED
      BY <3>1, <3>2
  <2>6. 0 \in T
    OBVIOUS
  <2> HIDE DEF T
  <2>7. \A n \in 0 .. N : n \in T
    BY <2>5, <2>6, BoundedInduction
  <2>8. Good(N)
    <3>1. N \in 0 .. N /\ N # 0
      BY <2>1
    <3>2. QED
      BY <2>7, <3>1 DEF T
  <2>9. N \in 1 .. N
    BY <2>1
  <2>10. h[N] \in Seq(S)
    BY <2>9
  <2>11. QED
    BY <1>2, <2>2, <2>8, <2>10 DEF Good, Flattens
<1>5. QED
  BY <1>3, <1>4
===============================================================================
