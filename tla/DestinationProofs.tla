------------------------- MODULE DestinationProofs -------------------------
(***************************************************************************)
(* Proofs about Destination, for every set of operators and messages,      *)
(* every quorum, window, number of epochs and size of batch, and for both  *)
(* providers; first the facts about Merkle trees of any size.              *)
(***************************************************************************)
EXTENDS Destination, FiniteSetTheorems, SequenceTheorems, TLAPS

-----------------------------------------------------------------------------
(* Numbers.  The induction theorems of the library take an operator; a set *)
(* of numbers does instead.  A recursive function is one by the set of the *)
(* bounds up to which it is defined.                                       *)

(* Every set of numbers has a least one.                                   *)
LEMMA Least ==
  ASSUME NEW T, T \subseteq Nat, T # {}
  PROVE  \E n \in T : \A m \in T : n <= m
<1> DEFINE R == OpToRel(<, Nat)
<1>1. IsWellFoundedOn(R, Nat)
  BY NatLessThanWellFounded
<1> HIDE DEF R
<1>2. PICK n \in T : \A m \in T : <<m, n>> \notin R
  BY <1>1, WFMin
<1>3. \A m \in T : ~(m < n)
  BY <1>2 DEF R, OpToRel
<1> QED
  BY <1>3

(* Induction, for a set.                                                   *)
LEMMA NatSets ==
  ASSUME NEW S, 0 \in S, \A n \in Nat : n \in S => n + 1 \in S
  PROVE  Nat \subseteq S
<1> DEFINE T == Nat \ S
<1> SUFFICES ASSUME T # {} PROVE FALSE
  OBVIOUS
<1> HIDE DEF T
<1>1. PICK n \in T : \A m \in T : n <= m
  BY Least DEF T
<1>2. n # 0 /\ n \in Nat
  BY DEF T
<1>3. n - 1 \in Nat /\ n - 1 \notin T
  BY <1>1, <1>2
<1> QED
  BY <1>2, <1>3 DEF T

LEMMA LevelsDef ==
  ASSUME NEW S, Cardinality(S) \in Nat
  PROVE  Levels(S) = [k \in 1..Cardinality(S) |->
                        IF k = 1 THEN Leaves(S) ELSE Up(Levels(S)[k - 1])]
<1> DEFINE Step(g, k) == IF k = 1 THEN Leaves(S) ELSE Up(g[k - 1])
           T == {m \in Nat : \E g : g = [k \in 1..m |-> Step(g, k)]}
<1>1. 0 \in T
  <2> DEFINE g == [k \in 1..0 |-> 0]
  <2>1. g = [k \in 1..0 |-> Step(g, k)]
    OBVIOUS
  <2> QED
    BY <2>1
<1>2. ASSUME NEW m \in Nat, m \in T
      PROVE  m + 1 \in T
  <2>1. PICK g : g = [k \in 1..m |-> Step(g, k)]
    BY <1>2
  <2>2. PICK h : h = [k \in 1..(m + 1) |-> IF k = m + 1 THEN Step(g, k) ELSE g[k]]
    OBVIOUS
  <2>3. ASSUME NEW k \in 1..(m + 1)
        PROVE  h[k] = Step(h, k)
    <3>1. k # 1 => h[k - 1] = g[k - 1]
      BY <2>2
    <3> QED
      BY <2>1, <2>2, <3>1
  <2>4. h = [k \in 1..(m + 1) |-> Step(h, k)]
    BY <2>2, <2>3
  <2> QED
    BY <2>4
<1> HIDE DEF T
<1>3. Cardinality(S) \in T
  BY <1>1, <1>2, NatSets
<1> QED
  BY <1>3 DEF T, Levels


-----------------------------------------------------------------------------
(* The leaves.                                                             *)

LeafSets == {S \in SUBSET Nat : IsFiniteSet(S) /\ S # {}}

Rank(S, l) == Cardinality({x \in S : x <= l})

LEMMA SizeType ==
  ASSUME NEW S \in LeafSets
  PROVE  Cardinality(S) \in Nat \ {0}
BY FS_CardinalityType, FS_EmptySet DEF LeafSets

(* Ranks grow with the leaves, so they are the places of a sorted list.    *)
LEMMA RankGrows ==
  ASSUME NEW S \in LeafSets, NEW l \in S, NEW m \in S, l < m
  PROVE  Rank(S, l) < Rank(S, m)
<1> DEFINE A == {x \in S : x <= l}
           B == {x \in S : x <= m}
<1>1. IsFiniteSet(B)
  BY FS_Subset DEF LeafSets
<1>2. A \in SUBSET B /\ A # B
  <2> S \subseteq Nat
    BY DEF LeafSets
  <2>1. m \in B /\ m \notin A
    OBVIOUS
  <2>2. \A x \in S : x <= l => x <= m
    OBVIOUS
  <2> QED
    BY <2>1, <2>2
<1> HIDE DEF A, B
<1>3. Cardinality(A) <= Cardinality(B) /\ Cardinality(A) # Cardinality(B)
  BY <1>1, <1>2, FS_Subset
<1>4. Cardinality(A) \in Nat /\ Cardinality(B) \in Nat
  BY <1>1, <1>2, FS_Subset, FS_CardinalityType
<1> QED
  BY <1>3, <1>4 DEF Rank, A, B

LEMMA RankType ==
  ASSUME NEW S \in LeafSets, NEW l \in S
  PROVE  Rank(S, l) \in 1..Cardinality(S)
<1> DEFINE A == {x \in S : x <= l}
<1>1. IsFiniteSet(S) /\ l \in A /\ A \in SUBSET S
  BY DEF LeafSets
<1> HIDE DEF A
<1>2. /\ IsFiniteSet(A) /\ Cardinality(A) <= Cardinality(S)
      /\ Cardinality(A) \in Nat /\ Cardinality(S) \in Nat
  BY <1>1, FS_Subset, FS_CardinalityType
<1>3. Cardinality(A) # 0
  BY <1>1, <1>2, FS_EmptySet
<1> QED
  BY <1>2, <1>3 DEF Rank, A

LEMMA SortedLeaves ==
  ASSUME NEW S \in LeafSets
  PROVE  /\ \A i \in 1..Cardinality(S) : Sorted(S)[i] \in S
         /\ \A l \in S : \E i \in 1..Cardinality(S) : Sorted(S)[i] = l
<1> DEFINE n == Cardinality(S)
           rank == [l \in S |-> Rank(S, l)]
<1>1. n \in Nat /\ IsFiniteSet(S)
  BY SizeType DEF LeafSets
<1>2. \A l, m \in S : Rank(S, l) = Rank(S, m) => l = m
  <2> SUFFICES ASSUME NEW l \in S, NEW m \in S, Rank(S, l) = Rank(S, m)
               PROVE  ~(l < m) /\ ~(m < l) => l = m
    BY RankGrows, RankType
  <2> QED
    BY DEF LeafSets
<1>3. rank \in Injection(S, 1..n)
  BY <1>2, RankType DEF Injection, IsInjective
<1>4. IsFiniteSet(1..n) /\ Cardinality(1..n) = n
  BY <1>1, FS_Interval
<1>5. rank \in Surjection(S, 1..n)
  BY <1>3, <1>4, FS_Injection
<1>6. \A i \in 1..n : \E l \in S : Rank(S, l) = i
  BY <1>5 DEF Surjection
<1>7. \A i \in 1..n : Sorted(S)[i] \in S /\ Rank(S, Sorted(S)[i]) = i
  BY <1>6 DEF Sorted, Rank
<1> QED
  BY <1>2, <1>7, RankType


-----------------------------------------------------------------------------
(* The levels.                                                             *)

IsLevel(f) == \E m \in Nat \ {0} : f = [i \in 1..m |-> f[i]]

LEMMA LevelLength ==
  ASSUME NEW f, NEW m \in Nat, f = [i \in 1..m |-> f[i]]
  PROVE  Len(f) = m
<1> DEFINE V == {f[i] : i \in 1..m}
<1>1. f \in [1..m -> V]
  OBVIOUS
<1>2. f \in Seq(V)
  BY <1>1, SeqDef
<1> QED
  BY <1>1, <1>2, LenProperties

LEMMA LevelShape ==
  ASSUME NEW f, IsLevel(f)
  PROVE  Len(f) \in Nat \ {0} /\ f = [i \in 1..Len(f) |-> f[i]]
<1>1. PICK m \in Nat \ {0} : f = [i \in 1..m |-> f[i]]
  BY DEF IsLevel
<1> QED
  BY <1>1, LevelLength

(* A level halves, rounded up, until it has one node.                      *)
LEMMA UpShape ==
  ASSUME NEW f, IsLevel(f)
  PROVE  /\ IsLevel(Up(f))
         /\ Len(f) = 1 => Up(f) = f
         /\ Len(f) > 1 => Len(Up(f)) = (Len(f) + 1) \div 2
<1>1. Len(f) \in Nat \ {0} /\ f = [i \in 1..Len(f) |-> f[i]]
  BY LevelShape
<1>2. CASE Len(f) = 1
  BY <1>2 DEF Up
<1>3. CASE Len(f) > 1
  <2> DEFINE m == (Len(f) + 1) \div 2
  <2>1. m \in Nat \ {0}
    BY <1>1, <1>3
  <2>2. PICK u : u = Up(f)
    OBVIOUS
  <2>3. u = [i \in 1..m |->
               Hash(f[2 * i - 1], f[IF 2 * i > Len(f) THEN 2 * i - 1 ELSE 2 * i])]
    BY <1>3, <2>2 DEF Up
  <2> HIDE DEF m
  <2>4. u = [i \in 1..m |-> u[i]]
    BY <2>3, Zenon
  <2>5. IsLevel(u)
    BY <2>1, <2>4 DEF IsLevel
  <2>6. Len(u) = m
    BY <2>1, <2>4, LevelLength
  <2> QED
    BY <1>1, <1>3, <2>2, <2>5, <2>6 DEF m
<1> QED
  BY <1>1, <1>2, <1>3

LEMMA LeavesShape ==
  ASSUME NEW S \in LeafSets
  PROVE  IsLevel(Leaves(S)) /\ Len(Leaves(S)) = Cardinality(S)
<1>1. Cardinality(S) \in Nat \ {0}
  BY SizeType
<1>2. Leaves(S) = [i \in 1..Cardinality(S) |-> Leaves(S)[i]]
  BY DEF Leaves
<1> QED
  BY <1>1, <1>2, LevelLength DEF IsLevel

LEMMA LevelSteps ==
  ASSUME NEW S \in LeafSets
  PROVE  /\ Levels(S)[1] = Leaves(S)
         /\ \A k \in 1..(Cardinality(S) - 1) : Levels(S)[k + 1] = Up(Levels(S)[k])
         /\ DOMAIN Levels(S) = 1..Cardinality(S)
<1>1. Cardinality(S) \in Nat \ {0}
  BY SizeType
<1>2. Levels(S) = [k \in 1..Cardinality(S) |->
                     IF k = 1 THEN Leaves(S) ELSE Up(Levels(S)[k - 1])]
  BY <1>1, LevelsDef
<1> QED
  BY <1>1, <1>2

Width(S, k) == Len(Levels(S)[k])

(* Every level is one, and is narrower than the one below if it can be.    *)
LEMMA LevelsShape ==
  ASSUME NEW S \in LeafSets
  PROVE  \A k \in 1..Cardinality(S) :
           /\ IsLevel(Levels(S)[k])
           /\ Width(S, k) \in Nat \ {0}
           /\ Width(S, k) <= Cardinality(S) - k + 1
<1> DEFINE n == Cardinality(S)
           Good(k) == /\ IsLevel(Levels(S)[k])
                      /\ Width(S, k) \in Nat \ {0}
                      /\ Width(S, k) <= n - k + 1
           T == {m \in Nat : m < n => Good(m + 1)}
<1>1. n \in Nat \ {0}
  BY SizeType
<1>2. 0 \in T
  <2>1. Good(1)
    BY <1>1, LevelSteps, LeavesShape DEF Width
  <2> QED
    BY <2>1
<1>3. ASSUME NEW m \in Nat, m \in T
      PROVE  m + 1 \in T
  <2> SUFFICES ASSUME m + 1 < n PROVE Good(m + 2)
    OBVIOUS
  <2>1. Good(m + 1)
    BY <1>1, <1>3
  <2>2. Levels(S)[m + 2] = Up(Levels(S)[m + 1])
    BY <1>1, LevelSteps
  <2>3. IsLevel(Levels(S)[m + 2])
    BY <2>1, <2>2, UpShape
  <2>4. /\ Width(S, m + 1) = 1 => Width(S, m + 2) = 1
        /\ Width(S, m + 1) > 1 => Width(S, m + 2) = (Width(S, m + 1) + 1) \div 2
    <3> PICK f : f = Levels(S)[m + 1]
      OBVIOUS
    <3>1. IsLevel(f) /\ Len(f) = Width(S, m + 1) /\ Len(Up(f)) = Width(S, m + 2)
      BY <2>1, <2>2 DEF Width
    <3> QED
      BY <3>1, UpShape
  <2> HIDE DEF n
  <2> QED
    BY <1>1, <2>1, <2>3, <2>4
<1> HIDE DEF T
<1>4. Nat \subseteq T
  BY <1>2, <1>3, NatSets
<1> SUFFICES ASSUME NEW k \in 1..n PROVE Good(k)
  OBVIOUS
<1>5. k - 1 \in T /\ k - 1 < n /\ (k - 1) + 1 = k
  BY <1>1, <1>4
<1> QED
  BY <1>5 DEF T

LEMMA WidthSteps ==
  ASSUME NEW S \in LeafSets, NEW k \in 1..(Cardinality(S) - 1)
  PROVE  /\ Width(S, k) = 1 => Levels(S)[k + 1] = Levels(S)[k]
         /\ Width(S, k) > 1 => Width(S, k + 1) = (Width(S, k) + 1) \div 2
<1>1. k \in 1..Cardinality(S)
  BY SizeType
<1> QED
  BY <1>1, LevelSteps, LevelsShape, UpShape DEF Width

LEMMA WidthNext ==
  ASSUME NEW S \in LeafSets, NEW k \in 1..(Cardinality(S) - 1)
  PROVE  /\ Width(S, k) = 1 => Width(S, k + 1) = 1
         /\ Width(S, k) > 1 => Width(S, k + 1) = (Width(S, k) + 1) \div 2
BY WidthSteps DEF Width

-----------------------------------------------------------------------------
(* The height.                                                             *)

Top(S) == Depth(Levels(S)) + 1

(* The levels below the top have several nodes, the top is a single one    *)
(* and the levels after it repeat it.                                      *)
LEMMA Height ==
  ASSUME NEW S \in LeafSets
  PROVE  /\ Depth(Levels(S)) \in Nat
         /\ Top(S) \in 1..Cardinality(S)
         /\ \A k \in 1..Depth(Levels(S)) : Width(S, k) > 1
         /\ \A k \in Top(S)..Cardinality(S) :
              Levels(S)[k] = Levels(S)[Top(S)] /\ Width(S, k) = 1
<1> DEFINE n == Cardinality(S)
           A == {k \in 1..n : Width(S, k) = 1}
<1>1. n \in Nat \ {0}
  BY SizeType
<1>2. n \in A
  BY <1>1, LevelsShape
<1>3. A \subseteq Nat
  OBVIOUS
<1>4. PICK a \in A : \A k \in A : a <= k
  BY <1>2, <1>3, Least
<1>5. a \in 1..n /\ Width(S, a) = 1
  OBVIOUS
<1>6. \A k \in 1..(a - 1) : Width(S, k) > 1
  <2> SUFFICES ASSUME NEW k \in 1..(a - 1) PROVE Width(S, k) > 1
    OBVIOUS
  <2>1. k \in 1..n /\ k \notin A
    BY <1>1, <1>4, <1>5
  <2> QED
    BY <2>1, LevelsShape
<1>7. \A k \in a..n : Levels(S)[k] = Levels(S)[a] /\ Width(S, k) = 1
  <2> DEFINE Same(k) == Levels(S)[k] = Levels(S)[a] /\ Width(S, k) = 1
             T == {m \in Nat : a + m <= n => Same(a + m)}
  <2>1. 0 \in T
    BY <1>1, <1>5
  <2>2. ASSUME NEW m \in Nat, m \in T
        PROVE  m + 1 \in T
    <3> SUFFICES ASSUME a + m + 1 <= n PROVE Same(a + m + 1)
      OBVIOUS
    <3>1. a + m \in 1..(n - 1) /\ Same(a + m)
      BY <1>1, <1>5, <2>2
    <3>2. Levels(S)[(a + m) + 1] = Levels(S)[a + m]
      BY <3>1, WidthSteps
    <3> QED
      BY <3>1, <3>2 DEF Width
  <2> HIDE DEF T
  <2>3. Nat \subseteq T
    BY <2>1, <2>2, NatSets
  <2> SUFFICES ASSUME NEW k \in a..n PROVE Same(k)
    OBVIOUS
  <2>4. k - a \in Nat /\ a + (k - a) = k /\ k <= n
    BY <1>1, <1>5
  <2>5. k - a \in T
    BY <2>3, <2>4
  <2> QED
    BY <2>4, <2>5 DEF T
<1>8. {k \in DOMAIN Levels(S) : Len(Levels(S)[k]) > 1} = 1..(a - 1)
  <2>1. DOMAIN Levels(S) = 1..n
    BY LevelSteps
  <2>2. \A k \in 1..n : Len(Levels(S)[k]) > 1 <=> k \in 1..(a - 1)
    <3> SUFFICES ASSUME NEW k \in 1..n
                 PROVE  Width(S, k) > 1 <=> k \in 1..(a - 1)
      BY DEF Width
    <3>1. CASE k < a
      BY <1>1, <1>5, <1>6, <3>1
    <3>2. CASE ~(k < a)
      <4>1. Width(S, k) = 1
        BY <1>1, <1>5, <1>7, <3>2
      <4> QED
        BY <1>1, <1>5, <3>2, <4>1
    <3> QED
      BY <3>1, <3>2
  <2> HIDE DEF n
  <2>3. 1..(a - 1) \subseteq 1..n
    BY <1>1, <1>5
  <2> QED
    BY <2>1, <2>2, <2>3
<1>9. Depth(Levels(S)) = a - 1
  <2>1. Cardinality(1..(a - 1)) = a - 1
    BY <1>1, <1>5, FS_Interval
  <2> QED
    BY <1>8, <2>1 DEF Depth
<1> HIDE DEF n, A
<1> QED
  BY <1>1, <1>5, <1>6, <1>7, <1>9 DEF Top, n

LEMMA RootIsTop ==
  ASSUME NEW S \in LeafSets
  PROVE  Root(S) = Levels(S)[Top(S)][1]
<1>1. Cardinality(S) \in Top(S)..Cardinality(S)
  BY SizeType, Height
<1> QED
  BY <1>1, Height DEF Root

-----------------------------------------------------------------------------
(* The places of a leaf.                                                   *)

LEMMA PlacesDef ==
  ASSUME NEW S \in LeafSets, NEW l
  PROVE  Places(S, l) = [k \in 1..Cardinality(S) |->
           IF k = 1 THEN (CHOOSE i \in 1..Cardinality(S) : Sorted(S)[i] = l) - 1
           ELSE Places(S, l)[k - 1] \div 2]
<1> DEFINE First == (CHOOSE i \in 1..Cardinality(S) : Sorted(S)[i] = l) - 1
           Step(g, k) == IF k = 1 THEN First ELSE g[k - 1] \div 2
           T == {m \in Nat : \E g : g = [k \in 1..m |-> Step(g, k)]}
<1> HIDE DEF First
<1>1. 0 \in T
  <2> DEFINE g == [k \in 1..0 |-> 0]
  <2>1. g = [k \in 1..0 |-> Step(g, k)]
    OBVIOUS
  <2> QED
    BY <2>1
<1>2. ASSUME NEW m \in Nat, m \in T
      PROVE  m + 1 \in T
  <2>1. PICK g : g = [k \in 1..m |-> Step(g, k)]
    BY <1>2
  <2>2. PICK h : h = [k \in 1..(m + 1) |-> IF k = m + 1 THEN Step(g, k) ELSE g[k]]
    OBVIOUS
  <2>3. ASSUME NEW k \in 1..(m + 1)
        PROVE  h[k] = Step(h, k)
    <3>1. k # 1 => h[k - 1] = g[k - 1]
      BY <2>2
    <3> QED
      BY <2>1, <2>2, <3>1
  <2>4. h = [k \in 1..(m + 1) |-> Step(h, k)]
    BY <2>2, <2>3
  <2> QED
    BY <2>4
<1> HIDE DEF T
<1>3. Cardinality(S) \in T
  BY <1>1, <1>2, NatSets, SizeType
<1> QED
  BY <1>3 DEF T, Places, First

LEMMA PlaceSteps ==
  ASSUME NEW S \in LeafSets, NEW l \in S
  PROVE  /\ Places(S, l)[1] \in 0..(Cardinality(S) - 1)
         /\ Sorted(S)[Places(S, l)[1] + 1] = l
         /\ \A k \in 1..(Cardinality(S) - 1) : Places(S, l)[k + 1] = Places(S, l)[k] \div 2
<1> DEFINE n == Cardinality(S)
           first == CHOOSE i \in 1..n : Sorted(S)[i] = l
<1>1. n \in Nat \ {0}
  BY SizeType
<1>2. first \in 1..n /\ Sorted(S)[first] = l
  BY SortedLeaves
<1>3. PICK f : f = first
  OBVIOUS
<1>4. Places(S, l) = [k \in 1..n |-> IF k = 1 THEN f - 1 ELSE Places(S, l)[k - 1] \div 2]
  BY <1>3, PlacesDef
<1> HIDE DEF first, n
<1>5. Places(S, l)[1] = f - 1 /\ f \in 1..n /\ Sorted(S)[f] = l
  BY <1>1, <1>2, <1>3, <1>4
<1>6. \A k \in 1..(n - 1) : Places(S, l)[k + 1] = Places(S, l)[k] \div 2
  BY <1>1, <1>4
<1>7. Places(S, l)[1] + 1 = f /\ Places(S, l)[1] \in 0..(n - 1)
  BY <1>1, <1>5
<1> QED
  BY <1>5, <1>6, <1>7 DEF n

(* A place is one of its level's.                                          *)
LEMMA PlacesShape ==
  ASSUME NEW S \in LeafSets, NEW l \in S
  PROVE  \A k \in 1..Cardinality(S) : Places(S, l)[k] \in 0..(Width(S, k) - 1)
<1> DEFINE n == Cardinality(S)
           Good(k) == Places(S, l)[k] \in 0..(Width(S, k) - 1)
           T == {m \in Nat : m < n => Good(m + 1)}
<1>1. n \in Nat \ {0}
  BY SizeType
<1>2. 0 \in T
  <2>1. Width(S, 1) = n
    BY LevelSteps, LeavesShape DEF Width
  <2>2. Places(S, l)[1] \in 0..(n - 1)
    BY PlaceSteps
  <2> QED
    BY <1>1, <2>1, <2>2
<1>3. ASSUME NEW m \in Nat, m \in T
      PROVE  m + 1 \in T
  <2> SUFFICES ASSUME m + 1 < n PROVE Good(m + 2)
    OBVIOUS
  <2>1. Good(m + 1)
    BY <1>1, <1>3
  <2>2. m + 1 \in 1..(n - 1) /\ m + 1 \in 1..n
    BY <1>1
  <2>3. Places(S, l)[(m + 1) + 1] = Places(S, l)[m + 1] \div 2
    BY <2>2, PlaceSteps
  <2>4. /\ Width(S, m + 1) = 1 => Width(S, (m + 1) + 1) = 1
        /\ Width(S, m + 1) > 1 => Width(S, (m + 1) + 1) = (Width(S, m + 1) + 1) \div 2
    BY <2>2, WidthNext
  <2>5. Width(S, m + 1) \in Nat \ {0}
    BY <2>2, LevelsShape
  <2> QED
    BY <2>1, <2>3, <2>4, <2>5
<1> HIDE DEF T
<1>4. Nat \subseteq T
  BY <1>2, <1>3, NatSets
<1> SUFFICES ASSUME NEW k \in 1..n PROVE Good(k)
  OBVIOUS
<1>5. k - 1 \in T /\ k - 1 < n /\ (k - 1) + 1 = k
  BY <1>1, <1>4
<1> QED
  BY <1>5 DEF T

-----------------------------------------------------------------------------
(* A proof climbs to the root.                                             *)

LEMMA ClimbDef ==
  ASSUME NEW s, Len(s) \in Nat, NEW l
  PROVE  /\ Climb(s, l)[0] = LeafHash(l)
         /\ \A k \in 1..Len(s) : Climb(s, l)[k] = Hash(Climb(s, l)[k - 1], s[k])
<1> DEFINE Step(g, k) == IF k = 0 THEN LeafHash(l) ELSE Hash(g[k - 1], s[k])
           T == {m \in Nat : \E g : g = [k \in 0..m |-> Step(g, k)]}
<1>1. 0 \in T
  <2> DEFINE g == [k \in 0..0 |-> LeafHash(l)]
  <2>1. g = [k \in 0..0 |-> Step(g, k)]
    OBVIOUS
  <2> QED
    BY <2>1
<1>2. ASSUME NEW m \in Nat, m \in T
      PROVE  m + 1 \in T
  <2>1. PICK g : g = [k \in 0..m |-> Step(g, k)]
    BY <1>2
  <2>2. PICK h : h = [k \in 0..(m + 1) |-> IF k = m + 1 THEN Step(g, k) ELSE g[k]]
    OBVIOUS
  <2>3. ASSUME NEW k \in 0..(m + 1)
        PROVE  h[k] = Step(h, k)
    <3>1. k # 0 => h[k - 1] = g[k - 1]
      BY <2>2
    <3> QED
      BY <2>1, <2>2, <3>1
  <2>4. h = [k \in 0..(m + 1) |-> Step(h, k)]
    BY <2>2, <2>3
  <2> QED
    BY <2>4
<1> HIDE DEF T
<1>3. Len(s) \in T
  BY <1>1, <1>2, NatSets
<1>4. Climb(s, l) = [k \in 0..Len(s) |-> IF k = 0 THEN LeafHash(l)
                                         ELSE Hash(Climb(s, l)[k - 1], s[k])]
  BY <1>3 DEF T, Climb
<1> QED
  BY <1>4

(* A node and its sibling hash to their parent.                            *)
LEMMA Parent ==
  ASSUME NEW f, IsLevel(f), Len(f) > 1, NEW p \in 0..(Len(f) - 1)
  PROVE  Hash(f[p + 1], Sibling(f, p)) = Up(f)[p \div 2 + 1]
<1>1. Len(f) \in Nat \ {0}
  BY LevelShape
<1>2. PICK n \in Nat \ {0} : n = Len(f)
  BY <1>1
<1>3. PICK q : q = p \div 2
  OBVIOUS
<1>4. q \in Nat /\ q + 1 \in 1..((n + 1) \div 2)
  BY <1>2, <1>3
<1>5. Up(f)[q + 1] = Hash(f[2 * (q + 1) - 1],
                          f[IF 2 * (q + 1) > n THEN 2 * (q + 1) - 1 ELSE 2 * (q + 1)])
  BY <1>2, <1>4 DEF Up
<1>6. CASE p % 2 = 0
  <2>1. p = 2 * q /\ 2 * (q + 1) - 1 = p + 1 /\ 2 * (q + 1) = p + 2
    BY <1>2, <1>3, <1>4, <1>6
  <2>2. Sibling(f, p) = f[IF p + 2 > n THEN p + 1 ELSE p + 2]
    BY <1>2, <1>6 DEF Sibling, IsLeft
  <2>3. Up(f)[q + 1] = Hash(f[p + 1], f[IF p + 2 > n THEN p + 1 ELSE p + 2])
    BY <1>5, <2>1
  <2> QED
    BY <1>3, <2>2, <2>3
<1>7. CASE p % 2 # 0
  <2>1. 2 * (q + 1) - 1 = p /\ 2 * (q + 1) = p + 1 /\ ~(p + 1 > n)
    BY <1>2, <1>3, <1>4, <1>7
  <2>2. Sibling(f, p) = f[p]
    BY <1>7 DEF Sibling, IsLeft
  <2>3. Up(f)[q + 1] = Hash(f[p], f[p + 1])
    BY <1>5, <2>1
  <2> QED
    BY <1>3, <2>2, <2>3 DEF Hash
<1> QED
  BY <1>6, <1>7

LEMMA ProofLength ==
  ASSUME NEW S \in LeafSets, NEW l \in S
  PROVE  /\ Len(Proof(S, l).siblings) = Depth(Levels(S))
         /\ \A k \in 1..Depth(Levels(S)) :
              Proof(S, l).siblings[k] = Sibling(Levels(S)[k], Places(S, l)[k])
<1>1. PICK d \in Nat : d = Depth(Levels(S))
  BY Height
<1>2. PICK s : s = Proof(S, l).siblings
  OBVIOUS
<1>3. s = [k \in 1..d |-> Sibling(Levels(S)[k], Places(S, l)[k])]
  BY <1>1, <1>2 DEF Proof
<1>4. s = [k \in 1..d |-> s[k]]
  BY <1>3, Zenon
<1> QED
  BY <1>1, <1>2, <1>3, <1>4, LevelLength

LEMMA ClimbsTree ==
  ASSUME NEW S \in LeafSets, NEW l \in S
  PROVE  \A k \in 0..Depth(Levels(S)) :
           Climb(Proof(S, l).siblings, l)[k] = Levels(S)[k + 1][Places(S, l)[k + 1] + 1]
<1>1. PICK d \in Nat : d = Depth(Levels(S))
  BY Height
<1>2. PICK s : s = Proof(S, l).siblings
  OBVIOUS
<1>3. PICK L : L = Levels(S)
  OBVIOUS
<1>4. PICK P : P = Places(S, l)
  OBVIOUS
<1>5. PICK C : C = Climb(s, l)
  OBVIOUS
<1>6. PICK n \in Nat \ {0} : n = Cardinality(S)
  BY SizeType
<1>7. d + 1 \in 1..n
  BY <1>1, <1>6, Height DEF Top
<1> DEFINE Good(k) == C[k] = L[k + 1][P[k + 1] + 1]
           T == {m \in Nat : m <= d => Good(m)}
<1>8. 0 \in T
  <2>1. C[0] = LeafHash(l)
    BY <1>1, <1>2, <1>5, ProofLength, ClimbDef
  <2>2. L[1][P[1] + 1] = LeafHash(Sorted(S)[P[1] + 1])
    <3>1. P[1] \in 0..(n - 1)
      BY <1>4, <1>6, PlaceSteps
    <3>2. P[1] + 1 \in 1..n
      BY <3>1, <1>6
    <3> QED
      BY <3>2, <1>3, <1>6, LevelSteps DEF Leaves
  <2>3. Sorted(S)[P[1] + 1] = l
    BY <1>4, PlaceSteps
  <2> QED
    BY <2>1, <2>2, <2>3
<1>9. ASSUME NEW m \in Nat, m \in T
      PROVE  m + 1 \in T
  <2> SUFFICES ASSUME m + 1 <= d PROVE Good(m + 1)
    OBVIOUS
  <2>1. /\ m + 1 \in 1..(n - 1) /\ m + 1 \in 1..n /\ m + 1 \in 1..d
        /\ (m + 1) - 1 = m
    BY <1>6, <1>7
  <2>2. C[m] = L[m + 1][P[m + 1] + 1]
    BY <1>9, <2>1
  <2>3. C[m + 1] = Hash(C[m], s[m + 1])
    BY <1>1, <1>2, <1>5, <2>1, ProofLength, ClimbDef
  <2>4. s[m + 1] = Sibling(L[m + 1], P[m + 1])
    BY <1>1, <1>2, <1>3, <1>4, <2>1, ProofLength
  <2>5. IsLevel(L[m + 1]) /\ Len(L[m + 1]) > 1 /\ P[m + 1] \in 0..(Len(L[m + 1]) - 1)
    BY <1>1, <1>3, <1>4, <1>6, <2>1, Height, LevelsShape, PlacesShape DEF Width
  <2>6. Hash(L[m + 1][P[m + 1] + 1], Sibling(L[m + 1], P[m + 1]))
          = Up(L[m + 1])[P[m + 1] \div 2 + 1]
    BY <2>5, Parent
  <2>7. L[(m + 1) + 1] = Up(L[m + 1]) /\ P[(m + 1) + 1] = P[m + 1] \div 2
    BY <1>3, <1>4, <1>6, <2>1, LevelSteps, PlaceSteps
  <2> QED
    BY <2>2, <2>3, <2>4, <2>6, <2>7
<1> HIDE DEF T
<1>10. Nat \subseteq T
  BY <1>8, <1>9, NatSets
<1> SUFFICES ASSUME NEW k \in 0..d PROVE Good(k)
  BY <1>1, <1>2, <1>3, <1>4, <1>5
<1>11. k \in T /\ k <= d
  BY <1>10
<1> QED
  BY <1>11 DEF T

(* The proof of a leaf proves it.                                          *)
LEMMA ProofProves ==
  ASSUME NEW S \in LeafSets, NEW l \in S
  PROVE  Proves(Proof(S, l).siblings, l, Root(S))
<1>1. PICK d \in Nat : d = Depth(Levels(S))
  BY Height
<1>2. d \in 0..d /\ d + 1 = Top(S) /\ d + 1 \in 1..Cardinality(S)
  BY <1>1, Height DEF Top
<1>3. Climb(Proof(S, l).siblings, l)[d] = Levels(S)[d + 1][Places(S, l)[d + 1] + 1]
  BY <1>1, <1>2, ClimbsTree
<1>4. Places(S, l)[d + 1] = 0
  <2>1. Width(S, d + 1) = 1
    BY <1>2, Height, SizeType
  <2>2. Places(S, l)[d + 1] \in 0..(Width(S, d + 1) - 1)
    BY <1>2, PlacesShape
  <2> QED
    BY <2>1, <2>2
<1> QED
  BY <1>1, <1>2, <1>3, <1>4, RootIsTop, ProofLength DEF Proves

-----------------------------------------------------------------------------
(* A proof proves one leaf, and its path tells which.                      *)

LEMMA HashBinds ==
  ASSUME NEW a, NEW b, NEW s, Hash(a, s) = Hash(b, s)
  PROVE  a = b
<1>1. {a, s} = {b, s}
  BY DEF Hash
<1> QED
  BY <1>1

LEMMA ClimbBinds ==
  ASSUME NEW s, Len(s) \in Nat, NEW l, NEW m,
         Climb(s, l)[Len(s)] = Climb(s, m)[Len(s)]
  PROVE  l = m
<1> DEFINE T == {k \in Nat : k <= Len(s) => (Climb(s, l)[k] = Climb(s, m)[k] => l = m)}
<1>1. 0 \in T
  BY ClimbDef DEF LeafHash
<1>2. ASSUME NEW k \in Nat, k \in T
      PROVE  k + 1 \in T
  <2> SUFFICES ASSUME k + 1 <= Len(s), Climb(s, l)[k + 1] = Climb(s, m)[k + 1]
               PROVE  l = m
    OBVIOUS
  <2>1. k + 1 \in 1..Len(s) /\ (k + 1) - 1 = k
    OBVIOUS
  <2>2. Hash(Climb(s, l)[k], s[k + 1]) = Hash(Climb(s, m)[k], s[k + 1])
    BY <2>1, ClimbDef
  <2>3. Climb(s, l)[k] = Climb(s, m)[k]
    BY <2>2, HashBinds
  <2> QED
    BY <1>2, <2>3
<1> HIDE DEF T
<1>3. Nat \subseteq T
  BY <1>1, <1>2, NatSets
<1>4. Len(s) \in T
  BY <1>3
<1> QED
  BY <1>4 DEF T

LEMMA ProvesOne ==
  ASSUME NEW S \in LeafSets, NEW k \in S, NEW l
  PROVE  Proves(Proof(S, k).siblings, l, Root(S)) <=> k = l
<1>1. Len(Proof(S, k).siblings) \in Nat
  BY Height, ProofLength
<1> QED
  BY <1>1, ProofProves, ClimbBinds DEF Proves

LEMMA Halves ==
  ASSUME NEW a \in Nat, NEW b \in Nat, a \div 2 = b \div 2, a % 2 = 0 <=> b % 2 = 0
  PROVE  a = b
<1>1. PICK q \in Nat : q = a \div 2 /\ q = b \div 2
  OBVIOUS
<1>2. CASE a % 2 = 0
  <2>1. a = 2 * q
    BY <1>1, <1>2
  <2>2. b = 2 * q
    BY <1>1, <1>2
  <2> QED
    BY <2>1, <2>2
<1>3. CASE a % 2 # 0
  <2>1. a = 2 * q + 1
    BY <1>1, <1>3
  <2>2. b = 2 * q + 1
    BY <1>1, <1>3
  <2> QED
    BY <2>1, <2>2
<1> QED
  BY <1>2, <1>3

LEMMA PathTells ==
  ASSUME NEW S \in LeafSets, NEW k \in S, NEW l \in S
  PROVE  Proof(S, k).path = Proof(S, l).path <=> k = l
<1> SUFFICES ASSUME Proof(S, k).path = Proof(S, l).path PROVE k = l
  OBVIOUS
<1>1. PICK d \in Nat : d = Depth(Levels(S))
  BY Height
<1>2. PICK n \in Nat \ {0} : n = Cardinality(S)
  BY SizeType
<1>3. d + 1 \in 1..n
  BY <1>1, <1>2, Height DEF Top
<1>4. PICK p : p = Places(S, k)
  OBVIOUS
<1>5. PICK q : q = Places(S, l)
  OBVIOUS
<1>6. \A j \in 1..d : p[j] % 2 = 0 <=> q[j] % 2 = 0
  <2>1. {j \in 1..d : p[j] % 2 = 0} = {j \in 1..d : q[j] % 2 = 0}
    BY <1>1, <1>4, <1>5 DEF Proof, IsLeft
  <2> QED
    BY <2>1
<1>7. \A j \in 1..n : p[j] \in Nat /\ q[j] \in Nat
  BY <1>2, <1>4, <1>5, PlacesShape, LevelsShape
<1> DEFINE T == {m \in Nat : m <= d => p[d + 1 - m] = q[d + 1 - m]}
<1>8. 0 \in T
  <2>1. Width(S, d + 1) = 1
    BY <1>1, <1>2, <1>3, Height DEF Top
  <2>2. p[d + 1] \in 0..(Width(S, d + 1) - 1) /\ q[d + 1] \in 0..(Width(S, d + 1) - 1)
    BY <1>2, <1>3, <1>4, <1>5, PlacesShape
  <2>3. p[d + 1] = q[d + 1] /\ d + 1 - 0 = d + 1
    BY <2>1, <2>2
  <2> QED
    BY <2>3
<1>9. ASSUME NEW m \in Nat, m \in T
      PROVE  m + 1 \in T
  <2> SUFFICES ASSUME m + 1 <= d PROVE p[d + 1 - (m + 1)] = q[d + 1 - (m + 1)]
    OBVIOUS
  <2>1. PICK j \in 1..d : j = d - m
    OBVIOUS
  <2>2. j \in 1..n /\ j \in 1..(n - 1) /\ d + 1 - (m + 1) = j /\ d + 1 - m = j + 1
    BY <1>3, <2>1
  <2>3. p[j + 1] = q[j + 1]
    BY <1>9, <2>2
  <2>4. p[j + 1] = p[j] \div 2 /\ q[j + 1] = q[j] \div 2
    BY <1>2, <1>4, <1>5, <2>2, PlaceSteps
  <2>5. p[j] % 2 = 0 <=> q[j] % 2 = 0
    BY <1>6
  <2>6. p[j] \in Nat /\ q[j] \in Nat
    BY <1>7, <2>2
  <2>7. p[j] = q[j]
    BY <2>3, <2>4, <2>5, <2>6, Halves
  <2> QED
    BY <2>2, <2>7
<1> HIDE DEF T
<1>10. Nat \subseteq T
  BY <1>8, <1>9, NatSets
<1>11. d \in T /\ d + 1 - d = 1
  BY <1>10
<1>12. p[1] = q[1]
  BY <1>11 DEF T
<1> QED
  BY <1>4, <1>5, <1>12, PlaceSteps

-----------------------------------------------------------------------------
(* A root binds its leaves.                                                *)

Nodes(f) == {f[i] : i \in 1..Len(f)}

(* The nodes of a level are what those of the next one hash.               *)
LEMMA UpBinds ==
  ASSUME NEW f, IsLevel(f), Len(f) > 1
  PROVE  Nodes(f) = UNION {y[2] : y \in Nodes(Up(f))}
<1>1. PICK n \in Nat \ {0} : n = Len(f)
  BY LevelShape
<1>2. PICK g : g = Up(f)
  OBVIOUS
<1>3. PICK m \in Nat \ {0} : m = (n + 1) \div 2
  BY <1>1
<1>4. Len(g) = m
  BY <1>1, <1>2, <1>3, UpShape
<1>5. \A i \in 1..m : g[i][2] = {f[2 * i - 1], f[IF 2 * i > n THEN 2 * i - 1 ELSE 2 * i]}
  BY <1>1, <1>2, <1>3 DEF Up, Hash
<1>6. ASSUME NEW i \in 1..n
      PROVE  \E j \in 1..m : f[i] \in g[j][2]
  <2>1. PICK j \in Nat : j = (i + 1) \div 2
    BY <1>1
  <2>2. j \in 1..m /\ (i = 2 * j - 1 \/ i = 2 * j)
    BY <1>1, <1>3, <2>1
  <2>3. i = 2 * j => ~(2 * j > n)
    BY <1>1
  <2> QED
    BY <1>5, <2>2, <2>3
<1>7. ASSUME NEW j \in 1..m, NEW x \in g[j][2]
      PROVE  \E i \in 1..n : x = f[i]
  <2>1. 2 * j - 1 \in 1..n /\ (~(2 * j > n) => 2 * j \in 1..n)
    BY <1>1, <1>3
  <2> QED
    BY <1>5, <2>1
<1> QED
  BY <1>1, <1>2, <1>4, <1>6, <1>7 DEF Nodes

(* Nodes of leaves are no nodes of pairs.                                  *)
LEMMA LeafNodes ==
  ASSUME NEW S \in LeafSets
  PROVE  /\ Nodes(Levels(S)[1]) = {LeafHash(l) : l \in S}
         /\ \A k \in 2..Top(S) : \A y \in Nodes(Levels(S)[k]) : y[1] = "node"
<1>1. PICK n \in Nat \ {0} : n = Cardinality(S)
  BY SizeType
<1>2. Nodes(Levels(S)[1]) = {LeafHash(Sorted(S)[i]) : i \in 1..n}
  <2>1. PICK f : f = Leaves(S)
    OBVIOUS
  <2>2. Levels(S)[1] = f /\ Len(f) = n
    BY <1>1, <2>1, LevelSteps, LeavesShape
  <2>3. \A i \in 1..n : f[i] = LeafHash(Sorted(S)[i])
    BY <1>1, <2>1 DEF Leaves
  <2> QED
    BY <2>2, <2>3 DEF Nodes
<1>3. Nodes(Levels(S)[1]) = {LeafHash(l) : l \in S}
  BY <1>1, <1>2, SortedLeaves
<1>4. ASSUME NEW k \in 2..Top(S), NEW y \in Nodes(Levels(S)[k])
      PROVE  y[1] = "node"
  <2>1. PICK j \in Nat : j = k - 1
    OBVIOUS
  <2>2. j \in 1..Depth(Levels(S)) /\ j \in 1..n /\ j \in 1..(n - 1) /\ k = j + 1
    BY <1>1, <2>1, Height DEF Top
  <2>3. PICK f : f = Levels(S)[j]
    OBVIOUS
  <2>4. IsLevel(f) /\ Len(f) > 1 /\ Levels(S)[k] = Up(f)
    BY <1>1, <2>2, <2>3, LevelsShape, Height, LevelSteps DEF Width
  <2>5. PICK i \in 1..Len(Up(f)) : y = Up(f)[i]
    BY <2>4 DEF Nodes
  <2>6. i \in 1..((Len(f) + 1) \div 2)
    BY <2>4, UpShape
  <2> QED
    BY <2>4, <2>5, <2>6 DEF Up, Hash
<1> QED
  BY <1>3, <1>4

(* Two trees of one root have the same nodes so many levels below it.      *)
LEMMA SameNodes ==
  ASSUME NEW S \in LeafSets, NEW R \in LeafSets, Root(S) = Root(R),
         NEW m \in Nat, m <= Depth(Levels(S)), m <= Depth(Levels(R))
  PROVE  Nodes(Levels(S)[Top(S) - m]) = Nodes(Levels(R)[Top(R) - m])
<1> DEFINE Same(k) == Nodes(Levels(S)[Top(S) - k]) = Nodes(Levels(R)[Top(R) - k])
           T == {k \in Nat : k <= m => Same(k)}
<1>1. /\ Depth(Levels(S)) \in Nat /\ Top(S) = Depth(Levels(S)) + 1
      /\ Depth(Levels(R)) \in Nat /\ Top(R) = Depth(Levels(R)) + 1
  BY Height DEF Top
<1>2. 0 \in T
  <2>1. Width(S, Top(S)) = 1 /\ Width(R, Top(R)) = 1
    BY Height, SizeType
  <2>2. Nodes(Levels(S)[Top(S)]) = {Root(S)} /\ Nodes(Levels(R)[Top(R)]) = {Root(R)}
    BY <2>1, RootIsTop DEF Nodes, Width
  <2>3. Top(S) - 0 = Top(S) /\ Top(R) - 0 = Top(R)
    BY <1>1
  <2> QED
    BY <2>2, <2>3
<1>3. ASSUME NEW Q \in LeafSets, NEW k \in Nat, k < Depth(Levels(Q))
      PROVE  Nodes(Levels(Q)[Top(Q) - (k + 1)]) =
               UNION {y[2] : y \in Nodes(Levels(Q)[Top(Q) - k])}
  <2>1. PICK d \in Nat : d = Depth(Levels(Q)) /\ Top(Q) = d + 1
    BY Height DEF Top
  <2>2. PICK n \in Nat \ {0} : n = Cardinality(Q)
    BY SizeType
  <2>3. d + 1 \in 1..n
    BY <2>1, <2>2, Height
  <2>4. PICK j \in 1..d : j = d - k
    BY <1>3, <2>1
  <2>5. /\ j \in 1..(n - 1) /\ j \in 1..n
        /\ Top(Q) - (k + 1) = j /\ Top(Q) - k = j + 1
    BY <2>1, <2>3, <2>4
  <2>6. PICK f : f = Levels(Q)[j]
    OBVIOUS
  <2>7. IsLevel(f) /\ Len(f) > 1 /\ Levels(Q)[j + 1] = Up(f)
    BY <2>1, <2>2, <2>5, <2>6, LevelsShape, Height, LevelSteps DEF Width
  <2>8. Nodes(f) = UNION {y[2] : y \in Nodes(Up(f))}
    BY <2>7, UpBinds
  <2> QED
    BY <2>5, <2>6, <2>7, <2>8
<1>4. ASSUME NEW k \in Nat, k \in T
      PROVE  k + 1 \in T
  <2> SUFFICES ASSUME k + 1 <= m PROVE Same(k + 1)
    OBVIOUS
  <2>1. Same(k)
    BY <1>4
  <2>2. k < Depth(Levels(S)) /\ k < Depth(Levels(R))
    BY <1>1
  <2> QED
    BY <1>3, <2>1, <2>2
<1> HIDE DEF T
<1>5. Nat \subseteq T
  BY <1>2, <1>4, NatSets
<1>6. m \in T
  BY <1>5
<1> QED
  BY <1>6 DEF T

LEMMA NoDeeper ==
  ASSUME NEW S \in LeafSets, NEW R \in LeafSets, Root(S) = Root(R)
  PROVE  Depth(Levels(R)) <= Depth(Levels(S))
<1>1. PICK d \in Nat : d = Depth(Levels(S)) /\ Top(S) = d + 1
  BY Height DEF Top
<1>2. PICK e \in Nat : e = Depth(Levels(R)) /\ Top(R) = e + 1
  BY Height DEF Top
<1> SUFFICES ASSUME d < e PROVE FALSE
  BY <1>1, <1>2
<1>3. Nodes(Levels(S)[Top(S) - d]) = Nodes(Levels(R)[Top(R) - d])
  BY <1>1, <1>2, SameNodes
<1>4. Top(S) - d = 1 /\ Top(R) - d \in 2..Top(R)
  BY <1>1, <1>2
<1>5. PICK l \in S : TRUE
  BY DEF LeafSets
<1>6. LeafHash(l) \in Nodes(Levels(R)[Top(R) - d])
  BY <1>3, <1>4, LeafNodes
<1>7. LeafHash(l)[1] = "node"
  BY <1>4, <1>6, LeafNodes
<1> QED
  BY <1>7 DEF LeafHash

LEMMA RootBinds ==
  ASSUME NEW S \in LeafSets, NEW R \in LeafSets, Root(S) = Root(R)
  PROVE  S = R
<1>1. PICK d \in Nat : d = Depth(Levels(S)) /\ Top(S) = d + 1
  BY Height DEF Top
<1>2. PICK e \in Nat : e = Depth(Levels(R)) /\ Top(R) = e + 1
  BY Height DEF Top
<1>3. d = e
  <2>1. d <= e /\ e <= d
    BY <1>1, <1>2, NoDeeper
  <2> QED
    BY <2>1
<1>4. Nodes(Levels(S)[Top(S) - d]) = Nodes(Levels(R)[Top(R) - d])
  <2>1. d <= Depth(Levels(S)) /\ d <= Depth(Levels(R))
    BY <1>1, <1>2, <1>3
  <2> QED
    BY <2>1, SameNodes
<1>5. Top(S) - d = 1 /\ Top(R) - d = 1
  BY <1>1, <1>2, <1>3
<1>6. {LeafHash(l) : l \in S} = {LeafHash(l) : l \in R}
  BY <1>4, <1>5, LeafNodes
<1>7. \A l, k : LeafHash(l) = LeafHash(k) => l = k
  BY DEF LeafHash
<1>8. \A l \in S : l \in R
  BY <1>6, <1>7
<1>9. \A l \in R : l \in S
  BY <1>6, <1>7
<1> QED
  BY <1>8, <1>9

-----------------------------------------------------------------------------
(* Types.                                                                  *)

Typed ==
  /\ ready \in [Operators -> SUBSET Messages]
  /\ trees \in [Operators -> SUBSET Batches]
  /\ asked \in [Operators -> SUBSET Requests]
  /\ now \in Nat
  /\ capture \in Seq(Nat)
  /\ verified \in SUBSET Messages
  /\ received \in [Messages -> Nat]
  /\ validity \in Nat /\ validity <= MaxValidity

(* The steps of Next, by who takes them.                                   *)
OperatorStep ==
  \E o \in Operators :
    \/ \E m \in Messages : Accept(o, m)
    \/ Batch(o)
    \/ \E b \in Batches : Ask(o, b)

LayerZeroStep ==
  \E s \in Submitters, e \in Epochs : \E b \in AllTrees :
    \/ \E entry \in Entry(b) : SubmitProof(s, b, e, entry)
    \/ \E entries \in SUBSET Entry(b) : SubmitProofBatch(s, b, e, entries)
    \/ CacheMerkleRoot(s, b, e)

CcvStep == \E m \in Messages, e \in Epochs : Execute(m, e)

LEMMA NextCases ==
  ASSUME Next
  PROVE  OperatorStep \/ Tick \/ CommitEpoch \/ LayerZeroStep \/ CcvStep \/ Owner
BY DEF Next, OperatorStep, Contract, LayerZeroStep, CcvStep

(* The owner touches no batch, no root and no leaf.                        *)
LEMMA OwnerWrites ==
  ASSUME Owner
  PROVE  /\ UNCHANGED <<fixedVars, operatorVars, clockVars, roots, leafVars>>
         /\ \/ UNCHANGED validity
            \/ validity' \in 0..(MaxValidity + 1) /\ validity' > 0 /\ validity' <= MaxValidity
BY DEF Owner, SetEpochValidity, SetMinAcceptedEpoch, AddSubmitter, RemoveSubmitter, Halt,
       fixedVars, operatorVars, clockVars, accessVars, leafVars, ownerVars

(* A chunk of a batch is a batch.                                          *)
LEMMA ChunksType ==
  ASSUME NEW batch \in Batches
  PROVE  Chunks(batch) \subseteq Batches
BY DEF Chunks, Batches

(* One transaction on the DVN: what it caches and what it delivers.        *)
LEMMA LayerZeroEffect ==
  ASSUME Typed, LayerZeroStep
  PROVE  \E b \in AllTrees, e \in Epochs : \E entries \in SUBSET Entry(b) :
           /\ provider = "layerzero"
           /\ CachesRoot(RootOf[b], e)
           /\ \A x \in entries : AcceptsLeaf(b, x)
           /\ \/ Deliver({x.leaf : x \in entries})
              \/ entries = {} /\ UNCHANGED leafVars
           /\ UNCHANGED <<fixedVars, operatorVars, clockVars, ownerVars>>
<1>1. PICK s \in Submitters, e \in Epochs : \E b \in AllTrees :
        \/ \E entry \in Entry(b) : SubmitProof(s, b, e, entry)
        \/ \E entries \in SUBSET Entry(b) : SubmitProofBatch(s, b, e, entries)
        \/ CacheMerkleRoot(s, b, e)
  BY DEF LayerZeroStep
<1>2. PICK b \in AllTrees :
        \/ \E entry \in Entry(b) : SubmitProof(s, b, e, entry)
        \/ \E entries \in SUBSET Entry(b) : SubmitProofBatch(s, b, e, entries)
        \/ CacheMerkleRoot(s, b, e)
  BY <1>1
<1>3. CASE \E entry \in Entry(b) : SubmitProof(s, b, e, entry)
  <2>1. PICK entry \in Entry(b) : SubmitProof(s, b, e, entry)
    BY <1>3
  <2>2. {entry} \in SUBSET Entry(b) /\ {x.leaf : x \in {entry}} = {entry.leaf}
    BY <2>1
  <2> QED
    BY <2>1, <2>2 DEF SubmitProof, Open
<1>4. CASE \E entries \in SUBSET Entry(b) : SubmitProofBatch(s, b, e, entries)
  BY <1>4 DEF SubmitProofBatch, Open
<1>5. CASE CacheMerkleRoot(s, b, e)
  <2>1. {} \in SUBSET Entry(b)
    OBVIOUS
  <2> QED
    BY <1>5, <2>1 DEF CacheMerkleRoot, Open
<1> QED
  BY <1>2, <1>3, <1>4, <1>5

(* A message executed by the off-ramp.                                     *)
LEMMA CcvEffect ==
  ASSUME CcvStep
  PROVE  \E m \in Messages, e \in Epochs :
           /\ provider = "ccv"
           /\ received[m] = 0
           /\ e >= minEpoch /\ now <= capture[e] + validity
           /\ Attested(RootOf[{m}], e)
           /\ Deliver({m})
           /\ UNCHANGED <<fixedVars, operatorVars, clockVars, roots, ownerVars>>
BY DEF CcvStep, Execute

LEMMA DeliverType ==
  ASSUME Typed, NEW leaves \in SUBSET Messages, Deliver(leaves)
  PROVE  verified' \in SUBSET Messages /\ received' \in [Messages -> Nat]
BY DEF Typed, Deliver

LEMMA InitTyped == Init => Typed
<1> SUFFICES ASSUME Init PROVE Typed
  OBVIOUS
<1>1. capture \in Seq(Nat)
  BY DEF Init
<1> QED
  BY <1>1, DestinationConstants DEF Init, Typed

LEMMA OperatorTyped ==
  ASSUME Typed, OperatorStep
  PROVE  Typed'
<1> USE DEF Typed
<1>1. PICK o \in Operators :
        (\E m \in Messages : Accept(o, m)) \/ Batch(o) \/ (\E b \in Batches : Ask(o, b))
  BY DEF OperatorStep
<1>2. CASE \E m \in Messages : Accept(o, m)
  BY <1>2 DEF Accept, clockVars, leafVars, ownerVars
<1>3. CASE Batch(o)
  <2>1. ready[o] \in Batches
    BY <1>3 DEF Batch, Batches
  <2>2. Chunks(ready[o]) \subseteq Batches
    BY <2>1, ChunksType
  <2> QED
    BY <1>3, <2>2 DEF Batch, clockVars, leafVars, ownerVars
<1>4. CASE \E b \in Batches : Ask(o, b)
  <2>1. PICK b \in Batches : Ask(o, b)
    BY <1>4
  <2>2. [batch |-> b, epoch |-> Len(capture)] \in Requests
    BY LenProperties DEF Requests
  <2> QED
    BY <2>1, <2>2 DEF Ask, Suggested, clockVars, leafVars, ownerVars
<1> QED
  BY <1>1, <1>2, <1>3, <1>4

LEMMA NextTyped ==
  ASSUME Typed, [Next]_vars
  PROVE  Typed'
<1>1. CASE OperatorStep
  BY <1>1, OperatorTyped
<1>2. CASE Tick
  BY <1>2 DEF Tick, Typed, operatorVars, leafVars, ownerVars
<1>3. CASE CommitEpoch
  <2>1. capture' \in Seq(Nat)
    BY <1>3, AppendProperties DEF CommitEpoch, Typed
  <2> QED
    BY <1>3, <2>1 DEF CommitEpoch, Typed, operatorVars, leafVars, ownerVars
<1>4. CASE LayerZeroStep
  <2>1. verified' \in SUBSET Messages /\ received' \in [Messages -> Nat]
    <3>1. PICK b \in AllTrees, e \in Epochs : \E entries \in SUBSET Entry(b) :
            \/ Deliver({x.leaf : x \in entries})
            \/ UNCHANGED leafVars
      BY <1>4, LayerZeroEffect
    <3>2. PICK entries \in SUBSET Entry(b) :
            Deliver({x.leaf : x \in entries}) \/ UNCHANGED leafVars
      BY <3>1
    <3>3. {x.leaf : x \in entries} \in SUBSET Messages
      BY DEF Entry
    <3> QED
      BY <3>2, <3>3, DeliverType DEF leafVars, Typed
  <2>2. UNCHANGED <<operatorVars, clockVars, ownerVars>>
    BY <1>4, LayerZeroEffect
  <2> QED
    BY <2>1, <2>2 DEF Typed, operatorVars, clockVars, ownerVars
<1>5. CASE CcvStep
  <2>1. PICK m \in Messages :
          Deliver({m}) /\ UNCHANGED <<operatorVars, clockVars, ownerVars>>
    BY <1>5, CcvEffect
  <2>2. verified' \in SUBSET Messages /\ received' \in [Messages -> Nat]
    BY <2>1, DeliverType
  <2> QED
    BY <2>1, <2>2 DEF Typed, operatorVars, clockVars, ownerVars
<1>6. CASE Owner
  <2>1. UNCHANGED <<operatorVars, clockVars, leafVars>>
    BY <1>6, OwnerWrites
  <2>2. validity' \in Nat /\ validity' <= MaxValidity
    BY <1>6, OwnerWrites, DestinationConstants DEF Typed
  <2> QED
    BY <2>1, <2>2 DEF Typed, operatorVars, clockVars, leafVars
<1>7. CASE UNCHANGED vars
  BY <1>7 DEF vars, Typed, operatorVars, clockVars, leafVars, ownerVars
<1> QED
  BY <1>1, <1>2, <1>3, <1>4, <1>5, <1>6, <1>7, NextCases

(* Every reachable state is well typed, and no window the owner sets is    *)
(* wider than the contract's ceiling.                                      *)
THEOREM TypeCorrect == Spec => []Typed
<1>1. Init => Typed
  BY InitTyped
<1>2. Typed /\ [Next]_vars => Typed'
  BY NextTyped
<1> QED
  BY <1>1, <1>2, PTL DEF Spec

-----------------------------------------------------------------------------
(* A leaf counts once.                                                     *)

LEMMA DeliverOnce ==
  ASSUME Typed, VerifiedIsReceivedOnce,
         NEW leaves \in SUBSET Messages, leaves \cap verified = {}, Deliver(leaves)
  PROVE  VerifiedIsReceivedOnce'
<1> SUFFICES ASSUME NEW m \in Messages
             PROVE  received'[m] = IF m \in verified' THEN 1 ELSE 0
  BY DEF VerifiedIsReceivedOnce
<1>1. CASE m \in leaves
  BY <1>1 DEF Deliver, VerifiedIsReceivedOnce
<1>2. CASE m \notin leaves
  BY <1>2 DEF Deliver, VerifiedIsReceivedOnce
<1> QED
  BY <1>1, <1>2

LEMMA OnceStep ==
  ASSUME Typed, VerifiedIsReceivedOnce, [Next]_vars
  PROVE  VerifiedIsReceivedOnce'
<1>1. CASE LayerZeroStep
  <2>1. PICK b \in AllTrees, e \in Epochs : \E entries \in SUBSET Entry(b) :
          /\ \A x \in entries : AcceptsLeaf(b, x)
          /\ Deliver({x.leaf : x \in entries}) \/ UNCHANGED leafVars
    BY <1>1, LayerZeroEffect
  <2>2. PICK entries \in SUBSET Entry(b) :
          /\ \A x \in entries : AcceptsLeaf(b, x)
          /\ Deliver({x.leaf : x \in entries}) \/ UNCHANGED leafVars
    BY <2>1
  <2>3. {x.leaf : x \in entries} \in SUBSET Messages
    BY DEF Entry
  <2>4. {x.leaf : x \in entries} \cap verified = {}
    BY <2>2 DEF AcceptsLeaf
  <2> QED
    BY <2>2, <2>3, <2>4, DeliverOnce DEF leafVars, VerifiedIsReceivedOnce
<1>2. CASE CcvStep
  <2>1. PICK m \in Messages : received[m] = 0 /\ Deliver({m})
    BY <1>2, CcvEffect
  <2>2. {m} \cap verified = {}
    BY <2>1 DEF VerifiedIsReceivedOnce
  <2> QED
    BY <2>1, <2>2, DeliverOnce
<1>3. CASE UNCHANGED leafVars
  BY <1>3 DEF leafVars, VerifiedIsReceivedOnce
<1>4. OperatorStep => UNCHANGED leafVars
  BY DEF OperatorStep, Accept, Batch, Ask
<1>5. Tick \/ CommitEpoch \/ Owner => UNCHANGED leafVars
  BY OwnerWrites DEF Tick, CommitEpoch
<1>6. UNCHANGED vars => UNCHANGED leafVars
  BY DEF vars
<1> QED
  BY <1>1, <1>2, <1>3, <1>4, <1>5, <1>6, NextCases

(* A leaf is marked verified exactly when the library has received it, and *)
(* it has received it once: through single submissions, batches, repeated  *)
(* entries and refusals, of any size and in any number.                    *)
THEOREM LeafCountsOnce == Spec => []VerifiedIsReceivedOnce
<1>1. Init => VerifiedIsReceivedOnce
  BY DEF Init, VerifiedIsReceivedOnce
<1>2. Typed /\ VerifiedIsReceivedOnce /\ [Next]_vars => VerifiedIsReceivedOnce'
  BY OnceStep
<1> QED
  BY <1>1, <1>2, TypeCorrect, PTL DEF Spec

-----------------------------------------------------------------------------
(* Only a quorum of an epoch in its window is accepted.                    *)

LEMMA TimelyStep ==
  ASSUME Typed, [Next]_vars
  PROVE  [/\ \A r \in roots' \ roots : \E e \in Epochs : Timely(e) /\ Attested(r, e)
          /\ provider = "ccv" => \A m \in Messages : received'[m] > received[m] =>
               \E e \in Epochs : e >= minEpoch /\ Timely(e) /\ Attested(RootOf[{m}], e)]_vars
<1>1. CASE LayerZeroStep
  <2>1. PICK b \in AllTrees, e \in Epochs :
          provider = "layerzero" /\ CachesRoot(RootOf[b], e)
    BY <1>1, LayerZeroEffect
  <2>2. ASSUME NEW r \in roots' \ roots
        PROVE  Timely(e) /\ Attested(r, e)
    BY <2>1, <2>2 DEF CachesRoot, FreshEpoch, Timely
  <2> QED
    BY <2>1, <2>2
<1>2. CASE CcvStep
  <2>1. PICK m \in Messages, e \in Epochs :
          /\ e >= minEpoch /\ now <= capture[e] + validity
          /\ Attested(RootOf[{m}], e)
          /\ Deliver({m})
          /\ UNCHANGED roots
    BY <1>2, CcvEffect
  <2>2. capture[e] \in Nat
    BY LenProperties DEF Typed, Epochs
  <2>3. Timely(e)
    BY <2>1, <2>2, DestinationConstants DEF Timely, Typed
  <2>4. ASSUME NEW n \in Messages, received'[n] > received[n]
        PROVE  n = m
    BY <2>1, <2>4 DEF Deliver, Typed
  <2> QED
    BY <2>1, <2>3, <2>4
<1>3. CASE UNCHANGED <<roots, leafVars>>
  BY <1>3 DEF leafVars, Typed
<1>4. OperatorStep => UNCHANGED <<roots, leafVars>>
  BY DEF OperatorStep, Accept, Batch, Ask
<1>5. Tick \/ CommitEpoch \/ Owner => UNCHANGED <<roots, leafVars>>
  BY OwnerWrites DEF Tick, CommitEpoch
<1> QED
  BY <1>1, <1>2, <1>3, <1>4, <1>5, NextCases

(* A root is only cached, and a message only executed, on a quorum of an   *)
(* epoch inside the slashing window and not revoked, at whatever window    *)
(* and least epoch the owner has set.                                      *)
THEOREM OnlyTimelyIsAccepted == Spec => AcceptedInTime
<1>1. Typed /\ [Next]_vars =>
        [/\ \A r \in roots' \ roots : \E e \in Epochs : Timely(e) /\ Attested(r, e)
         /\ provider = "ccv" => \A m \in Messages : received'[m] > received[m] =>
              \E e \in Epochs : e >= minEpoch /\ Timely(e) /\ Attested(RootOf[{m}], e)]_vars
  BY TimelyStep
<1> QED
  BY <1>1, TypeCorrect, PTL DEF Spec, AcceptedInTime

-----------------------------------------------------------------------------
(* What is received was attested.                                          *)

LEMMA BatchesAreLeafSets == Batches \subseteq LeafSets
<1> SUFFICES ASSUME NEW b \in Batches PROVE b \in LeafSets
  OBVIOUS
<1>1. b \subseteq Messages /\ b # {}
  BY DEF Batches
<1>2. IsFiniteSet(Messages) /\ Messages \subseteq Nat
  BY DestinationConstants
<1>3. IsFiniteSet(b)
  BY <1>1, <1>2, FS_Subset
<1> QED
  BY <1>1, <1>2, <1>3 DEF LeafSets

(* Siblings of a tree prove only leaves of it, and one root has one set of *)
(* leaves.                                                                 *)
LEMMA TreesBind ==
  /\ \A b \in Batches : \A k \in b, l \in Messages :
       Proves(Proof(b, k).siblings, l, RootOf[b]) => l \in b
  /\ \A b, c \in Batches : RootOf[b] = RootOf[c] => b = c
<1>1. \A b \in Batches : b \in LeafSets /\ RootOf[b] = Root(b)
  BY BatchesAreLeafSets DEF RootOf
<1> QED
  BY <1>1, ProvesOne, RootBinds

AskedIsSaved     == \A o \in Operators : \A q \in asked[o] : q.batch \in trees[o]
RootsAreAttested == \A r \in roots : \E e \in Epochs : Attested(r, e)

AttestedInv ==
  /\ AskedIsSaved
  /\ RootsAreAttested
  /\ ReceivedIsAttested

(* No operator takes back a tree or a request, no epoch is taken back.     *)
Grows ==
  /\ \A o \in Operators : trees[o] \subseteq trees'[o] /\ asked[o] \subseteq asked'[o]
  /\ Epochs \subseteq Epochs'

LEMMA StepGrows ==
  ASSUME Typed, [Next]_vars
  PROVE  Grows
<1>1. CASE OperatorStep
  <2>1. Epochs' = Epochs
    BY <1>1 DEF OperatorStep, Accept, Batch, Ask, clockVars, Epochs
  <2>2. \A o \in Operators : trees[o] \subseteq trees'[o] /\ asked[o] \subseteq asked'[o]
    BY <1>1 DEF OperatorStep, Accept, Batch, Ask, Typed
  <2> QED
    BY <2>1, <2>2 DEF Grows
<1>2. CASE CommitEpoch
  <2>1. Len(capture') = Len(capture) + 1 /\ Len(capture) \in Nat
    BY <1>2, AppendProperties, LenProperties DEF CommitEpoch, Typed
  <2>2. Epochs \subseteq Epochs'
    BY <2>1 DEF Epochs
  <2> QED
    BY <1>2, <2>2 DEF CommitEpoch, Grows, operatorVars
<1>3. CASE UNCHANGED <<operatorVars, capture>>
  BY <1>3 DEF operatorVars, Grows, Epochs
<1>4. Tick \/ LayerZeroStep \/ CcvStep \/ Owner \/ UNCHANGED vars
        => UNCHANGED <<operatorVars, capture>>
  BY LayerZeroEffect, CcvEffect, OwnerWrites DEF Tick, vars, clockVars
<1> QED
  BY <1>1, <1>2, <1>3, <1>4, NextCases

(* What a quorum has asked for stays asked for.                            *)
LEMMA AttestedStays ==
  ASSUME Grows, NEW root, NEW e, Attested(root, e)
  PROVE  Attested(root, e)'
<1> DEFINE Asking == {o \in Operators : \E q \in asked[o] : q.epoch = e /\ RootOf[q.batch] = root}
<1>1. Asking \subseteq Asking' /\ Asking' \subseteq Operators
  BY DEF Grows
<1>2. IsFiniteSet(Operators)
  BY DestinationConstants
<1>3. IsFiniteSet(Asking) /\ IsFiniteSet(Asking')
  BY <1>1, <1>2, FS_Subset
<1>4. Cardinality(Asking) <= Cardinality(Asking')
  BY <1>1, <1>3, FS_Subset
<1>5. Cardinality(Asking) \in Nat /\ Cardinality(Asking') \in Nat
  BY <1>3, FS_CardinalityType
<1>6. Cardinality(Asking) >= Quorum
  BY DEF Attested
<1> HIDE DEF Asking
<1>7. Cardinality(Asking') >= Quorum
  BY <1>4, <1>5, <1>6, DestinationConstants
<1> QED
  BY <1>7 DEF Attested, Asking

(* A quorum is somebody, who saved the tree.                               *)
LEMMA AttestedIsSaved ==
  ASSUME Typed, AskedIsSaved, NEW root, NEW e, Attested(root, e)
  PROVE  \E b \in AllTrees : b \in Batches /\ RootOf[b] = root
<1> DEFINE Asking == {o \in Operators : \E q \in asked[o] : q.epoch = e /\ RootOf[q.batch] = root}
<1>1. Cardinality(Asking) >= Quorum
  BY DEF Attested
<1>2. Asking # {}
  <2>1. Quorum \in Nat \ {0}
    BY DestinationConstants
  <2> HIDE DEF Asking
  <2> QED
    BY <1>1, <2>1, FS_EmptySet
<1>3. PICK o \in Operators : \E q \in asked[o] : RootOf[q.batch] = root
  BY <1>2
<1>4. PICK q \in asked[o] : RootOf[q.batch] = root
  BY <1>3
<1>5. q.batch \in trees[o] /\ trees[o] \subseteq Batches
  BY <1>4 DEF AskedIsSaved, Typed
<1>6. q.batch \in AllTrees
  BY <1>5 DEF AllTrees
<1> QED
  BY <1>4, <1>5, <1>6

LEMMA AskedIsSavedStep ==
  ASSUME Typed, AskedIsSaved, [Next]_vars
  PROVE  AskedIsSaved'
<1>1. CASE OperatorStep
  <2>1. PICK o \in Operators :
          (\E m \in Messages : Accept(o, m)) \/ Batch(o) \/ (\E b \in Batches : Ask(o, b))
    BY <1>1 DEF OperatorStep
  <2>2. CASE (\E m \in Messages : Accept(o, m)) \/ Batch(o)
    <3>1. UNCHANGED asked
      BY <2>2 DEF Accept, Batch
    <3> QED
      BY <1>1, <3>1, StepGrows DEF Grows, AskedIsSaved
  <2>3. CASE \E b \in Batches : Ask(o, b)
    <3>1. PICK b \in Batches : Ask(o, b)
      BY <2>3
    <3>2. UNCHANGED trees /\ b \in trees[o]
      BY <3>1 DEF Ask
    <3>3. \A p \in Operators : \A q \in asked'[p] : q \in asked[p] \/ (p = o /\ q.batch = b)
      BY <3>1 DEF Ask, Suggested, Typed
    <3> QED
      BY <3>2, <3>3 DEF AskedIsSaved
  <2> QED
    BY <2>1, <2>2, <2>3
<1>2. Tick \/ CommitEpoch \/ LayerZeroStep \/ CcvStep \/ Owner \/ UNCHANGED vars
        => UNCHANGED operatorVars
  BY LayerZeroEffect, CcvEffect, OwnerWrites DEF Tick, CommitEpoch, vars
<1>3. CASE UNCHANGED operatorVars
  BY <1>3 DEF operatorVars, AskedIsSaved
<1> QED
  BY <1>1, <1>2, <1>3, NextCases

LEMMA RootsStep ==
  ASSUME Typed, RootsAreAttested, [Next]_vars
  PROVE  RootsAreAttested'
<1>1. Grows
  BY StepGrows
<1>2. SUFFICES ASSUME NEW r \in roots' \ roots
               PROVE  \E e \in Epochs : Attested(r, e)
  <2>1. \A r \in roots' : \E e \in Epochs : Attested(r, e)
    BY <1>2 DEF RootsAreAttested
  <2> QED
    BY <1>1, <2>1, AttestedStays DEF Grows, RootsAreAttested
<1>3. LayerZeroStep
  <2>1. ~ UNCHANGED roots
    BY <1>2
  <2>2. OperatorStep \/ Tick \/ CommitEpoch \/ CcvStep \/ Owner \/ UNCHANGED vars
          => UNCHANGED roots
    BY CcvEffect, OwnerWrites
       DEF OperatorStep, Accept, Batch, Ask, Tick, CommitEpoch, vars
  <2> QED
    BY <2>1, <2>2, NextCases
<1> QED
  BY <1>2, <1>3, LayerZeroEffect DEF CachesRoot

LEMMA ReceivedStep ==
  ASSUME Typed, AskedIsSaved, RootsAreAttested', ReceivedIsAttested, [Next]_vars
  PROVE  ReceivedIsAttested'
<1>1. Grows /\ AllTrees \subseteq AllTrees'
  BY StepGrows DEF Grows, AllTrees
<1> SUFFICES ASSUME NEW m \in Messages, received'[m] > 0
             PROVE  (\E b \in AllTrees, e \in Epochs : m \in b /\ Attested(RootOf[b], e))'
  BY DEF ReceivedIsAttested
<1>2. CASE received[m] > 0
  <2>1. PICK b \in AllTrees, e \in Epochs : m \in b /\ Attested(RootOf[b], e)
    BY <1>2 DEF ReceivedIsAttested
  <2>2. b \in AllTrees' /\ e \in Epochs' /\ Attested(RootOf[b], e)'
    BY <1>1, <2>1, AttestedStays DEF Grows
  <2> QED
    BY <2>1, <2>2
<1>3. CASE LayerZeroStep /\ ~ received[m] > 0
  <2>1. PICK b \in AllTrees, e \in Epochs : \E entries \in SUBSET Entry(b) :
          /\ CachesRoot(RootOf[b], e)
          /\ \A x \in entries : AcceptsLeaf(b, x)
          /\ Deliver({x.leaf : x \in entries}) \/ UNCHANGED leafVars
          /\ UNCHANGED operatorVars
    BY <1>3, LayerZeroEffect
  <2>2. PICK entries \in SUBSET Entry(b) :
          /\ \A x \in entries : AcceptsLeaf(b, x)
          /\ Deliver({x.leaf : x \in entries}) \/ UNCHANGED leafVars
    BY <2>1
  <2>3. PICK x \in entries : x.leaf = m
    BY <1>3, <2>2 DEF Deliver, leafVars
  <2>4. x.siblingsOf \in b /\ Proves(Proof(b, x.siblingsOf).siblings, m, RootOf[b])
    BY <2>2, <2>3 DEF AcceptsLeaf, Entry
  <2>5. b \in Batches
    BY DEF AllTrees, Typed
  <2>6. m \in b
    BY <2>4, <2>5, TreesBind
  <2>7. RootOf[b] \in roots'
    BY <2>1 DEF CachesRoot
  <2>8. PICK f \in Epochs' : Attested(RootOf[b], f)'
    BY <2>7 DEF RootsAreAttested
  <2> QED
    BY <1>1, <2>6, <2>8
<1>4. CASE CcvStep /\ ~ received[m] > 0
  <2>1. PICK n \in Messages, e \in Epochs : Attested(RootOf[{n}], e) /\ Deliver({n})
    BY <1>4, CcvEffect
  <2>2. n = m
    BY <1>4, <2>1 DEF Deliver
  <2>3. PICK b \in AllTrees : b \in Batches /\ RootOf[b] = RootOf[{m}]
    BY <2>1, <2>2, AttestedIsSaved
  <2>4. {m} \in Batches
    BY DEF Batches
  <2>5. m \in b
    BY <2>3, <2>4, TreesBind
  <2>6. b \in AllTrees' /\ e \in Epochs' /\ Attested(RootOf[b], e)'
    BY <1>1, <2>1, <2>2, <2>3, AttestedStays DEF Grows
  <2> QED
    BY <2>5, <2>6
<1>5. OperatorStep \/ Tick \/ CommitEpoch \/ Owner \/ UNCHANGED vars => UNCHANGED received
  BY OwnerWrites DEF OperatorStep, Accept, Batch, Ask, Tick, CommitEpoch, vars, leafVars
<1> QED
  BY <1>2, <1>3, <1>4, <1>5, NextCases

LEMMA AttestedInvStep ==
  Typed /\ AttestedInv /\ [Next]_vars => AttestedInv'
BY AskedIsSavedStep, RootsStep, ReceivedStep DEF AttestedInv

(* What the library or the application receives is a message of a batch    *)
(* that a quorum asked for under one epoch, however siblings, trees and    *)
(* epochs were combined, and whichever root stayed in the cache after its  *)
(* epoch.                                                                  *)
THEOREM OnlyAttestedIsReceived == Spec => []ReceivedIsAttested
<1>1. Init => AttestedInv
  <2>1. Init => AskedIsSaved /\ RootsAreAttested
    BY DEF Init, AskedIsSaved, RootsAreAttested
  <2>2. Init => ReceivedIsAttested
    BY DEF Init, ReceivedIsAttested
  <2> QED
    BY <2>1, <2>2 DEF AttestedInv
<1>2. AttestedInv => ReceivedIsAttested
  BY DEF AttestedInv
<1> QED
  BY <1>1, <1>2, AttestedInvStep, TypeCorrect, PTL DEF Spec

AcceptedBy(m) == {o \in Operators : m \in ready[o] \cup UNION trees[o]}

(* Nobody receives what fewer operators than a quorum have let through     *)
(* their hooks: the operators behind a root have the message in a tree of  *)
(* their own, as each signs only what it batched (sign_message).           *)
THEOREM ReceivedPassedAQuorum ==
  Spec => [](\A m \in Messages : received[m] > 0 => Cardinality(AcceptedBy(m)) >= Quorum)
<1>1. ASSUME Typed, AskedIsSaved, ReceivedIsAttested, NEW m \in Messages, received[m] > 0
      PROVE  Cardinality(AcceptedBy(m)) >= Quorum
  <2>1. PICK b \in AllTrees, e \in Epochs : m \in b /\ Attested(RootOf[b], e)
    BY <1>1 DEF ReceivedIsAttested
  <2> DEFINE Asking == {o \in Operators : \E q \in asked[o] :
                           q.epoch = e /\ RootOf[q.batch] = RootOf[b]}
  <2>2. b \in Batches
    BY <1>1 DEF AllTrees, Typed
  <2>3. ASSUME NEW o \in Asking
        PROVE  o \in AcceptedBy(m)
    <3>1. PICK q \in asked[o] : RootOf[q.batch] = RootOf[b]
      OBVIOUS
    <3>2. q.batch \in Batches /\ q.batch \in trees[o]
      BY <1>1 DEF Typed, Requests, AskedIsSaved
    <3>3. q.batch = b
      BY <2>2, <3>1, <3>2, TreesBind
    <3> QED
      BY <2>1, <3>2, <3>3 DEF AcceptedBy
  <2>4. Cardinality(Asking) >= Quorum
    BY <2>1 DEF Attested
  <2>5. IsFiniteSet(AcceptedBy(m))
    BY DestinationConstants, FS_Subset DEF AcceptedBy
  <2>6. /\ Cardinality(Asking) \in Nat /\ Cardinality(AcceptedBy(m)) \in Nat
        /\ Cardinality(Asking) <= Cardinality(AcceptedBy(m))
    <3>1. Asking \subseteq AcceptedBy(m)
      BY <2>3
    <3> HIDE DEF Asking
    <3>2. IsFiniteSet(Asking)
      BY <2>5, <3>1, FS_Subset
    <3> QED
      BY <2>5, <3>1, <3>2, FS_Subset, FS_CardinalityType
  <2> QED
    BY <2>4, <2>6, DestinationConstants
<1>2. Spec => [](AskedIsSaved /\ ReceivedIsAttested)
  <2>1. Init => AttestedInv
    BY DEF Init, AskedIsSaved, RootsAreAttested, ReceivedIsAttested, AttestedInv
  <2>2. AttestedInv => AskedIsSaved /\ ReceivedIsAttested
    BY DEF AttestedInv
  <2> QED
    BY <2>1, <2>2, AttestedInvStep, TypeCorrect, PTL DEF Spec
<1>3. Typed /\ AskedIsSaved /\ ReceivedIsAttested
        => \A m \in Messages : received[m] > 0 => Cardinality(AcceptedBy(m)) >= Quorum
  BY <1>1
<1> QED
  BY <1>2, <1>3, TypeCorrect, PTL

-----------------------------------------------------------------------------
(* Trees, of any number of leaves.                                         *)

(* Whatever the leaves are, the siblings of one prove it and no other, its *)
(* path is no other leaf's, and no other leaves have the root: padding a   *)
(* level with its own last node makes no two trees one (merkle_root,       *)
(* generate_proof, verify_proof).                                          *)
THEOREM EveryTreeAgrees == \A S \in LeafSets : TreeAgrees(S)
<1> SUFFICES ASSUME NEW S \in LeafSets PROVE TreeAgrees(S)
  OBVIOUS
<1>1. \A k \in S, l \in Messages \cup 1..MaxLeaves :
        Proves(Proof(S, k).siblings, l, Root(S)) <=> k = l
  BY ProvesOne
<1>2. \A k, l \in S : Proof(S, k).path = Proof(S, l).path <=> k = l
  BY PathTells
<1>3. ASSUME NEW T \in Batches \cup ({S \ {l} : l \in S} \ {{}}), Root(T) = Root(S)
      PROVE  T = S
  <2>1. CASE T \in Batches
    BY <1>3, <2>1, BatchesAreLeafSets, RootBinds
  <2>2. CASE T \notin Batches
    <3>1. T \subseteq S /\ T # {}
      BY <2>2
    <3>2. IsFiniteSet(S) /\ S \subseteq Nat
      BY DEF LeafSets
    <3>3. T \in LeafSets
      BY <3>1, <3>2, FS_Subset DEF LeafSets
    <3> QED
      BY <1>3, <3>3, RootBinds
  <2> QED
    BY <2>1, <2>2
<1> QED
  BY <1>1, <1>2, <1>3 DEF TreeAgrees

(* So the trees that operators save and the trees of any size up to the    *)
(* one looked at do.                                                       *)
THEOREM TreesAlwaysAgree == Spec => []TreeProofsAgree
<1>1. SmallTreesAgree
  <2> SUFFICES ASSUME NEW n \in 1..MaxLeaves PROVE TreeAgrees(1..n)
    BY DEF SmallTreesAgree
  <2>1. n \in Nat \ {0} /\ IsFiniteSet(1..n)
    BY FS_Interval, DestinationConstants
  <2>2. 1..n \in LeafSets
    BY <2>1 DEF LeafSets
  <2> QED
    BY <2>2, EveryTreeAgrees
<1>2. Typed => \A b \in AllTrees : TreeAgrees(b)
  <2>1. Typed => AllTrees \subseteq Batches
    BY DEF Typed, AllTrees
  <2> QED
    BY <2>1, BatchesAreLeafSets, EveryTreeAgrees
<1>3. Typed => TreeProofsAgree
  BY <1>1, <1>2 DEF TreeProofsAgree
<1> QED
  BY <1>3, TypeCorrect, PTL

-----------------------------------------------------------------------------
(* Destination implements Bridge.                                          *)

EpochsFit == Len(capture) > 0 /\ Len(capture) <= MaxEpoch

LEMMA EpochsFitStep ==
  ASSUME Typed, EpochsFit, [Next]_vars
  PROVE  EpochsFit'
<1>1. CASE CommitEpoch
  <2>1. Len(capture') = Len(capture) + 1 /\ Len(capture) \in Nat
    BY <1>1, AppendProperties, LenProperties DEF CommitEpoch, Typed
  <2> QED
    BY <1>1, <2>1, DestinationConstants DEF CommitEpoch, EpochsFit
<1>2. CASE UNCHANGED capture
  BY <1>2 DEF EpochsFit
<1>3. OperatorStep \/ Tick \/ LayerZeroStep \/ CcvStep \/ Owner \/ UNCHANGED vars
        => UNCHANGED capture
  BY LayerZeroEffect, CcvEffect, OwnerWrites
     DEF OperatorStep, Accept, Batch, Ask, Tick, vars, clockVars
<1> QED
  BY <1>1, <1>2, <1>3, NextCases

(* A quorum for a root has vouched for the batch that has the root.        *)
LEMMA AttestedIsBacked ==
  ASSUME Typed, EpochsFit, NEW b \in Batches, NEW e \in Epochs, Attested(RootOf[b], e),
         NEW m \in b
  PROVE  Promise!Backed(m)
<1> DEFINE Asking == {o \in Operators : \E q \in asked[o] : q.epoch = e /\ RootOf[q.batch] = RootOf[b]}
<1>1. ASSUME NEW o \in Asking
      PROVE  [batch |-> b, epoch |-> e] \in asked[o]
  <2>1. PICK q \in asked[o] : q.epoch = e /\ RootOf[q.batch] = RootOf[b]
    OBVIOUS
  <2>2. q \in Requests
    BY DEF Typed
  <2>3. q.batch = b
    BY <2>1, <2>2, TreesBind DEF Requests
  <2>4. q = [batch |-> b, epoch |-> e]
    BY <2>1, <2>2, <2>3 DEF Requests
  <2> QED
    BY <2>4
<1>2. Asking \in SUBSET Operators /\ Cardinality(Asking) >= Quorum
  BY DEF Attested
<1>3. b \in SUBSET Messages
  BY DEF Batches
<1>4. e \in 1..MaxEpoch
  <2>1. Len(capture) \in Nat
    BY LenProperties DEF Typed
  <2> QED
    BY <2>1, DestinationConstants DEF Epochs, EpochsFit
<1> HIDE DEF Asking
<1> QED
  BY <1>1, <1>2, <1>3, <1>4 DEF Promise!Backed

Accepted(o) == ready[o] \cup UNION trees[o]

LEMMA OperatorImplements ==
  ASSUME Typed, EpochsFit, OperatorStep
  PROVE  [Promise!Next]_Promise!vars
<1>1. PICK o \in Operators :
        (\E m \in Messages : Accept(o, m)) \/ Batch(o) \/ (\E b \in Batches : Ask(o, b))
  BY DEF OperatorStep
<1>2. ASSUME NEW m \in Messages, Accept(o, m)
      PROVE  Promise!Accept(o, m)
  <2>1. UNCHANGED <<trees, asked, received>>
    BY <1>2 DEF Accept, leafVars
  <2>2. ready' = [ready EXCEPT ![o] = @ \cup {m}]
    BY <1>2 DEF Accept
  <2>3. \A p \in Operators :
          Accepted(p)' = IF p = o THEN Accepted(p) \cup {m} ELSE Accepted(p)
    BY <2>1, <2>2 DEF Typed, Accepted
  <2>4. [p \in Operators |-> Accepted(p)]'
          = [[p \in Operators |-> Accepted(p)] EXCEPT ![o] = @ \cup {m}]
    BY <2>3
  <2> QED
    BY <2>1, <2>4 DEF Promise!Accept, Accepted
<1>3. CASE Batch(o)
  <2>1. UNCHANGED <<asked, received>>
    BY <1>3 DEF Batch, leafVars
  <2>2. /\ ready' = [ready EXCEPT ![o] = {}]
        /\ trees' = [trees EXCEPT ![o] = @ \cup Chunks(ready[o])]
    BY <1>3 DEF Batch
  <2>3. UNION Chunks(ready[o]) = ready[o]
    BY DEF Chunks
  <2>4. \A p \in Operators : Accepted(p)' = Accepted(p)
    <3>1. Accepted(o)' = Accepted(o)
      <4>1. ready'[o] = {} /\ trees'[o] = trees[o] \cup Chunks(ready[o])
        BY <2>2 DEF Typed
      <4> QED
        BY <2>3, <4>1 DEF Accepted
    <3>2. \A p \in Operators \ {o} : ready'[p] = ready[p] /\ trees'[p] = trees[p]
      BY <2>2 DEF Typed
    <3> QED
      BY <3>1, <3>2 DEF Accepted
  <2>5. [p \in Operators |-> Accepted(p)]' = [p \in Operators |-> Accepted(p)]
    BY <2>4
  <2> QED
    BY <2>1, <2>5 DEF Promise!vars, Accepted
<1>4. ASSUME NEW b \in Batches, Ask(o, b)
      PROVE  [Promise!Next]_Promise!vars
  <2>1. PICK e \in Suggested :
          asked' = [asked EXCEPT ![o] = @ \cup {[batch |-> b, epoch |-> e]}]
    BY <1>4 DEF Ask
  <2>2. UNCHANGED <<ready, trees, received>> /\ b \in trees[o]
    BY <1>4 DEF Ask, leafVars
  <2>3. e \in 1..MaxEpoch
    <3>1. Len(capture) \in Nat
      BY LenProperties DEF Typed
    <3> QED
      BY <3>1, DestinationConstants DEF Suggested, EpochsFit
  <2>4. Promise!Vouch(o, b, e)
    BY <2>1, <2>2 DEF Promise!Vouch
  <2>5. b \in SUBSET Messages
    BY DEF Batches
  <2> QED
    BY <2>3, <2>4, <2>5 DEF Promise!Next
<1> QED
  BY <1>1, <1>2, <1>3, <1>4 DEF Promise!Next

LEMMA DeliverImplements ==
  ASSUME Typed, NEW S \in SUBSET Messages, Deliver(S), UNCHANGED operatorVars,
         \A m \in S : received[m] = 0 /\ Promise!Backed(m)
  PROVE  [Promise!Next]_Promise!vars
<1>1. received' = [m \in Messages |-> IF m \in S THEN 1 ELSE received[m]]
  BY DEF Deliver, Typed
<1>2. UNCHANGED <<ready, trees, asked>>
  BY DEF operatorVars
<1>3. Promise!Receive(S)
  BY <1>1, <1>2 DEF Promise!Receive
<1> QED
  BY <1>3 DEF Promise!Next

LEMMA BridgeStep ==
  ASSUME Typed, EpochsFit, RootsAreAttested, VerifiedIsReceivedOnce, [Next]_vars
  PROVE  [Promise!Next]_Promise!vars
<1>1. CASE LayerZeroStep
  <2>1. PICK b \in AllTrees, e \in Epochs : \E entries \in SUBSET Entry(b) :
          /\ CachesRoot(RootOf[b], e)
          /\ \A x \in entries : AcceptsLeaf(b, x)
          /\ Deliver({x.leaf : x \in entries}) \/ UNCHANGED leafVars
          /\ UNCHANGED operatorVars
    BY <1>1, LayerZeroEffect
  <2>2. PICK entries \in SUBSET Entry(b) :
          /\ \A x \in entries : AcceptsLeaf(b, x)
          /\ Deliver({x.leaf : x \in entries}) \/ UNCHANGED leafVars
    BY <2>1
  <2>3. b \in Batches
    BY DEF AllTrees, Typed
  <2>4. PICK f \in Epochs : Attested(RootOf[b], f)
    BY <2>1 DEF CachesRoot, RootsAreAttested
  <2>5. ASSUME NEW x \in entries
        PROVE  x.leaf \in Messages /\ received[x.leaf] = 0 /\ Promise!Backed(x.leaf)
    <3>1. /\ x.leaf \in Messages /\ x.siblingsOf \in b /\ x.leaf \notin verified
          /\ Proves(Proof(b, x.siblingsOf).siblings, x.leaf, RootOf[b])
      BY <2>2 DEF AcceptsLeaf, Entry
    <3>2. x.leaf \in b
      BY <2>3, <3>1, TreesBind
    <3> QED
      BY <2>3, <2>4, <3>1, <3>2, AttestedIsBacked DEF VerifiedIsReceivedOnce
  <2>6. CASE Deliver({x.leaf : x \in entries})
    <3>1. {x.leaf : x \in entries} \in SUBSET Messages
      BY <2>5
    <3> QED
      BY <2>1, <2>5, <2>6, <3>1, DeliverImplements
  <2>7. CASE UNCHANGED leafVars
    BY <2>1, <2>7 DEF leafVars, operatorVars, Promise!vars
  <2> QED
    BY <2>2, <2>6, <2>7
<1>2. CASE CcvStep
  <2>1. PICK m \in Messages, e \in Epochs :
          /\ received[m] = 0 /\ Attested(RootOf[{m}], e)
          /\ Deliver({m}) /\ UNCHANGED operatorVars
    BY <1>2, CcvEffect
  <2>2. {m} \in Batches
    BY DEF Batches
  <2>3. Promise!Backed(m)
    BY <2>1, <2>2, AttestedIsBacked
  <2> QED
    BY <2>1, <2>3, DeliverImplements
<1>3. CASE UNCHANGED <<operatorVars, received>>
  BY <1>3 DEF operatorVars, Promise!vars
<1>4. Tick \/ CommitEpoch \/ Owner \/ UNCHANGED vars => UNCHANGED <<operatorVars, received>>
  BY OwnerWrites DEF Tick, CommitEpoch, vars, leafVars
<1> QED
  BY <1>1, <1>2, <1>3, <1>4, NextCases, OperatorImplements

(* Operators, trees and contracts make a bridge: a message is received     *)
(* once at most, and only when a quorum of operators had accepted it and   *)
(* vouched for one batch with it under one epoch, however many operators,  *)
(* messages, epochs and submitters there are.                              *)
THEOREM OperatorsAndContractsBridge == Spec => BridgeSpec
<1>1. Init => Promise!Init
  <2> SUFFICES ASSUME Init PROVE Promise!Init
    OBVIOUS
  <2>1. \A o \in Operators : ready[o] \cup UNION trees[o] = {}
    BY DEF Init
  <2> QED
    BY <2>1 DEF Init, Promise!Init
<1>2. Init => EpochsFit /\ RootsAreAttested
  BY DestinationConstants DEF Init, EpochsFit, RootsAreAttested
<1>3. Typed /\ EpochsFit /\ [Next]_vars => EpochsFit'
  BY EpochsFitStep
<1>4. Typed /\ RootsAreAttested /\ [Next]_vars => RootsAreAttested'
  BY RootsStep
<1>5. Typed /\ EpochsFit /\ RootsAreAttested /\ VerifiedIsReceivedOnce /\ [Next]_vars
        => [Promise!Next]_Promise!vars
  BY BridgeStep
<1> QED
  BY <1>1, <1>2, <1>3, <1>4, <1>5, TypeCorrect, LeafCountsOnce, PTL
     DEF Spec, BridgeSpec, Promise!Spec

=============================================================================
