---------------------------- MODULE IntegerLemmas ----------------------------
(***************************************************************************)
(* Facts about integers that the proofs need: least elements, and from     *)
(* them induction, stated about a set of numbers instead of a predicate.   *)
(***************************************************************************)
EXTENDS Integers, FiniteSets, FiniteSetTheorems, TLAPS

(* A finite set of integers has a least element.  Without one, counting    *)
(* the elements up to m maps the set one-to-one into 2 .. its size.        *)
LEMMA LeastElement ==
  ASSUME NEW S \in SUBSET Int, S # {}, IsFiniteSet(S)
  PROVE  \E m \in S : \A n \in S : m =< n
<1> SUFFICES ASSUME \A m \in S : \E n \in S : n < m
             PROVE  FALSE
  OBVIOUS
<1> DEFINE Upto(m) == {n \in S : n =< m}
           rank == [m \in S |-> Cardinality(Upto(m))]
           size == Cardinality(S)
<1>1. size \in Nat \ {0} /\ Cardinality(S) = size
  BY FS_CardinalityType, FS_EmptySet
<1>2. \A m \in S : IsFiniteSet(Upto(m)) /\ rank[m] \in 1 .. size
  <2> TAKE m \in S
  <2>1. m \in Upto(m) /\ Upto(m) \in SUBSET S
    OBVIOUS
  <2>2. IsFiniteSet(Upto(m)) /\ Cardinality(Upto(m)) =< size
    BY <2>1, FS_Subset
  <2>3. Cardinality(Upto(m)) \in Nat \ {0}
    BY <2>1, <2>2, FS_CardinalityType, FS_EmptySet
  <2> HIDE DEF Upto, size
  <2> QED
    BY <1>1, <2>2, <2>3
<1>3. \A m, n \in S : n < m => rank[n] < rank[m]
  <2> SUFFICES ASSUME NEW m \in S, NEW n \in S, n < m
               PROVE  rank[n] < rank[m]
    OBVIOUS
  <2>1. Upto(n) \subseteq Upto(m)
    <3> SUFFICES ASSUME NEW k \in S, k =< n PROVE k =< m
      OBVIOUS
    <3>1. k \in Int /\ m \in Int /\ n \in Int
      OBVIOUS
    <3> QED
      BY <3>1
  <2>2. m \in Upto(m) /\ m \notin Upto(n)
    <3>1. m \in Int /\ n \in Int
      OBVIOUS
    <3> QED
      BY <3>1
  <2>3. rank[n] = Cardinality(Upto(n)) /\ rank[m] = Cardinality(Upto(m))
    OBVIOUS
  <2> HIDE DEF Upto, rank, size
  <2>4. rank[n] =< rank[m] /\ rank[n] # rank[m]
    BY <1>2, <2>1, <2>2, <2>3, FS_Subset
  <2>5. rank[n] \in Int /\ rank[m] \in Int
    BY <1>1, <1>2
  <2> QED
    BY <2>4, <2>5
<1>4. rank \in [S -> 1 .. size]
  BY <1>2
<1> HIDE DEF Upto, rank, size
<1>5. rank \in [S -> 2 .. size]
  <2> SUFFICES ASSUME NEW m \in S PROVE rank[m] \in 2 .. size
    BY <1>4
  <2>1. PICK n \in S : n < m
    OBVIOUS
  <2> QED
    BY <1>1, <1>3, <1>4, <2>1
<1>6. IsFiniteSet(2 .. size) /\ Cardinality(2 .. size) < size
  <2>1. 2 \in Int /\ size \in Int
    BY <1>1
  <2> QED
    BY <1>1, <2>1, FS_Interval
<1>7. PICK m \in S, n \in S : m # n /\ rank[m] = rank[n]
  <2> DEFINE Ranks == 2 .. size
  <2>1. IsFiniteSet(Ranks) /\ Cardinality(Ranks) < Cardinality(S) /\ rank \in [S -> Ranks]
    BY <1>1, <1>5, <1>6
  <2> HIDE DEF Ranks
  <2> QED
    BY <2>1, FS_PigeonHole
<1>8. rank[m] \in Int /\ (m < n \/ n < m)
  BY <1>1, <1>4, <1>7
<1>9. CASE m < n
  BY <1>3, <1>7, <1>8, <1>9
<1>10. CASE n < m
  BY <1>3, <1>7, <1>8, <1>10
<1> QED
  BY <1>8, <1>9, <1>10

(* Every number up to n is in S if 0 is and each is followed by the next:  *)
(* else take the least that is not.                                        *)
LEMMA InductionUpto ==
  ASSUME NEW n \in Nat, NEW S, 0 \in S,
         \A i \in 1 .. n : i - 1 \in S => i \in S
  PROVE  0 .. n \subseteq S
<1> DEFINE missing == {i \in 0 .. n : i \notin S}
<1> SUFFICES ASSUME missing # {} PROVE FALSE
  OBVIOUS
<1>1. missing \in SUBSET Int /\ IsFiniteSet(missing)
  <2>1. IsFiniteSet(0 .. n) /\ missing \in SUBSET (0 .. n)
    BY FS_Interval
  <2> QED
    BY <2>1, FS_Subset
<1>2. PICK i \in missing : \A j \in missing : i =< j
  <2> HIDE DEF missing
  <2> QED
    BY <1>1, LeastElement
<1>3. i \in 1 .. n /\ i - 1 \in 0 .. n /\ ~(i =< i - 1)
  BY <1>2
<1>4. i - 1 \in S
  BY <1>2, <1>3
<1> QED
  BY <1>2, <1>3, <1>4
=============================================================================
