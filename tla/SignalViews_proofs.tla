------------------------- MODULE SignalViews_proofs -------------------------
(***************************************************************************)
(* What the queries of a symbol's history return, for a buffer of any      *)
(* capacity; what a promised record depends on; which files are refused,   *)
(* and which feeds derived from an accepted file are accepted.             *)
(***************************************************************************)
EXTENDS PromisedLog, FiniteSetTheorems, SequenceTheorems, WellFoundedInduction, TLAPS

\* A non-empty set of naturals has a least element.
LEMMA LeastNatural ==
  ASSUME NEW S, S # {}, \A x \in S : x \in Nat
  PROVE  \E m \in S : \A x \in S : m <= x
<1>1. IsWellFoundedOn(OpToRel(<, Nat), Nat)
  BY NatLessThanWellFounded
<1>2. PICK m \in S : \A y \in S : <<y, m>> \notin OpToRel(<, Nat)
  <2>1. S \subseteq Nat
    OBVIOUS
  <2> QED BY <1>1, <2>1, WFMin
<1>3. ASSUME NEW x \in S, x < m
      PROVE  <<x, m>> \in OpToRel(<, Nat)
  <2>1. <<x, m>> \in Nat \X Nat /\ <<x, m>>[1] < <<x, m>>[2]
    BY <1>3
  <2> QED BY <2>1, Zenon DEF OpToRel
<1>4. \A x \in S : ~(x < m)
  BY <1>2, <1>3, Zenon
<1>5. \A x \in S : m <= x
  BY <1>4
<1> QED BY <1>5

\* Every number up to the size of a set of positions is the rank of one.
LEMMA RankExists ==
  ASSUME NEW N \in Nat, NEW P, \A q \in P : q \in 1..N,
         NEW n \in 1..Cardinality(P)
  PROVE  \E p \in P : Rank(P, p) = n
<1> DEFINE Upto(k) == { q \in P : q <= k }
           Enough == { k \in Nat : Cardinality(Upto(k)) >= n }
<1>a. IsFiniteSet(P) /\ Cardinality(P) \in Nat
  <2>1. IsFiniteSet(1..N) /\ P \subseteq 1..N
    BY FS_Interval
  <2> QED BY <2>1, FS_Subset, FS_CardinalityType
<1>0. \A k \in Nat : IsFiniteSet(Upto(k)) /\ Cardinality(Upto(k)) \in Nat
  BY <1>a, FS_Subset, FS_CardinalityType
<1>1. N \in Enough
  <2>1. Upto(N) = P
    OBVIOUS
  <2> QED BY <2>1, <1>a
<1>2. PICK k \in Enough : \A x \in Enough : k <= x
  <2>1. \A x \in Enough : x \in Nat
    OBVIOUS
  <2> HIDE DEF Enough
  <2> QED BY <1>1, <2>1, LeastNatural
<1>3. k \in Nat /\ k # 0 /\ Cardinality(Upto(k)) >= n
  <2>1. Upto(0) = {}
    OBVIOUS
  <2>2. 0 \notin Enough
    BY <2>1, FS_EmptySet
  <2> QED BY <1>2, <2>2
<1>4. k - 1 \in Nat /\ Cardinality(Upto(k - 1)) < n
  <2>1. k - 1 \in Nat /\ k - 1 \notin Enough
    BY <1>2, <1>3
  <2> QED BY <2>1, <1>0
<1>5. k \in P
  <2> SUFFICES ASSUME k \notin P PROVE FALSE
    OBVIOUS
  <2>1. Upto(k) = Upto(k - 1)
    BY <1>3
  <2> QED BY <2>1, <1>3, <1>4, <1>0
<1>6. Cardinality(Upto(k)) = n
  <2>1. \A q \in P : q <= k <=> q <= k - 1 \/ q = k
    BY <1>3
  <2>2. Upto(k) = Upto(k - 1) \cup {k}
    BY <2>1, <1>5, Zenon
  <2>3. k \notin Upto(k - 1)
    BY <1>3
  <2> HIDE DEF Upto
  <2>4. Cardinality(Upto(k)) = Cardinality(Upto(k - 1)) + 1
    BY <2>2, <2>3, <1>0, <1>4, FS_AddElement
  <2> QED BY <2>4, <1>0, <1>3, <1>4
<1> QED BY <1>5, <1>6, Zenon DEF Rank

\* Ranks grow with positions, and stay within the size of the set.
LEMMA RankOrder ==
  ASSUME NEW N \in Nat, NEW P, \A q \in P : q \in 1..N
  PROVE  /\ \A p \in P : /\ Rank(P, p) \in 1..Cardinality(P)
                         /\ Cardinality({ q \in P : q < p }) = Rank(P, p) - 1
         /\ \A p, q \in P : p < q => Rank(P, p) < Rank(P, q)
         /\ \A p, q \in P : Rank(P, p) = Rank(P, q) => p = q
<1> DEFINE Upto(p) == { q \in P : q <= p }
           Below(p) == { q \in P : q < p }
<1>1. IsFiniteSet(P) /\ Cardinality(P) \in Nat
  <2>1. IsFiniteSet(1..N) /\ P \subseteq 1..N
    BY FS_Interval
  <2> QED BY <2>1, FS_Subset, FS_CardinalityType
<1>2. \A p \in P : /\ IsFiniteSet(Upto(p)) /\ IsFiniteSet(Below(p))
                   /\ Cardinality(Upto(p)) \in Nat /\ Cardinality(Below(p)) \in Nat
                   /\ Cardinality(Upto(p)) <= Cardinality(P)
  BY <1>1, FS_Subset, FS_CardinalityType
<1>3. ASSUME NEW p \in P
      PROVE  Cardinality(Upto(p)) = Cardinality(Below(p)) + 1
  <2>1. \A q \in P : q <= p <=> q < p \/ q = p
    OBVIOUS
  <2>2. Upto(p) = Below(p) \cup {p}
    BY <2>1, Zenon
  <2>3. p \notin Below(p)
    OBVIOUS
  <2> HIDE DEF Upto, Below
  <2> QED BY <2>2, <2>3, <1>2, FS_AddElement
<1>4. ASSUME NEW p \in P, NEW q \in P, p < q
      PROVE  Cardinality(Upto(p)) <= Cardinality(Below(q))
  <2>1. Upto(p) \subseteq Below(q)
    BY <1>4
  <2> HIDE DEF Upto, Below
  <2> QED BY <2>1, <1>2, FS_Subset
<1>5. \A p \in P : Rank(P, p) = Cardinality(Upto(p))
  BY Zenon DEF Rank
<1> HIDE DEF Upto
<1>6. \A p \in P : Rank(P, p) \in 1..Cardinality(P) /\ Cardinality(Below(p)) = Rank(P, p) - 1
  <2> TAKE p \in P
  <2>1. /\ Cardinality(Upto(p)) = Cardinality(Below(p)) + 1 /\ Rank(P, p) = Cardinality(Upto(p))
        /\ Cardinality(Below(p)) \in Nat /\ Cardinality(Upto(p)) <= Cardinality(P)
    BY <1>2, <1>3, <1>5
  <2> HIDE DEF Below
  <2> QED BY <2>1, <1>1
<1>7. \A p, q \in P : p < q => Rank(P, p) < Rank(P, q)
  <2> SUFFICES ASSUME NEW p \in P, NEW q \in P, p < q
               PROVE  Rank(P, p) < Rank(P, q)
    OBVIOUS
  <2>1. Cardinality(Upto(q)) = Cardinality(Below(q)) + 1
    BY <1>3
  <2>2. Cardinality(Upto(p)) <= Cardinality(Below(q))
    BY <1>4
  <2> HIDE DEF Below
  <2> QED BY <2>1, <2>2, <1>2, <1>5
<1>8. \A p, q \in P : Rank(P, p) = Rank(P, q) => p = q
  <2> SUFFICES ASSUME NEW p \in P, NEW q \in P, Rank(P, p) = Rank(P, q), p # q
               PROVE  FALSE
    OBVIOUS
  <2>1. p < q \/ q < p
    OBVIOUS
  <2>2. Rank(P, p) \in Nat /\ Rank(P, q) \in Nat
    BY <1>2, <1>5
  <2> QED BY <2>1, <2>2, <1>7
<1> QED BY <1>6, <1>7, <1>8

-----------------------------------------------------------------------------
\* Listed arranges elements of s, one for each position of P.
LEMMA ListedElements ==
  ASSUME NEW s, NEW N \in Nat, NEW P, \A q \in P : q \in 1..N
  PROVE  /\ Cardinality(P) \in Nat
         /\ DOMAIN Listed(s, P) = 1..Cardinality(P)
         /\ \A n \in 1..Cardinality(P) : \E p \in P : Listed(s, P)[n] = s[p]
<1>1. Cardinality(P) \in Nat
  <2>1. IsFiniteSet(1..N) /\ P \subseteq 1..N
    BY FS_Interval
  <2> QED BY <2>1, FS_Subset, FS_CardinalityType
<1>2. ASSUME NEW n \in 1..Cardinality(P)
      PROVE  \E p \in P : Listed(s, P)[n] = s[p]
  <2>1. \E p \in P : Rank(P, p) = n
    BY RankExists
  <2>2. (CHOOSE p \in P : Rank(P, p) = n) \in P
    BY <2>1, Zenon
  <2> QED BY <2>2, Zenon DEF Listed
<1> QED BY <1>1, <1>2, Zenon DEF Listed

\* A sequence listed from a typed sequence has the same type.
LEMMA ListedType ==
  ASSUME NEW T, NEW s \in Seq(T), NEW P, \A q \in P : q \in DOMAIN s
  PROVE  Listed(s, P) \in Seq(T) /\ Len(Listed(s, P)) = Cardinality(P)
<1>1. Len(s) \in Nat /\ \A q \in P : q \in 1..Len(s)
  OBVIOUS
<1>2. /\ Cardinality(P) \in Nat
      /\ DOMAIN Listed(s, P) = 1..Cardinality(P)
      /\ \A n \in 1..Cardinality(P) : \E p \in P : Listed(s, P)[n] = s[p]
  BY <1>1, ListedElements
<1>3. \A n \in 1..Cardinality(P) : Listed(s, P)[n] \in T
  BY <1>2
<1> DEFINE F(n) == s[CHOOSE p \in P : Rank(P, p) = n]
<1>4. Listed(s, P) = [n \in 1..Cardinality(P) |-> F(n)]
  BY Zenon DEF Listed
<1> HIDE DEF F
<1>5. Listed(s, P) \in [1..Cardinality(P) -> T]
  <2>1. \A n \in 1..Cardinality(P) : Listed(s, P)[n] = F(n)
    BY <1>4, Zenon
  <2>2. \A n \in 1..Cardinality(P) : F(n) \in T
    BY <1>3, <2>1, Zenon
  <2> QED BY <1>4, <2>2, Zenon
<1> QED BY <1>2, <1>5, SeqDef

\* The element of a listing that stands at a rank is the one with that rank.
LEMMA ListedAtRank ==
  ASSUME NEW s, NEW N \in Nat, NEW P, \A q \in P : q \in 1..N
  PROVE  \A p \in P : /\ Rank(P, p) \in DOMAIN Listed(s, P)
                      /\ Listed(s, P)[Rank(P, p)] = s[p]
<1> TAKE p \in P
<1>1. DOMAIN Listed(s, P) = 1..Cardinality(P)
  BY ListedElements
<1>2. Rank(P, p) \in 1..Cardinality(P) /\ \A q \in P : Rank(P, q) = Rank(P, p) => q = p
  BY RankOrder
<1>3. (CHOOSE q \in P : Rank(P, q) = Rank(P, p)) = p
  BY <1>2, Zenon
<1> QED BY <1>1, <1>2, <1>3, Zenon DEF Listed

\* Listing the first positions of a sequence gives its beginning.
LEMMA ListedFirst ==
  ASSUME NEW s, NEW N \in Nat
  PROVE  /\ Listed(s, 1..N) = [i \in 1..N |-> s[i]]
         /\ \A i \in 1..N : Rank(1..N, i) = i
<1>1. Cardinality(1..N) = N
  BY FS_Interval
<1>2. \A i \in 1..N : Rank(1..N, i) = i
  <2> TAKE i \in 1..N
  <2>1. { q \in 1..N : q <= i } = 1..i
    OBVIOUS
  <2>2. Cardinality(1..i) = i
    BY FS_Interval
  <2> QED BY <2>1, <2>2, Zenon DEF Rank
<1>3. DOMAIN Listed(s, 1..N) = 1..N
  BY <1>1, ListedElements
<1>4. \A i \in 1..N : Listed(s, 1..N)[i] = s[i]
  <2>1. \A i \in 1..N : Listed(s, 1..N)[Rank(1..N, i)] = s[i]
    BY ListedAtRank
  <2> QED BY <1>2, <2>1, Zenon
<1> DEFINE F(n) == s[CHOOSE p \in 1..N : Rank(1..N, p) = n]
<1>5. Listed(s, 1..N) = [n \in 1..N |-> F(n)]
  BY <1>1, Zenon DEF Listed
<1> HIDE DEF F
<1>6. Listed(s, 1..N) = [i \in 1..N |-> s[i]]
  <2>1. \A i \in 1..N : F(i) = s[i]
    BY <1>4, <1>5, Zenon
  <2> QED BY <1>5, <2>1
<1> QED BY <1>2, <1>6

\* Listing every position of a sequence gives the sequence.
LEMMA ListedAll ==
  ASSUME NEW s, NEW N \in Nat, s = [i \in 1..N |-> s[i]]
  PROVE  Listed(s, 1..N) = s /\ \A i \in 1..N : Rank(1..N, i) = i
BY ListedFirst

\* The elements of s at the positions in P, as a set.
At(s, P) == { s[p] : p \in P }

LEMMA AtSize ==
  ASSUME NEW s, NEW P, IsFiniteSet(P), \A p, q \in P : s[p] = s[q] => p = q
  PROVE  IsFiniteSet(At(s, P)) /\ Cardinality(At(s, P)) = Cardinality(P)
<1> DEFINE f == [p \in P |-> s[p]]
<1>1. f \in Bijection(P, At(s, P))
  BY DEF At, Bijection, Injection, IsInjective, Surjection
<1>2. ExistsBijection(P, At(s, P))
  BY <1>1, Zenon DEF ExistsBijection
<1> QED BY <1>2, FS_Bijection

LEMMA AtFinite ==
  ASSUME NEW s, NEW P, IsFiniteSet(P)
  PROVE  /\ IsFiniteSet(At(s, P))
         /\ Cardinality(At(s, P)) \in Nat
         /\ Cardinality(At(s, P)) <= Cardinality(P)
<1> DEFINE f == [p \in P |-> s[p]]
<1>1. f \in Surjection(P, At(s, P))
  BY Zenon DEF At, Surjection
<1>2. IsFiniteSet(At(s, P)) /\ Cardinality(At(s, P)) <= Cardinality(P)
  <2> HIDE DEF f
  <2> QED BY <1>1, FS_Surjection
<1> QED BY <1>2, FS_CardinalityType

\* Every element of a listing is the one with its rank.
LEMMA ListedPlaces ==
  ASSUME NEW s, NEW N \in Nat, NEW P, \A q \in P : q \in 1..N
  PROVE  \A n \in DOMAIN Listed(s, P) : \E p \in P : Rank(P, p) = n /\ Listed(s, P)[n] = s[p]
<1>1. DOMAIN Listed(s, P) = 1..Cardinality(P)
  BY ListedElements
<1>2. ASSUME NEW n \in 1..Cardinality(P)
      PROVE  \E p \in P : Rank(P, p) = n /\ Listed(s, P)[n] = s[p]
  <2>1. \E p \in P : Rank(P, p) = n
    BY RankExists
  <2> QED BY <2>1, Zenon DEF Listed
<1> QED BY <1>1, <1>2

\* A listing holds the elements at its positions, each once.
LEMMA ListedRows ==
  ASSUME NEW s, NEW N \in Nat, NEW P, \A q \in P : q \in 1..N
  PROVE  /\ { Listed(s, P)[n] : n \in DOMAIN Listed(s, P) } = At(s, P)
         /\ \A m, n \in DOMAIN Listed(s, P) : m # n =>
              \E p, q \in P : p # q /\ Listed(s, P)[m] = s[p] /\ Listed(s, P)[n] = s[q]
<1>1. \A n \in DOMAIN Listed(s, P) : \E p \in P : Rank(P, p) = n /\ Listed(s, P)[n] = s[p]
  BY ListedPlaces
<1>2. \A p \in P : Rank(P, p) \in DOMAIN Listed(s, P) /\ Listed(s, P)[Rank(P, p)] = s[p]
  BY ListedAtRank
<1>3. ASSUME NEW m \in DOMAIN Listed(s, P), NEW n \in DOMAIN Listed(s, P), m # n
      PROVE  \E p, q \in P : p # q /\ Listed(s, P)[m] = s[p] /\ Listed(s, P)[n] = s[q]
  <2>1. PICK p \in P : Rank(P, p) = m /\ Listed(s, P)[m] = s[p]
    BY <1>1
  <2>2. PICK q \in P : Rank(P, q) = n /\ Listed(s, P)[n] = s[q]
    BY <1>1
  <2>3. p # q
    BY <1>3, <2>1, <2>2
  <2> QED BY <2>1, <2>2, <2>3, Zenon
<1>4. \A e : e \in { Listed(s, P)[n] : n \in DOMAIN Listed(s, P) } <=> e \in At(s, P)
  BY <1>1, <1>2, Zenon DEF At
<1> QED BY <1>3, <1>4, Zenon

\* An input set keeps up to MaxInputs keys that differ as they are.
LEMMA FromOrderedKeysKeeps ==
  ASSUME NEW keys, NEW N \in Nat, keys = [i \in 1..N |-> keys[i]], N <= MaxInputs,
         \A i, j \in 1..N : keys[i] = keys[j] => i = j
  PROVE  FromOrderedKeys(keys) = keys
<1> DEFINE first == { i \in DOMAIN keys : \A j \in DOMAIN keys : keys[j] = keys[i] => i <= j }
           kept == { i \in first : Rank(first, i) <= MaxInputs }
<1>1. DOMAIN keys = 1..N
  BY Zenon
<1>2. first = 1..N
  <2>1. \A i \in 1..N : \A j \in 1..N : keys[j] = keys[i] => i <= j
    OBVIOUS
  <2> QED BY <1>1, <2>1, Zenon
<1> HIDE DEF first
<1>3. \A i \in 1..N : Rank(1..N, i) <= MaxInputs
  <2>1. \A i \in 1..N : Rank(1..N, i) = i
    BY ListedAll
  <2> QED BY <2>1, InputsAssumption
<1>4. kept = 1..N
  BY <1>2, <1>3, Zenon
<1>5. FromOrderedKeys(keys) = Listed(keys, kept)
  BY Zenon DEF FromOrderedKeys, first
<1> QED BY <1>4, <1>5, ListedAll

-----------------------------------------------------------------------------
\* The observations a view takes are typed, and each one is in the history.
LEMMA RecentMatchingElements ==
  ASSUME NEW recent \in Seq(Observation)
  PROVE  /\ RecentMatching(recent) \in Seq(Observation)
         /\ \A n \in DOMAIN RecentMatching(recent) :
              \E p \in DOMAIN recent : RecentMatching(recent)[n] = recent[p]
<1> DEFINE matching == { p \in DOMAIN recent : Relevant(recent[p]) }
           last == LastPositions(matching, Clamp(SignalWindow, 1, MaxInputs))
<1>1. \A q \in last : q \in DOMAIN recent
  BY Zenon DEF LastPositions
<1>2. RecentMatching(recent) = Listed(recent, last)
  BY Zenon DEF RecentMatching
<1> HIDE DEF last
<1>3. Len(recent) \in Nat /\ \A q \in last : q \in 1..Len(recent)
  BY <1>1
<1>4. /\ DOMAIN Listed(recent, last) = 1..Cardinality(last)
      /\ \A n \in 1..Cardinality(last) : \E p \in last : Listed(recent, last)[n] = recent[p]
  BY <1>3, ListedElements
<1>5. Listed(recent, last) \in Seq(Observation)
  BY <1>1, ListedType
<1> QED BY <1>1, <1>2, <1>4, <1>5, Zenon

\* An input set holds keys it was given.
LEMMA FromOrderedKeysElements ==
  ASSUME NEW keys \in Seq(Nat)
  PROVE  /\ FromOrderedKeys(keys) \in Seq(Nat)
         /\ \A n \in DOMAIN FromOrderedKeys(keys) :
              \E i \in DOMAIN keys : FromOrderedKeys(keys)[n] = keys[i]
<1> DEFINE first == { i \in DOMAIN keys : \A j \in DOMAIN keys : keys[j] = keys[i] => i <= j }
           kept == { i \in first : Rank(first, i) <= MaxInputs }
<1>1. \A q \in kept : q \in DOMAIN keys
  BY Zenon
<1>2. FromOrderedKeys(keys) = Listed(keys, kept)
  BY Zenon DEF FromOrderedKeys
<1> HIDE DEF kept
<1>3. Len(keys) \in Nat /\ \A q \in kept : q \in 1..Len(keys)
  BY <1>1
<1>4. /\ DOMAIN Listed(keys, kept) = 1..Cardinality(kept)
      /\ \A n \in 1..Cardinality(kept) : \E p \in kept : Listed(keys, kept)[n] = keys[p]
  BY <1>3, ListedElements
<1>5. Listed(keys, kept) \in Seq(Nat)
  BY <1>1, ListedType
<1> QED BY <1>1, <1>2, <1>4, <1>5, Zenon

\* A window that is not empty has an observation no other one comes after.
LEMMA MaxObservationExists ==
  ASSUME NEW N \in Nat \ {0}, NEW obs, DOMAIN obs = 1..N,
         \A i \in 1..N : obs[i].received_time \in Nat /\ obs[i].seq \in Nat /\ obs[i].key \in Nat
  PROVE  /\ \E i \in DOMAIN obs : MaxObservation(obs) = obs[i]
         /\ \A i \in DOMAIN obs :
              ~Precedes(ObservationKey(MaxObservation(obs)), ObservationKey(obs[i]))
<1> DEFINE After(i, j) == Precedes(ObservationKey(obs[i]), ObservationKey(obs[j]))
           HasMax(k) == \E i \in 1..k : \A j \in 1..k : ~After(i, j)
           Bad == { k \in 1..N : ~HasMax(k) }
<1>1. N \in Nat /\ N # 0 /\ DOMAIN obs = 1..N
  OBVIOUS
<1>2. \A i, j, k \in 1..N :
        /\ ~After(i, i)
        /\ After(i, j) => ~After(j, i)
        /\ After(i, j) /\ ~After(k, j) => ~After(k, i)
  BY DEF Precedes, ObservationKey
<1> HIDE DEF After
<1>3. HasMax(1)
  BY <1>1, <1>2
<1>4. ASSUME NEW k \in 1..N, k # 1, HasMax(k - 1)
      PROVE  HasMax(k)
  <2>1. PICK i \in 1..(k - 1) : \A j \in 1..(k - 1) : ~After(i, j)
    BY <1>4
  <2>2. CASE After(i, k)
    <3>1. \A j \in 1..k : ~After(k, j)
      BY <2>1, <2>2, <1>2, <1>1
    <3> QED BY <3>1, <1>1
  <2>3. CASE ~After(i, k)
    <3>1. \A j \in 1..k : ~After(i, j)
      BY <2>1, <2>3, <1>1
    <3> QED BY <3>1, <2>1, <1>1
  <2> QED BY <2>2, <2>3
<1> HIDE DEF HasMax
<1>5. HasMax(N)
  <2> SUFFICES ASSUME ~HasMax(N) PROVE FALSE
    OBVIOUS
  <2>1. PICK k \in Bad : \A x \in Bad : k <= x
    <3>1. Bad # {} /\ \A x \in Bad : x \in Nat
      BY <1>1
    <3> HIDE DEF Bad
    <3> QED BY <3>1, LeastNatural
  <2>2. k \in 1..N /\ ~HasMax(k) /\ k # 1
    BY <1>3
  <2>3. k - 1 \in 1..N /\ k - 1 \notin Bad
    BY <2>1, <2>2, <1>1
  <2> QED BY <2>2, <2>3, <1>4
<1>6. \E i \in DOMAIN obs : \A j \in DOMAIN obs : ~After(i, j)
  BY <1>5, <1>1, Zenon DEF HasMax
<1>7. \E o \in { obs[i] : i \in DOMAIN obs } :
        \A i \in DOMAIN obs : ~Precedes(ObservationKey(o), ObservationKey(obs[i]))
  BY <1>6, Zenon DEF After
<1> QED BY <1>7, Zenon DEF MaxObservation

-----------------------------------------------------------------------------
\* Every signal answers -1, 0 or 1, whatever its window holds.
LEMMA SignalValueType == \A obs : SignalValue(obs) \in {-1, 0, 1}
<1> TAKE obs
<1>1. Signal.kind \in {"last-feature-sentiment", "windowed-feature-sentiment",
                       "windowed-zscore", "vol-adjusted-momentum"}
  BY ViewAssumption DEF SignalConfigs
<1>2. \A x : Signum(x) \in {-1, 0, 1}
  BY Zenon DEF Signum
<1>3. \A s, t : ZScoreSignal(s, t) \in {-1, 0, 1}
  BY <1>2, Zenon DEF ZScoreSignal
<1>4. \A s, f, w, m, d : MomentumSignal(s, f, w, m, d) \in {-1, 0, 1}
  BY Zenon DEF MomentumSignal
<1>5. CASE Signal.kind \in {"last-feature-sentiment", "windowed-feature-sentiment"}
  <2>1. SignalValue(obs) = Signum(NumberOf(obs, 1) - NumberOf(obs, -1))
    BY <1>5 DEF SignalValue
  <2> QED BY <2>1, <1>2, Zenon
<1>6. CASE Signal.kind = "windowed-zscore"
  <2>1. SignalValue(obs) = ZScoreSignal(ScoresOf(obs), Signal.threshold)
    BY <1>6 DEF SignalValue
  <2> QED BY <2>1, <1>3, Zenon
<1>7. CASE Signal.kind = "vol-adjusted-momentum"
  <2>1. SignalValue(obs) = MomentumSignal(ScoresOf(obs), Clamp(Signal.fast, 1, SlowWindow),
                             SlowWindow, Signal.min_trend, Signal.divisor)
    BY <1>7 DEF SignalValue
  <2> QED BY <2>1, <1>4, Zenon
<1> QED BY <1>1, <1>5, <1>6, <1>7

\* A signal looks at one observation at least, and at no more than a view holds.
LEMMA WindowIsBounded == Clamp(SignalWindow, 1, MaxInputs) \in 1..MaxInputs
<1>1. \A x \in Int : Clamp(x, 1, MaxInputs) \in 1..MaxInputs
  BY InputsAssumption DEF Clamp
<1>2. Signal \in SignalConfigs
  BY ViewAssumption
<1>3. SignalWindow \in Int
  <2>1. CASE Signal \in [kind : {"last-feature-sentiment"}]
    BY <2>1 DEF SignalWindow
  <2>2. CASE Signal \in [kind : {"windowed-feature-sentiment"}, window : Nat]
    BY <2>2 DEF SignalWindow
  <2>3. CASE Signal \in [kind : {"windowed-zscore"}, window : Nat, threshold : Int]
    BY <2>3 DEF SignalWindow
  <2>4. CASE Signal \in [kind : {"vol-adjusted-momentum"}, fast : Nat, slow : Nat,
                         min_trend : Int, divisor : Int]
    <3>1. Signal.kind = "vol-adjusted-momentum" /\ Signal.slow \in Nat
      BY <2>4
    <3>2. SlowWindow \in Int
      BY <1>1, <3>1, InputsAssumption DEF SlowWindow
    <3>3. SignalWindow = SlowWindow
      BY <3>1 DEF SignalWindow
    <3> QED BY <3>2, <3>3
  <2> QED BY <1>2, <2>1, <2>2, <2>3, <2>4 DEF SignalConfigs
<1> QED BY <1>1, <1>3

\* What an evaluation answers with: typed values, and keys out of the history.
Snapshot ==
  [ signal_value : {-1, 0, 1}, inputs : Seq(Nat), max_time : Nat, max_seq : Nat,
    max_key : Nat \cup {Absent} ]

LEMMA EvaluateElements ==
  ASSUME NEW recent \in Seq(Observation)
  PROVE  /\ Evaluate(recent) \in Snapshot
         /\ \A k \in DOMAIN Evaluate(recent).inputs :
              \E i \in DOMAIN recent : Evaluate(recent).inputs[k] = recent[i].key
<1> DEFINE obs == RecentMatching(recent)
           keys == [i \in DOMAIN obs |-> obs[i].key]
<1>1. obs \in Seq(Observation)
  BY RecentMatchingElements
<1>2. \A n \in DOMAIN obs : \E p \in DOMAIN recent : obs[n] = recent[p]
  BY RecentMatchingElements
<1>3. CASE obs = <<>>
  <2>1. Evaluate(recent) = EmptySnapshot
    BY <1>3, Zenon DEF Evaluate
  <2> QED BY <2>1 DEF EmptySnapshot, Snapshot
<1>4. CASE obs # <<>>
  <2> HIDE DEF obs
  <2>1. \A i \in DOMAIN obs : /\ obs[i].key \in Nat
                              /\ obs[i].received_time \in Nat
                              /\ obs[i].seq \in Nat
    <3>1. \A i \in DOMAIN obs : obs[i] \in Observation
      BY <1>1
    <3> QED BY <3>1 DEF Observation
  <2>2. keys \in Seq(Nat) /\ DOMAIN keys = DOMAIN obs
    BY <1>1, <2>1
  <2>3. PICK i \in DOMAIN obs : MaxObservation(obs) = obs[i]
    <3>1. Len(obs) \in Nat \ {0} /\ DOMAIN obs = 1..Len(obs)
      BY <1>1, <1>4
    <3> QED BY <2>1, <3>1, MaxObservationExists
  <2>4. /\ FromOrderedKeys(keys) \in Seq(Nat)
        /\ \A n \in DOMAIN FromOrderedKeys(keys) :
             \E j \in DOMAIN keys : FromOrderedKeys(keys)[n] = keys[j]
    BY <2>2, FromOrderedKeysElements
  <2>5. Evaluate(recent) =
          [ signal_value |-> SignalValue(obs),
            inputs       |-> FromOrderedKeys(keys),
            max_time     |-> obs[i].received_time,
            max_seq      |-> obs[i].seq,
            max_key      |-> obs[i].key ]
    BY <1>4, <2>3, Zenon DEF Evaluate, SnapshotOf, obs
  <2>6. \A j \in DOMAIN keys : keys[j] = obs[j].key
    OBVIOUS
  <2> HIDE DEF keys
  <2>7. Evaluate(recent) \in Snapshot
    BY <2>1, <2>3, <2>4, <2>5, SignalValueType DEF Snapshot
  <2>8. ASSUME NEW k \in DOMAIN Evaluate(recent).inputs
        PROVE  \E p \in DOMAIN recent : Evaluate(recent).inputs[k] = recent[p].key
    <3>1. Evaluate(recent).inputs = FromOrderedKeys(keys)
      BY <2>5
    <3>2. PICK j \in DOMAIN keys : Evaluate(recent).inputs[k] = keys[j]
      BY <3>1, <2>4
    <3>3. PICK p \in DOMAIN recent : obs[j] = recent[p]
      BY <1>2, <2>2, <3>2
    <3> QED BY <2>2, <2>6, <3>2, <3>3
  <2> QED BY <2>7, <2>8
<1> QED BY <1>3, <1>4

-----------------------------------------------------------------------------
(***************************************************************************)
(* Rows in an order, and the record that a set of rows determines: the     *)
(* operators of AsOfReplay with the rows and the order as arguments.       *)
(***************************************************************************)
KeyBy(o, e) == IF o = "ReceivedTime" THEN ReplayKey(e) ELSE ObservedKey(e)

EarlierBy(o, e, f) == Precedes(KeyBy(o, e), KeyBy(o, f))

EarlierRows(o, S, e) == { f \in S : EarlierBy(o, f, e) }

RowsInOrder(o, S) ==
  [ n \in 1..Cardinality(S) |-> CHOOSE e \in S : Cardinality(EarlierRows(o, S, e)) = n - 1 ]

LatestBy(o, S, n) == { e \in S : Cardinality({ f \in S : EarlierBy(o, e, f) }) < n }

VisibleBy(o, rows, p) ==
  { e \in rows : UpdatesSignalState(e) /\ e.symbol = p.symbol /\ EarlierBy(o, e, p) }

CitedFrom(o, visible) ==
  RowsInOrder(o, LatestBy(o, { e \in LatestBy(o, visible, MaxInputs) : Relevant(e) },
                             Clamp(SignalWindow, 1, MaxInputs)))

LastOf(cited) ==
  CHOOSE e \in { cited[i] : i \in DOMAIN cited } :
    \A i \in DOMAIN cited : cited[i] = e \/ ReceivedBefore(cited[i], e)

RecordFrom(cited, p) ==
  [ key          |-> EventKey(p),
    time         |-> p.received_time,
    seq          |-> p.seq,
    symbol       |-> SymbolIdOf[p.symbol],
    signal_value |-> IF cited = <<>> THEN 0 ELSE SignalValue(cited),
    inputs       |-> [i \in DOMAIN cited |-> EventKey(cited[i])],
    max_time     |-> IF cited = <<>> THEN 0 ELSE LastOf(cited).received_time,
    max_seq      |-> IF cited = <<>> THEN 0 ELSE LastOf(cited).seq,
    max_key      |-> IF cited = <<>> THEN Absent ELSE EventKey(LastOf(cited)) ]

RecordBy(o, rows, p) == RecordFrom(CitedFrom(o, VisibleBy(o, rows, p)), p)

\* Finitely many rows, told apart by their ids.
Apart(S) ==
  /\ IsFiniteSet(S)
  /\ \A e \in S : e \in Event
  /\ \A e, f \in S : e # f => e.id # f.id

LEMMA EarlierIsOrder ==
  ASSUME NEW o
  PROVE  /\ \A e \in Event : ~EarlierBy(o, e, e)
         /\ \A e, f \in Event : EarlierBy(o, e, f) => ~EarlierBy(o, f, e)
         /\ \A e, f, g \in Event : EarlierBy(o, e, f) /\ EarlierBy(o, f, g) => EarlierBy(o, e, g)
         /\ \A e, f \in Event : e.id # f.id => EarlierBy(o, e, f) \/ EarlierBy(o, f, e)
<1> DEFINE K(e) == KeyBy(o, e)
<1>1. \A e \in Event : /\ K(e)[1] \in Nat /\ K(e)[2] \in Nat /\ K(e)[3] \in Nat
                       /\ K(e)[3] = e.id
  BY EventsAssumption DEF Event, KeyBy, ReplayKey, ObservedKey
<1> HIDE DEF K
<1>2. \A e, f : EarlierBy(o, e, f) <=> Precedes(K(e), K(f))
  BY Zenon DEF EarlierBy, K
<1>3. \A e \in Event : ~Precedes(K(e), K(e))
  BY <1>1 DEF Precedes
<1>4. \A e, f \in Event : Precedes(K(e), K(f)) => ~Precedes(K(f), K(e))
  BY <1>1 DEF Precedes
<1>5. \A e, f, g \in Event : Precedes(K(e), K(f)) /\ Precedes(K(f), K(g)) => Precedes(K(e), K(g))
  BY <1>1 DEF Precedes
<1>6. \A e, f \in Event : e.id # f.id => Precedes(K(e), K(f)) \/ Precedes(K(f), K(e))
  BY <1>1 DEF Precedes
<1> QED BY <1>2, <1>3, <1>4, <1>5, <1>6, Zenon

LEMMA ApartSubset ==
  ASSUME NEW S, Apart(S), NEW T, \A e \in T : e \in S
  PROVE  Apart(T) /\ Cardinality(T) \in Nat /\ Cardinality(T) <= Cardinality(S)
<1>1. T \subseteq S /\ IsFiniteSet(S)
  BY DEF Apart
<1>2. IsFiniteSet(T) /\ Cardinality(T) \in Nat /\ Cardinality(T) <= Cardinality(S)
  BY <1>1, FS_Subset, FS_CardinalityType
<1> QED BY <1>2, Zenon DEF Apart

\* The rows before a row: more of them the later the row is, and never all.
LEMMA EarlierRowsGrow ==
  ASSUME NEW o, NEW S, Apart(S)
  PROVE  /\ \A e \in S : Cardinality(EarlierRows(o, S, e)) \in 0..(Cardinality(S) - 1)
         /\ \A e, f \in S : EarlierBy(o, e, f) =>
              Cardinality(EarlierRows(o, S, e)) < Cardinality(EarlierRows(o, S, f))
         /\ \A e, f \in S :
              Cardinality(EarlierRows(o, S, e)) = Cardinality(EarlierRows(o, S, f)) => e = f
<1> DEFINE B(e) == EarlierRows(o, S, e)
<1>1. IsFiniteSet(S) /\ Cardinality(S) \in Nat /\ \A e \in S : e \in Event
  BY FS_CardinalityType DEF Apart
<1>2. \A e : B(e) \in SUBSET S
  BY DEF EarlierRows
<1>3. \A e \in S : e \notin B(e)
  BY <1>1, EarlierIsOrder, Zenon DEF EarlierRows
<1>4. \A e : IsFiniteSet(B(e)) /\ Cardinality(B(e)) \in Nat
  BY <1>1, <1>2, FS_Subset, FS_CardinalityType
<1>5. ASSUME NEW e \in S
      PROVE  Cardinality(B(e)) \in 0..(Cardinality(S) - 1)
  <2>1. Cardinality(B(e)) <= Cardinality(S) /\ Cardinality(B(e)) # Cardinality(S)
    BY <1>1, <1>2, <1>3, FS_Subset
  <2> QED BY <2>1, <1>1, <1>4
<1>6. ASSUME NEW e \in S, NEW f \in S, EarlierBy(o, e, f)
      PROVE  Cardinality(B(e)) < Cardinality(B(f))
  <2>1. e \in B(f)
    BY <1>6, Zenon DEF EarlierRows
  <2>2. B(e) \in SUBSET B(f)
    BY <1>1, <1>6, EarlierIsOrder, Zenon DEF EarlierRows
  <2>3. Cardinality(B(e)) <= Cardinality(B(f)) /\ Cardinality(B(e)) # Cardinality(B(f))
    BY <2>1, <2>2, <1>3, <1>4, FS_Subset
  <2> QED BY <2>3, <1>4
<1>7. ASSUME NEW e \in S, NEW f \in S, Cardinality(B(e)) = Cardinality(B(f)), e # f
      PROVE  FALSE
  <2>1. EarlierBy(o, e, f) \/ EarlierBy(o, f, e)
    BY <1>1, <1>7, EarlierIsOrder, Zenon DEF Apart
  <2>2. ~(Cardinality(B(e)) < Cardinality(B(f))) /\ ~(Cardinality(B(f)) < Cardinality(B(e)))
    BY <1>4, <1>7
  <2> QED BY <2>1, <2>2, <1>6, Zenon
<1> QED BY <1>5, <1>6, <1>7, Zenon

\* Every place up to the number of rows is taken by one row.
LEMMA PlacesAreTaken ==
  ASSUME NEW o, NEW S, Apart(S)
  PROVE  /\ Cardinality(S) \in Nat
         /\ DOMAIN RowsInOrder(o, S) = 1..Cardinality(S)
         /\ \A n \in 1..Cardinality(S) :
              /\ RowsInOrder(o, S)[n] \in S
              /\ Cardinality(EarlierRows(o, S, RowsInOrder(o, S)[n])) = n - 1
         /\ \A e \in S : /\ Cardinality(EarlierRows(o, S, e)) + 1 \in 1..Cardinality(S)
                         /\ RowsInOrder(o, S)[Cardinality(EarlierRows(o, S, e)) + 1] = e
<1> DEFINE N == Cardinality(S)
           C(e) == Cardinality(EarlierRows(o, S, e))
           c == [e \in S |-> C(e)]
           at(n) == CHOOSE e \in S : C(e) = n - 1
<1>1. IsFiniteSet(S) /\ N \in Nat
  BY FS_CardinalityType DEF Apart
<1>2. /\ \A e \in S : C(e) \in 0..(N - 1)
      /\ \A e, f \in S : C(e) = C(f) => e = f
  BY EarlierRowsGrow
<1>3. RowsInOrder(o, S) = [n \in 1..N |-> at(n)]
  BY Zenon DEF RowsInOrder
<1> HIDE DEF C
<1>4. c \in Injection(S, 0..(N - 1))
  BY <1>2, Zenon DEF Injection, IsInjective
<1>5. IsFiniteSet(0..(N - 1)) /\ Cardinality(0..(N - 1)) = N
  BY <1>1, FS_Interval
<1>6. c \in Surjection(S, 0..(N - 1))
  <2> HIDE DEF c, N
  <2> QED BY <1>1, <1>4, <1>5, FS_Injection DEF N
<1>7. \A n \in 1..N : \E e \in S : C(e) = n - 1
  <2>1. \A k \in 0..(N - 1) : \E e \in S : c[e] = k
    BY <1>6, Zenon DEF Surjection
  <2>2. \A n \in 1..N : n - 1 \in 0..(N - 1)
    BY <1>1
  <2> QED BY <2>1, <2>2, Zenon
<1>8. \A n \in 1..N : at(n) \in S /\ C(at(n)) = n - 1
  BY <1>7, Zenon
<1>9. ASSUME NEW e \in S
      PROVE  C(e) + 1 \in 1..N /\ at(C(e) + 1) = e
  <2>1. C(e) + 1 \in 1..N /\ (C(e) + 1) - 1 = C(e)
    BY <1>1, <1>2
  <2>2. at(C(e) + 1) \in S /\ C(at(C(e) + 1)) = C(e)
    BY <2>1, <1>8
  <2> HIDE DEF at
  <2> QED BY <2>1, <2>2, <1>2, Zenon
<1> HIDE DEF at, N
<1>10. DOMAIN RowsInOrder(o, S) = 1..N /\ \A n \in 1..N : RowsInOrder(o, S)[n] = at(n)
  BY <1>3, Zenon
<1> QED BY <1>1, <1>8, <1>9, <1>10, Zenon DEF C, N

\* T holds rows of S, and with a row all the earlier ones: it is where S begins.
Begins(o, T, S) ==
  /\ \A e \in T : e \in S
  /\ \A e \in T : \A f \in S : EarlierBy(o, f, e) => f \in T

LEMMA OrderBeginsWith ==
  ASSUME NEW o, NEW S, Apart(S), NEW T, Begins(o, T, S)
  PROVE  /\ Cardinality(T) \in Nat /\ Cardinality(T) <= Cardinality(S)
         /\ \A n \in 1..Cardinality(S) : RowsInOrder(o, S)[n] \in T <=> n <= Cardinality(T)
         /\ \A n \in 1..Cardinality(T) : RowsInOrder(o, S)[n] = RowsInOrder(o, T)[n]
<1> DEFINE N == Cardinality(S)
           M == Cardinality(T)
           s == RowsInOrder(o, S)
           t == RowsInOrder(o, T)
<1>0. \A e \in T : e \in S /\ \A f \in S : EarlierBy(o, f, e) => f \in T
  BY Zenon DEF Begins
<1>1. Apart(T) /\ M \in Nat /\ M <= N
  BY <1>0, ApartSubset
<1>2. N \in Nat /\ \A n \in 1..N : s[n] \in S /\ Cardinality(EarlierRows(o, S, s[n])) = n - 1
  BY PlacesAreTaken
<1>3. \A e \in S : /\ Cardinality(EarlierRows(o, S, e)) + 1 \in 1..N
                   /\ s[Cardinality(EarlierRows(o, S, e)) + 1] = e
  BY PlacesAreTaken
<1>4. \A n \in 1..M : t[n] \in T /\ Cardinality(EarlierRows(o, T, t[n])) = n - 1
  BY <1>1, PlacesAreTaken
<1>5. \A e \in T : /\ Cardinality(EarlierRows(o, T, e)) \in 0..(M - 1)
                   /\ EarlierRows(o, T, e) = EarlierRows(o, S, e)
  <2>1. \A e \in T : Cardinality(EarlierRows(o, T, e)) \in 0..(M - 1)
    BY <1>1, EarlierRowsGrow
  <2>2. \A e \in T : EarlierRows(o, T, e) = EarlierRows(o, S, e)
    BY <1>0 DEF EarlierRows
  <2> QED BY <2>1, <2>2
<1> HIDE DEF N, M, s, t
<1>6. ASSUME NEW n \in 1..M
      PROVE  s[n] = t[n]
  <2>1. t[n] \in T /\ t[n] \in S /\ Cardinality(EarlierRows(o, S, t[n])) = n - 1
    BY <1>0, <1>4, <1>5
  <2>2. s[(n - 1) + 1] = t[n]
    BY <2>1, <1>3
  <2> QED BY <2>2, <1>1
<1>7. ASSUME NEW n \in 1..N, n <= M
      PROVE  s[n] \in T
  BY <1>1, <1>4, <1>6, <1>7
<1>8. ASSUME NEW n \in 1..N, s[n] \in T
      PROVE  n <= M
  <2>1. Cardinality(EarlierRows(o, S, s[n])) \in 0..(M - 1)
    BY <1>5, <1>8
  <2> QED BY <2>1, <1>1, <1>2
<1> QED BY <1>1, <1>6, <1>7, <1>8 DEF N, M, s, t

\* What a record cites is visible to its prediction.
LEMMA CitedAreVisible ==
  ASSUME NEW o, NEW rows, Apart(rows), NEW p
  PROVE  \A k \in DOMAIN CitedFrom(o, VisibleBy(o, rows, p)) :
           CitedFrom(o, VisibleBy(o, rows, p))[k] \in VisibleBy(o, rows, p)
<1> DEFINE V == VisibleBy(o, rows, p)
           L == LatestBy(o, { e \in LatestBy(o, V, MaxInputs) : Relevant(e) },
                            Clamp(SignalWindow, 1, MaxInputs))
<1>1. \A e \in L : e \in V
  BY Zenon DEF LatestBy
<1>2. \A e \in V : e \in rows
  BY Zenon DEF VisibleBy
<1>3. CitedFrom(o, V) = RowsInOrder(o, L)
  BY Zenon DEF CitedFrom
<1> HIDE DEF L, V
<1>4. Apart(L)
  BY <1>1, <1>2, ApartSubset
<1>5. /\ DOMAIN RowsInOrder(o, L) = 1..Cardinality(L)
      /\ \A n \in 1..Cardinality(L) : RowsInOrder(o, L)[n] \in L
  BY <1>4, PlacesAreTaken
<1> QED BY <1>1, <1>3, <1>5, Zenon DEF V

-----------------------------------------------------------------------------
(***************************************************************************)
(* What the promise of a replay says of a log, for every feed and both     *)
(* orders: a log is the sequence of the records of the predictions in      *)
(* their order, and a record is a function of the rows visible to its      *)
(* prediction.  The checks, the sweep and the generator are proved from    *)
(* these facts.                                                            *)
(***************************************************************************)

(***************************************************************************)
(* The promise computes with its own copies of the operators of Events,    *)
(* SignalMath and SignalViews: they are the same.                          *)
(***************************************************************************)
LEMMA SameEvents ==
  ASSUME NEW feed, NEW by
  PROVE  /\ \A e : /\ Replay(feed, by)!EventKey(e) = EventKey(e)
                   /\ Replay(feed, by)!UpdatesSignalState(e) <=> UpdatesSignalState(e)
                   /\ Replay(feed, by)!IsPrediction(e) <=> IsPrediction(e)
                   /\ Replay(feed, by)!PayloadOk(e) <=> PayloadOk(e)
         /\ \A e, f : /\ Replay(feed, by)!ReceivedBefore(e, f) <=> ReceivedBefore(e, f)
                      /\ Replay(feed, by)!Before(e, f) <=> EarlierBy(by, e, f)
         /\ \A S : Replay(feed, by)!Cardinality(S) = Cardinality(S)
<1>1. \A e : /\ Replay(feed, by)!EventKey(e) = EventKey(e)
             /\ Replay(feed, by)!UpdatesSignalState(e) <=> UpdatesSignalState(e)
             /\ Replay(feed, by)!IsPrediction(e) <=> IsPrediction(e)
             /\ Replay(feed, by)!PayloadOk(e) <=> PayloadOk(e)
  BY Zenon DEF Replay!EventKey, EventKey, Replay!UpdatesSignalState, UpdatesSignalState,
     Replay!FeatureRoles, FeatureRoles, Replay!IsPrediction, IsPrediction,
     Replay!PayloadOk, PayloadOk
<1>2. \A e, f : Replay(feed, by)!ReceivedBefore(e, f) <=> ReceivedBefore(e, f)
  BY Zenon DEF Replay!ReceivedBefore, ReceivedBefore, Replay!Precedes, Precedes,
     Replay!ReplayKey, ReplayKey
<1>3. \A e, f : Replay(feed, by)!Before(e, f) <=> EarlierBy(by, e, f)
  BY Zenon DEF Replay!Before, Replay!Precedes, Replay!Key, Precedes, EarlierBy, KeyBy,
     Replay!ReplayKey, ReplayKey, Replay!ObservedKey, ObservedKey
<1>4. \A S : Replay(feed, by)!Cardinality(S) = Cardinality(S)
  BY Zenon DEF Replay!Cardinality, Cardinality
<1> QED BY <1>1, <1>2, <1>3, <1>4

LEMMA SameArithmetic ==
  ASSUME NEW feed, NEW by
  PROVE
  /\ \A s, t : Replay(feed, by)!ZScoreSignal(s, t) = ZScoreSignal(s, t)
  /\ \A s, f, w, m, d : Replay(feed, by)!MomentumSignal(s, f, w, m, d) = MomentumSignal(s, f, w, m, d)
<1>1. \A f : Replay(feed, by)!Total(f) = Total(f)
  BY Zenon DEF Replay!Total, Total
<1>2. \A x, y : /\ Replay(feed, by)!Signum(x) = Signum(x)
                /\ Replay(feed, by)!AbsoluteValue(x) = AbsoluteValue(x)
                /\ Replay(feed, by)!FitsWide(x) = FitsWide(x)
                /\ Replay(feed, by)!Clamped(x) = Clamped(x)
                /\ Replay(feed, by)!Larger(x, y) = Larger(x, y)
                /\ Replay(feed, by)!TruncatedDiv(x, y) = TruncatedDiv(x, y)
  BY Zenon DEF Replay!Signum, Signum, Replay!AbsoluteValue, AbsoluteValue,
     Replay!FitsWide, FitsWide, Replay!Clamped, Clamped, Replay!Larger, Larger,
     Replay!TruncatedDiv, TruncatedDiv
<1>3. \A s, i : Replay(feed, by)!ZDelta(s, i) = ZDelta(s, i)
  BY <1>1, Zenon DEF Replay!ZDelta, ZDelta
<1>4. \A s : Replay(feed, by)!SquaredDeltas(s) = SquaredDeltas(s)
  BY <1>3, SMT DEF Replay!SquaredDeltas, SquaredDeltas
<1>5. \A s : Replay(feed, by)!DeviationsFit(s) = DeviationsFit(s)
  BY <1>1, <1>2, <1>3, <1>4, SMT DEF Replay!DeviationsFit, DeviationsFit
<1>6. \A s : Replay(feed, by)!MeanScore(s) = MeanScore(s)
  BY <1>1, <1>2, SMT DEF Replay!MeanScore, MeanScore
<1>7. \A s, c : Replay(feed, by)!MeanAbsoluteDeviation(s, c) = MeanAbsoluteDeviation(s, c)
  BY <1>1, <1>2, SMT DEF Replay!MeanAbsoluteDeviation, MeanAbsoluteDeviation
<1>8. \A s, t : Replay(feed, by)!ZScoreSignal(s, t) = ZScoreSignal(s, t)
  BY <1>1, <1>2, <1>3, <1>4, <1>5, SMT DEF Replay!ZScoreSignal, ZScoreSignal
<1>9. \A s, f, w, m, d : Replay(feed, by)!MomentumSignal(s, f, w, m, d) = MomentumSignal(s, f, w, m, d)
  BY <1>2, <1>6, <1>7, SMT DEF Replay!MomentumSignal, MomentumSignal
<1> QED BY <1>8, <1>9

LEMMA SameSignal ==
  ASSUME NEW feed, NEW by
  PROVE
  /\ \A e : Replay(feed, by)!Relevant(e) <=> Relevant(e)
  /\ Replay(feed, by)!Clamp(Replay(feed, by)!SignalWindow, 1, MaxInputs) = Clamp(SignalWindow, 1, MaxInputs)
  /\ \A obs : Replay(feed, by)!SignalValue(obs) = SignalValue(obs)
<1>1. \A e : Replay(feed, by)!Relevant(e) <=> Relevant(e)
  BY Zenon DEF Replay!Relevant, Relevant, Replay!HasSentiment, HasSentiment,
     Replay!HasScore, HasScore
<1>2. \A x, y, z : Replay(feed, by)!Clamp(x, y, z) = Clamp(x, y, z)
  BY Zenon DEF Replay!Clamp, Clamp
<1>3. Replay(feed, by)!SlowWindow = SlowWindow
  BY <1>2, Zenon DEF Replay!SlowWindow, SlowWindow
<1>4. Replay(feed, by)!SignalWindow = SignalWindow
  BY Zenon DEF Replay!SignalWindow, SignalWindow, Replay!SlowWindow, SlowWindow,
     Replay!Clamp, Clamp
<1>5. \A obs : Replay(feed, by)!SignalValue(obs) = SignalValue(obs)
  <2> TAKE obs
  <2>1. Replay(feed, by)!ScoresOf(obs) = ScoresOf(obs)
    BY Zenon DEF Replay!ScoresOf, ScoresOf
  <2>2. \A x : Replay(feed, by)!NumberOf(obs, x) = NumberOf(obs, x)
    BY Zenon DEF Replay!NumberOf, NumberOf, Replay!Cardinality, Cardinality
  <2>3. \A x : Replay(feed, by)!Signum(x) = Signum(x)
    BY Zenon DEF Replay!Signum, Signum
  <2>4. Signal.kind \in {"last-feature-sentiment", "windowed-feature-sentiment",
                         "windowed-zscore", "vol-adjusted-momentum"}
    BY ViewAssumption DEF SignalConfigs
  <2>5. CASE Signal.kind \in {"last-feature-sentiment", "windowed-feature-sentiment"}
    BY <2>2, <2>3, <2>5 DEF Replay!SignalValue, SignalValue
  <2>6. CASE Signal.kind = "windowed-zscore"
    BY <2>1, <2>6, SameArithmetic DEF Replay!SignalValue, SignalValue
  <2>7. CASE Signal.kind = "vol-adjusted-momentum"
    BY <1>2, <1>3, <2>1, <2>7, SameArithmetic DEF Replay!SignalValue, SignalValue
  <2> QED BY <2>4, <2>5, <2>6, <2>7
<1> QED BY <1>1, <1>2, <1>4, <1>5

-----------------------------------------------------------------------------
(***************************************************************************)
(* The log of a feed, and the feeds that are refused, without the promise. *)
(***************************************************************************)
RowsOf(feed) == { feed[i] : i \in DOMAIN feed }

PredictionsOf(rows) == { e \in rows : IsPrediction(e) }

PredictionsBy(o, feed) == RowsInOrder(o, PredictionsOf(RowsOf(feed)))

\* No defect for which a replay is refused.
Clean(feed) ==
  /\ \A i, j \in DOMAIN feed : i # j =>
       /\ EventKey(feed[i]) # EventKey(feed[j])
       /\ ~(feed[i].received_time = feed[j].received_time /\ feed[i].seq = feed[j].seq)
  /\ \A i, j \in DOMAIN feed : feed[i].symbol # feed[j].symbol =>
       SymbolIdOf[feed[i].symbol] # SymbolIdOf[feed[j].symbol]
  /\ \A i \in DOMAIN feed : UpdatesSignalState(feed[i]) => PayloadOk(feed[i])

LEMMA RefusedUnlessClean ==
  ASSUME NEW feed
  PROVE  Refused(feed) <=> ~Clean(feed)
<1>1. Replay(feed, "ReceivedTime")!Rows = RowsOf(feed)
  BY Zenon DEF Replay!Rows, RowsOf
<1>2. Refused(feed) <=>
        \/ \E i, j \in DOMAIN feed : /\ i # j
             /\ \/ EventKey(feed[i]) = EventKey(feed[j])
                \/ feed[i].received_time = feed[j].received_time /\ feed[i].seq = feed[j].seq
        \/ \E e, f \in RowsOf(feed) : e.symbol # f.symbol /\ SymbolIdOf[e.symbol] = SymbolIdOf[f.symbol]
        \/ \E e \in RowsOf(feed) : UpdatesSignalState(e) /\ ~PayloadOk(e)
  BY <1>1, SameEvents, Zenon DEF Refused, Replay!Defective, Replay!Ambiguous, Replay!Conflict
<1> QED BY <1>2, Zenon DEF Clean, RowsOf

LEMMA SamePlaces ==
  ASSUME NEW feed, NEW by, NEW S, NEW n
  PROVE  /\ Replay(feed, by)!Ascending(S) = RowsInOrder(by, S)
         /\ Replay(feed, by)!Newest(S, n) = LatestBy(by, S, n)
<1>1. \A e, f : Replay(feed, by)!Before(e, f) <=> EarlierBy(by, e, f)
  BY SameEvents
<1>2. \A T : Replay(feed, by)!Cardinality(T) = Cardinality(T)
  BY SameEvents
<1>3. \A e : { f \in S : Replay(feed, by)!Before(f, e) } = EarlierRows(by, S, e)
  BY <1>1, Zenon DEF EarlierRows
<1>4. \A e : { f \in S : Replay(feed, by)!Before(e, f) } = { f \in S : EarlierBy(by, e, f) }
  BY <1>1, Zenon
<1>5. Replay(feed, by)!Ascending(S) = RowsInOrder(by, S)
  <2> DEFINE A(k) == CHOOSE e \in S :
                       Replay(feed, by)!Cardinality({ f \in S : Replay(feed, by)!Before(f, e) }) = k - 1
             B(k) == CHOOSE e \in S : Cardinality(EarlierRows(by, S, e)) = k - 1
  <2>1. \A k : A(k) = B(k)
    <3>1. \A e : Replay(feed, by)!Cardinality({ f \in S : Replay(feed, by)!Before(f, e) })
                   = Cardinality(EarlierRows(by, S, e))
      BY <1>2, <1>3, Zenon
    <3> QED BY <3>1, Zenon
  <2>2. Replay(feed, by)!Ascending(S) = [k \in 1..Replay(feed, by)!Cardinality(S) |-> A(k)]
    BY Zenon DEF Replay!Ascending
  <2>3. RowsInOrder(by, S) = [k \in 1..Cardinality(S) |-> B(k)]
    BY Zenon DEF RowsInOrder
  <2> HIDE DEF A, B
  <2> QED BY <1>2, <2>1, <2>2, <2>3, SMT
<1>6. Replay(feed, by)!Newest(S, n) = LatestBy(by, S, n)
  BY <1>2, <1>4, Zenon DEF Replay!Newest, LatestBy
<1> QED BY <1>5, <1>6

LEMMA SameRecord ==
  ASSUME NEW feed, NEW by, NEW p
  PROVE  Replay(feed, by)!Promised(p) = RecordBy(by, RowsOf(feed), p)
<1> DEFINE V == VisibleBy(by, RowsOf(feed), p)
           W == Clamp(SignalWindow, 1, MaxInputs)
           c == CitedFrom(by, V)
<1>1. Replay(feed, by)!Rows = RowsOf(feed)
  BY Zenon DEF Replay!Rows, RowsOf
<1>2. Replay(feed, by)!Visible(p) = V
  BY <1>1, SameEvents, Zenon DEF Replay!Visible, VisibleBy
<1>3. \A S, n : /\ Replay(feed, by)!Ascending(S) = RowsInOrder(by, S)
                /\ Replay(feed, by)!Newest(S, n) = LatestBy(by, S, n)
  BY SamePlaces
<1>4. \A S : { e \in S : Replay(feed, by)!Relevant(e) } = { e \in S : Relevant(e) }
  BY SameSignal, Zenon
<1>5. Replay(feed, by)!Clamp(Replay(feed, by)!SignalWindow, 1, MaxInputs) = W
  BY SameSignal
<1> HIDE DEF V, W
<1>6. Replay(feed, by)!Cited(p) = c
  BY <1>2, <1>3, <1>4, <1>5, Zenon DEF Replay!Cited, CitedFrom, W
<1> HIDE DEF c
<1>7. Replay(feed, by)!LastReceived(c) = LastOf(c)
  <2>1. \A e, f : Replay(feed, by)!ReceivedBefore(e, f) <=> ReceivedBefore(e, f)
    BY SameEvents
  <2> QED BY <2>1, Zenon DEF Replay!LastReceived, LastOf, Replay!ReceivedBefore, ReceivedBefore,
          Replay!Precedes, Precedes, Replay!ReplayKey, ReplayKey
<1>8. Replay(feed, by)!SignalValue(c) = SignalValue(c)
  BY SameSignal
<1>9. \A e : Replay(feed, by)!EventKey(e) = EventKey(e)
  BY SameEvents
<1>10. [i \in DOMAIN c |-> Replay(feed, by)!EventKey(c[i])] = [i \in DOMAIN c |-> EventKey(c[i])]
  BY <1>9, SMT
<1>11. Replay(feed, by)!Promised(p) = RecordFrom(c, p)
  BY <1>6, <1>7, <1>8, <1>9, <1>10, Zenon DEF Replay!Promised, Replay!RecordCiting, RecordFrom
<1> QED BY <1>11, Zenon DEF RecordBy, c, V

LEMMA LogIs ==
  ASSUME NEW feed, NEW by
  PROVE  LogOf(feed, by) = [ n \in DOMAIN PredictionsBy(by, feed) |->
                               RecordBy(by, RowsOf(feed), PredictionsBy(by, feed)[n]) ]
<1>1. Replay(feed, by)!Predictions = PredictionsBy(by, feed)
  <2>1. Replay(feed, by)!Rows = RowsOf(feed)
    BY Zenon DEF Replay!Rows, RowsOf
  <2>2. { e \in Replay(feed, by)!Rows : Replay(feed, by)!IsPrediction(e) } = PredictionsOf(RowsOf(feed))
    BY <2>1, SameEvents, Zenon DEF PredictionsOf
  <2> QED BY <2>2, SamePlaces, Zenon DEF Replay!Predictions, PredictionsBy
<1>2. \A p : Replay(feed, by)!Promised(p) = RecordBy(by, RowsOf(feed), p)
  BY SameRecord
<1> QED BY <1>1, <1>2, SMT DEF LogOf, PromisedRecords

\* The rows of an accepted feed are told apart by their ids, and by their keys.
LEMMA CleanRows ==
  ASSUME NEW feed \in Seq(Event), Clean(feed)
  PROVE  /\ Apart(RowsOf(feed))
         /\ \A e, f \in RowsOf(feed) : EventKey(e) = EventKey(f) => e = f
         /\ \A i, j \in DOMAIN feed : EventKey(feed[i]) = EventKey(feed[j]) => i = j
         /\ \A S : Apart({ e \in RowsOf(feed) : e \in S })
<1>1. DOMAIN feed = 1..Len(feed) /\ Len(feed) \in Nat /\ \A i \in DOMAIN feed : feed[i] \in Event
  OBVIOUS
<1>2. \A i, j \in DOMAIN feed : EventKey(feed[i]) = EventKey(feed[j]) => i = j
  BY Zenon DEF Clean
<1>3. RowsOf(feed) = At(feed, DOMAIN feed)
  BY Zenon DEF RowsOf, At
<1>4. IsFiniteSet(RowsOf(feed))
  <2>1. IsFiniteSet(DOMAIN feed)
    BY <1>1, FS_Interval
  <2>2. \A i, j \in DOMAIN feed : feed[i] = feed[j] => i = j
    BY <1>2, Zenon
  <2> QED BY <1>3, <2>1, <2>2, AtSize
<1>5. \A e, f \in RowsOf(feed) : EventKey(e) = EventKey(f) => e = f
  BY <1>2, Zenon DEF RowsOf
<1>6. \A e, f \in RowsOf(feed) : e.id = f.id => e = f
  BY <1>5, Zenon DEF EventKey
<1>7. Apart(RowsOf(feed))
  BY <1>1, <1>4, <1>6, Zenon DEF Apart, RowsOf
<1>8. ASSUME NEW S PROVE Apart({ e \in RowsOf(feed) : e \in S })
  BY <1>7, ApartSubset
<1> QED BY <1>2, <1>5, <1>7, <1>8

\* A copy of rows of an accepted feed, each row once, with its place kept.
Alike(e, f) ==
  /\ EventKey(e) = EventKey(f)
  /\ e.received_time = f.received_time
  /\ e.seq = f.seq
  /\ e.symbol = f.symbol
  /\ UpdatesSignalState(f) => PayloadOk(f)

LEMMA CopyIsClean ==
  ASSUME NEW base, Clean(base), NEW feed, NEW at,
         \A i \in DOMAIN feed : at[i] \in DOMAIN base /\ Alike(base[at[i]], feed[i]),
         \A i, j \in DOMAIN feed : at[i] = at[j] => i = j
  PROVE  Clean(feed)
<1>1. ASSUME NEW i \in DOMAIN feed, NEW j \in DOMAIN feed, i # j
      PROVE  /\ EventKey(feed[i]) # EventKey(feed[j])
             /\ ~(feed[i].received_time = feed[j].received_time /\ feed[i].seq = feed[j].seq)
  <2>1. at[i] \in DOMAIN base /\ at[j] \in DOMAIN base /\ at[i] # at[j]
    BY <1>1
  <2>2. /\ EventKey(base[at[i]]) # EventKey(base[at[j]])
        /\ ~(/\ base[at[i]].received_time = base[at[j]].received_time
             /\ base[at[i]].seq = base[at[j]].seq)
    BY <2>1, Zenon DEF Clean
  <2>3. Alike(base[at[i]], feed[i]) /\ Alike(base[at[j]], feed[j])
    OBVIOUS
  <2> QED BY <2>2, <2>3, Zenon DEF Alike
<1>2. ASSUME NEW i \in DOMAIN feed, NEW j \in DOMAIN feed, feed[i].symbol # feed[j].symbol
      PROVE  SymbolIdOf[feed[i].symbol] # SymbolIdOf[feed[j].symbol]
  <2>1. Alike(base[at[i]], feed[i]) /\ Alike(base[at[j]], feed[j])
    OBVIOUS
  <2>2. base[at[i]].symbol = feed[i].symbol /\ base[at[j]].symbol = feed[j].symbol
    BY <2>1, Zenon DEF Alike
  <2>3. at[i] \in DOMAIN base /\ at[j] \in DOMAIN base
    OBVIOUS
  <2>4. base[at[i]].symbol # base[at[j]].symbol =>
          SymbolIdOf[base[at[i]].symbol] # SymbolIdOf[base[at[j]].symbol]
    BY <2>3, Zenon DEF Clean
  <2> QED BY <1>2, <2>2, <2>4
<1>3. \A i \in DOMAIN feed : UpdatesSignalState(feed[i]) => PayloadOk(feed[i])
  BY Zenon DEF Alike
<1> QED BY <1>1, <1>2, <1>3, Zenon DEF Clean

\* Rows of an accepted feed, in the order of the feed, make an accepted feed.
LEMMA ListingIsClean ==
  ASSUME NEW base \in Seq(Event), Clean(base), NEW P, \A q \in P : q \in DOMAIN base
  PROVE  /\ Listed(base, P) \in Seq(Event)
         /\ Clean(Listed(base, P))
         /\ RowsOf(Listed(base, P)) = At(base, P)
<1> DEFINE feed == Listed(base, P)
<1>1. Len(base) \in Nat /\ \A q \in P : q \in 1..Len(base)
  OBVIOUS
<1>2. feed \in Seq(Event)
  BY ListedType
<1>3. { feed[n] : n \in DOMAIN feed } = At(base, P)
  BY <1>1, ListedRows
<1>4. Clean(feed)
  <2> DEFINE at == [n \in DOMAIN feed |-> CHOOSE p \in P : Rank(P, p) = n /\ feed[n] = base[p]]
  <2>1. \A n \in DOMAIN feed : \E p \in P : Rank(P, p) = n /\ feed[n] = base[p]
    BY <1>1, ListedPlaces
  <2> HIDE DEF feed
  <2>2. \A n \in DOMAIN feed : /\ at[n] \in P
                               /\ Rank(P, at[n]) = n
                               /\ feed[n] = base[at[n]]
    BY <2>1, Zenon
  <2> HIDE DEF at
  <2>3. \A i, j \in DOMAIN feed : at[i] = at[j] => i = j
    BY <2>2
  <2>4. ASSUME NEW n \in DOMAIN feed
        PROVE  at[n] \in DOMAIN base /\ Alike(base[at[n]], feed[n])
    <3>1. at[n] \in DOMAIN base /\ feed[n] = base[at[n]]
      BY <2>2
    <3> QED BY <3>1, Zenon DEF Alike, Clean
  <2> QED BY <2>3, <2>4, CopyIsClean
<1>5. RowsOf(feed) = At(base, P)
  BY <1>3, Zenon DEF RowsOf
<1> QED BY <1>2, <1>4, <1>5

LEMMA ReceivedInOrder ==
  /\ \A e, f \in Event : EarlierBy("ReceivedTime", e, f) <=> ReceivedBefore(e, f)
  /\ \A e, f \in Event : ReceivedBefore(e, f) => e.received_time <= f.received_time
  /\ \A e, f \in Event : e.received_time < f.received_time => ReceivedBefore(e, f)
<1>1. \A e, f \in Event : EarlierBy("ReceivedTime", e, f) <=> ReceivedBefore(e, f)
  BY Zenon DEF EarlierBy, KeyBy, ReceivedBefore
<1>2. \A e \in Event : e.received_time \in Nat /\ e.seq \in Nat /\ e.id \in Nat
  BY EventsAssumption DEF Event
<1> QED BY <1>1, <1>2 DEF ReceivedBefore, ReplayKey, Precedes

(***************************************************************************)
(* A log holds the record of every prediction, and no other.               *)
(***************************************************************************)
LEMMA LogRecords ==
  ASSUME NEW feed \in Seq(Event), Clean(feed), NEW by
  PROVE  /\ \A n \in DOMAIN LogOf(feed, by) : \E i \in DOMAIN feed :
              IsPrediction(feed[i]) /\ LogOf(feed, by)[n] = RecordBy(by, RowsOf(feed), feed[i])
         /\ \A i \in DOMAIN feed : IsPrediction(feed[i]) =>
              \E n \in DOMAIN LogOf(feed, by) : LogOf(feed, by)[n] = RecordBy(by, RowsOf(feed), feed[i])
         /\ \E N \in Nat : DOMAIN LogOf(feed, by) = 1..N
<1> DEFINE S == PredictionsOf(RowsOf(feed))
           s == RowsInOrder(by, S)
           L == LogOf(feed, by)
           N == Cardinality(S)
<1>1. Apart(S)
  <2>1. Apart(RowsOf(feed))
    BY CleanRows
  <2>2. \A e \in S : e \in RowsOf(feed)
    BY Zenon DEF PredictionsOf
  <2> QED BY <2>1, <2>2, ApartSubset
<1>2. \A e : e \in S <=> \E i \in DOMAIN feed : e = feed[i] /\ IsPrediction(feed[i])
  BY Zenon DEF PredictionsOf, RowsOf
<1>3. L = [n \in DOMAIN s |-> RecordBy(by, RowsOf(feed), s[n])]
  BY LogIs, Zenon DEF PredictionsBy
<1> HIDE DEF S, L
<1>4. N \in Nat /\ DOMAIN s = 1..N
  BY <1>1, PlacesAreTaken
<1>5. \A n \in 1..N : s[n] \in S
  BY <1>1, PlacesAreTaken
<1>6. \A e \in S : \E n \in 1..N : s[n] = e
  <2>1. \A e \in S : /\ Cardinality(EarlierRows(by, S, e)) + 1 \in 1..N
                     /\ s[Cardinality(EarlierRows(by, S, e)) + 1] = e
    BY <1>1, PlacesAreTaken
  <2> HIDE DEF s, N
  <2> QED BY <2>1, Zenon
<1> HIDE DEF s, N
<1>7. DOMAIN L = 1..N /\ \A n \in 1..N : L[n] = RecordBy(by, RowsOf(feed), s[n])
  BY <1>3, <1>4, SMT
<1>8. \A n \in DOMAIN L : \E i \in DOMAIN feed :
        IsPrediction(feed[i]) /\ L[n] = RecordBy(by, RowsOf(feed), feed[i])
  BY <1>2, <1>5, <1>7, Zenon
<1>9. \A i \in DOMAIN feed : IsPrediction(feed[i]) =>
        \E n \in DOMAIN L : L[n] = RecordBy(by, RowsOf(feed), feed[i])
  BY <1>2, <1>6, <1>7, Zenon
<1> QED BY <1>4, <1>7, <1>8, <1>9, Zenon DEF L

(***************************************************************************)
(* The value of a record is a function of the payloads of the cited rows,  *)
(* in order.                                                               *)
(***************************************************************************)
LEMMA ValueOfPayloads ==
  ASSUME NEW c, NEW d, NEW N \in Nat,
         c = [k \in 1..N |-> c[k]], d = [k \in 1..N |-> d[k]],
         \A k \in 1..N : c[k].sentiment = d[k].sentiment /\ c[k].score = d[k].score,
         NEW p, NEW q
  PROVE  RecordFrom(c, p).signal_value = RecordFrom(d, q).signal_value
<1>1. DOMAIN c = 1..N /\ DOMAIN d = 1..N
  OBVIOUS
<1>2. c = <<>> <=> d = <<>>
  <2>1. ASSUME N = 0 PROVE c = <<>> /\ d = <<>>
    BY <2>1
  <2>2. ASSUME N # 0 PROVE c # <<>> /\ d # <<>>
    <3>1. 1 \in DOMAIN c /\ 1 \in DOMAIN d /\ ~(1 \in DOMAIN <<>>)
      BY <1>1, <2>2
    <3> QED BY <3>1
  <2> QED BY <2>1, <2>2
<1>3. \A x : NumberOf(c, x) = NumberOf(d, x)
  <2> TAKE x
  <2>1. \A i : i \in { k \in DOMAIN c : c[k].sentiment = x } <=> i \in { k \in DOMAIN d : d[k].sentiment = x }
    BY <1>1, Zenon
  <2>2. { k \in DOMAIN c : c[k].sentiment = x } = { k \in DOMAIN d : d[k].sentiment = x }
    BY <2>1, Zenon
  <2> QED BY <2>2, Zenon DEF NumberOf
<1>4. ScoresOf(c) = ScoresOf(d)
  BY <1>1, SMT DEF ScoresOf
<1>5. SignalValue(c) = SignalValue(d)
  <2>1. Signal.kind \in {"last-feature-sentiment", "windowed-feature-sentiment",
                         "windowed-zscore", "vol-adjusted-momentum"}
    BY ViewAssumption DEF SignalConfigs
  <2>2. CASE Signal.kind \in {"last-feature-sentiment", "windowed-feature-sentiment"}
    BY <1>3, <2>2 DEF SignalValue
  <2>3. CASE Signal.kind = "windowed-zscore"
    BY <1>4, <2>3 DEF SignalValue
  <2>4. CASE Signal.kind = "vol-adjusted-momentum"
    BY <1>4, <2>4 DEF SignalValue
  <2> QED BY <2>1, <2>2, <2>3, <2>4
<1>6. \A s, r : RecordFrom(s, r).signal_value = IF s = <<>> THEN 0 ELSE SignalValue(s)
  BY DEF RecordFrom
<1> QED BY <1>2, <1>5, <1>6, Zenon
=============================================================================
