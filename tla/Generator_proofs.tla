--------------------------- MODULE Generator_proofs ---------------------------
(***************************************************************************)
(* Every feed the generator can draw, of any size, is one that replay      *)
(* accepts, that its statistics describe and that sets its trap.  What     *)
(* speaks of received times needs room for the sums of the configuration   *)
(* (Roomy), for the code adds u64 and does not bound max_lag.              *)
(*                                                                         *)
(* The shuffle is why rows are spoken of as a set: a swap keeps the set of *)
(* rows, and everything said of pairs of different rows.                   *)
(***************************************************************************)
EXTENDS Generator, SignalViews_proofs

-----------------------------------------------------------------------------
(***************************************************************************)
(* Sequences of rows: numbering, appending a round, swapping.              *)
(***************************************************************************)
Given(row, number) == [row EXCEPT !.seq = number]

LEMMA NumberedRows ==
  ASSUME NEW T, NEW rows \in Seq(T), NEW U, NEW more \in Seq(U)
  PROVE  /\ DOMAIN Numbered(rows, more) = 1..(Len(rows) + Len(more))
         /\ \A i \in 1..Len(rows) : Numbered(rows, more)[i] = rows[i]
         /\ \A n \in 1..Len(more) :
              Numbered(rows, more)[Len(rows) + n] = Given(more[n], Len(rows) + n)
<1> DEFINE numbered == [ n \in DOMAIN more |-> Given(more[n], Len(rows) + n) ]
<1>1. Numbered(rows, more) = rows \o numbered
  BY Zenon DEF Numbered, Given
<1>2. Len(rows) \in Nat /\ Len(more) \in Nat /\ DOMAIN more = 1..Len(more)
  OBVIOUS
<1>3. numbered \in Seq({ numbered[n] : n \in DOMAIN more }) /\ Len(numbered) = Len(more)
  <2>1. \A n \in 1..Len(more) : numbered[n] \in { numbered[m] : m \in DOMAIN more }
    BY <1>2, Zenon
  <2>2. numbered = [n \in 1..Len(more) |-> numbered[n]]
    BY <1>2
  <2> HIDE DEF numbered
  <2>3. numbered \in [1..Len(more) -> { numbered[m] : m \in DOMAIN more }]
    BY <2>1, <2>2
  <2> QED BY <1>2, <2>3, SeqDef, LenProperties
<1>4. \A n \in 1..Len(more) : numbered[n] = Given(more[n], Len(rows) + n)
  BY <1>2
<1> HIDE DEF numbered
<1>5. /\ DOMAIN (rows \o numbered) = 1..(Len(rows) + Len(more))
      /\ \A i \in 1..Len(rows) : (rows \o numbered)[i] = rows[i]
      /\ \A n \in 1..Len(more) : (rows \o numbered)[Len(rows) + n] = numbered[n]
  <2> DEFINE X == T \cup { numbered[n] : n \in DOMAIN more }
  <2>1. rows \in Seq(X) /\ numbered \in Seq(X)
    BY <1>3
  <2> HIDE DEF X
  <2>2. Len(rows \o numbered) = Len(rows) + Len(more)
    <3>1. Len(rows \o numbered) = Len(rows) + Len(numbered)
      BY <2>1, ConcatProperties, Zenon
    <3> QED BY <1>3, <3>1, Zenon
  <2>3. DOMAIN (rows \o numbered) = 1..(Len(rows) + Len(more))
    BY <2>1, <2>2, ConcatProperties, LenProperties
  <2>4. \A i \in 1..Len(rows) : (rows \o numbered)[i] = rows[i]
    BY <1>2, <1>3, <2>1, ConcatProperties
  <2>5. \A n \in 1..Len(more) : (rows \o numbered)[Len(rows) + n] = numbered[n]
    BY <1>2, <1>3, <2>1, ConcatProperties
  <2> QED BY <2>3, <2>4, <2>5
<1> QED BY <1>1, <1>4, <1>5

\* The rows of a round: of the four kinds, those that are switched on.
Switches == { a \in [1..4 -> 0..1] : a[1] = 1 }

On(a) == { n \in 1..4 : a[n] = 1 }

RoundOf(x, a) ==
  <<x[1]>> \o Only(a[2] = 1, x[2]) \o Only(a[3] = 1, x[3]) \o Only(a[4] = 1, x[4])

Place(a, n) ==
  IF n = 1 THEN 1 ELSE IF n = 2 THEN 2 ELSE IF n = 3 THEN 2 + a[2] ELSE 2 + a[2] + a[3]

LEMMA OneMore ==
  ASSUME NEW W, NEW s \in Seq(W), NEW w \in W
  PROVE  /\ s \o <<w>> \in Seq(W)
         /\ Len(s \o <<w>>) = Len(s) + 1
         /\ \A i \in 1..Len(s) : (s \o <<w>>)[i] = s[i]
         /\ (s \o <<w>>)[Len(s) + 1] = w
<1>1. <<w>> \in Seq(W) /\ Len(<<w>>) = 1 /\ <<w>>[1] = w
  OBVIOUS
<1> DEFINE t == <<w>>
<1> HIDE DEF t
<1>2. t \in Seq(W) /\ Len(t) = 1 /\ t[1] = w
  BY <1>1, Zenon DEF t
<1>3. s \o t \in Seq(W) /\ Len(s \o t) = Len(s) + 1
  BY <1>2, ConcatProperties
<1>4. /\ \A i \in 1..Len(s) : (s \o t)[i] = s[i]
      /\ (s \o t)[Len(s) + 1] = w
  BY <1>2, ConcatProperties
<1> QED BY <1>3, <1>4, Zenon DEF t

Perhaps(b, w) == IF b = 1 THEN <<w>> ELSE <<>>

More(W, s, w, b, r) ==
  /\ r \in Seq(W)
  /\ Len(r) = Len(s) + b
  /\ \A i \in 1..Len(s) : r[i] = s[i]
  /\ b = 1 => r[Len(s) + 1] = w

LEMMA OnlyMore ==
  ASSUME NEW W, NEW s \in Seq(W), NEW w \in W, NEW b, b = 0 \/ b = 1
  PROVE  More(W, s, w, b, s \o Perhaps(b, w))
<1> DEFINE r == s \o Perhaps(b, w)
<1>1. CASE b = 1
  <2>1. r = s \o <<w>>
    BY <1>1 DEF Perhaps
  <2>2. /\ s \o <<w>> \in Seq(W)
        /\ Len(s \o <<w>>) = Len(s) + 1
        /\ \A i \in 1..Len(s) : (s \o <<w>>)[i] = s[i]
        /\ (s \o <<w>>)[Len(s) + 1] = w
    BY OneMore, Zenon
  <2>3. More(W, s, w, 1, r)
    BY <2>1, <2>2, Zenon DEF More
  <2> QED BY <1>1, <2>3, Zenon
<1>2. CASE b = 0
  <2>1. r = s
    BY <1>2 DEF Perhaps
  <2>2. More(W, s, w, 0, s)
    BY DEF More
  <2> QED BY <1>2, <2>1, <2>2, Zenon
<1> QED BY <1>1, <1>2

LEMMA RowsOfRound ==
  ASSUME NEW x, NEW a \in Switches
  PROVE  /\ RoundOf(x, a) \in Seq({ x[n] : n \in 1..4 })
         /\ Len(RoundOf(x, a)) = 1 + a[2] + a[3] + a[4]
         /\ \A n \in On(a) : RoundOf(x, a)[Place(a, n)] = x[n]
<1> DEFINE W == { x[n] : n \in 1..4 }
           p == x[1]  q == x[2]  u == x[3]  v == x[4]
<1>1. p \in W /\ q \in W /\ u \in W /\ v \in W
  OBVIOUS
<1>2. a[1] = 1 /\ (a[2] = 0 \/ a[2] = 1) /\ (a[3] = 0 \/ a[3] = 1) /\ (a[4] = 0 \/ a[4] = 1)
  BY DEF Switches
<1>3. RoundOf(x, a) = <<p>> \o Only(a[2] = 1, q) \o Only(a[3] = 1, u) \o Only(a[4] = 1, v)
  BY Zenon DEF RoundOf
<1> HIDE DEF W, p, q, u, v
<1> DEFINE one == <<p>>
           two == one \o Only(a[2] = 1, q)
           three == two \o Only(a[3] = 1, u)
           four == three \o Only(a[4] = 1, v)
<1>a. one \in Seq(W) /\ Len(one) = 1 /\ one[1] = p
  BY <1>1
<1> HIDE DEF one
<1>b1. More(W, one, q, a[2], one \o Perhaps(a[2], q))
  BY <1>1, <1>2, <1>a, OnlyMore, Zenon
<1>b2. two = one \o Perhaps(a[2], q)
  BY Zenon DEF Only, Perhaps
<1> HIDE DEF two
<1>b3. More(W, one, q, a[2], two)
  BY <1>b1, <1>b2, Zenon
<1>b. /\ two \in Seq(W) /\ Len(two) = 1 + a[2]
      /\ two[1] = p /\ (a[2] = 1 => two[2] = q)
  BY <1>2, <1>a, <1>b3 DEF More
<1>c1. More(W, two, u, a[3], two \o Perhaps(a[3], u))
  BY <1>1, <1>2, <1>b, OnlyMore, Zenon
<1>c2. three = two \o Perhaps(a[3], u)
  BY Zenon DEF Only, Perhaps
<1> HIDE DEF three
<1>c3. More(W, two, u, a[3], three)
  BY <1>c1, <1>c2, Zenon
<1>c. /\ three \in Seq(W) /\ Len(three) = 1 + a[2] + a[3]
      /\ three[1] = p /\ (a[2] = 1 => three[2] = q) /\ (a[3] = 1 => three[2 + a[2]] = u)
  <2>1. 1 + a[2] + 1 = 2 + a[2] /\ 1 \in 1..(1 + a[2]) /\ (a[2] = 1 => 2 \in 1..(1 + a[2]))
    BY <1>2
  <2> QED BY <1>b, <1>c3, <2>1, Zenon DEF More
<1>d1. More(W, three, v, a[4], three \o Perhaps(a[4], v))
  BY <1>1, <1>2, <1>c, OnlyMore, Zenon
<1>d2. four = three \o Perhaps(a[4], v)
  BY Zenon DEF Only, Perhaps
<1> HIDE DEF four
<1>d3. More(W, three, v, a[4], four)
  BY <1>d1, <1>d2, Zenon
<1>d. /\ four \in Seq(W) /\ Len(four) = 1 + a[2] + a[3] + a[4]
      /\ four[1] = p /\ (a[2] = 1 => four[2] = q) /\ (a[3] = 1 => four[2 + a[2]] = u)
      /\ a[4] = 1 => four[2 + a[2] + a[3]] = v
  <2>1. /\ 1 + a[2] + a[3] + 1 = 2 + a[2] + a[3]
        /\ 1 \in 1..(1 + a[2] + a[3])
        /\ a[2] = 1 => 2 \in 1..(1 + a[2] + a[3])
        /\ a[3] = 1 => 2 + a[2] \in 1..(1 + a[2] + a[3])
    BY <1>2
  <2> QED BY <1>c, <1>d3, <2>1, Zenon DEF More
<1>e. RoundOf(x, a) = four
  BY <1>3, Zenon DEF one, two, three, four
<1>4. /\ RoundOf(x, a) \in Seq(W)
      /\ Len(RoundOf(x, a)) = 1 + a[2] + a[3] + a[4]
      /\ RoundOf(x, a)[1] = p
      /\ a[2] = 1 => RoundOf(x, a)[2] = q
      /\ a[3] = 1 => RoundOf(x, a)[2 + a[2]] = u
      /\ a[4] = 1 => RoundOf(x, a)[2 + a[2] + a[3]] = v
  BY <1>d, <1>e
<1>5. ASSUME NEW n \in On(a) PROVE RoundOf(x, a)[Place(a, n)] = x[n]
  <2>1. n \in {1, 2, 3, 4} /\ a[n] = 1
    BY DEF On
  <2> QED BY <1>4, <2>1 DEF Place, p, q, u, v
<1> QED BY <1>4, <1>5, Zenon DEF W

\* Every place of a round is that of one kind.
LEMMA PlacesOfRound ==
  ASSUME NEW a \in Switches
  PROVE  /\ 1 + a[2] + a[3] + a[4] \in 1..4
         /\ \A n \in On(a) : Place(a, n) \in 1..(1 + a[2] + a[3] + a[4])
         /\ \A i \in 1..(1 + a[2] + a[3] + a[4]) : \E n \in On(a) : Place(a, n) = i
         /\ \A m, n \in On(a) : Place(a, m) = Place(a, n) => m = n
<1>1. a[1] = 1 /\ a[2] \in {0, 1} /\ a[3] \in {0, 1} /\ a[4] \in {0, 1}
  BY DEF Switches
<1>2. \A n : n \in On(a) <=> n \in {1, 2, 3, 4} /\ a[n] = 1
  BY DEF On
<1>3. 1 + a[2] + a[3] + a[4] \in 1..4
  BY <1>1
<1>4. \A n \in On(a) : Place(a, n) \in 1..(1 + a[2] + a[3] + a[4])
  BY <1>1, <1>2 DEF Place
<1>5. \A m, n \in On(a) : Place(a, m) = Place(a, n) => m = n
  BY <1>1, <1>2 DEF Place
<1>6. ASSUME NEW i \in 1..(1 + a[2] + a[3] + a[4])
      PROVE  \E n \in On(a) : Place(a, n) = i
  <2>1. Place(a, 1) = 1 /\ Place(a, 2) = 2 /\ Place(a, 3) = 2 + a[2] /\ Place(a, 4) = 2 + a[2] + a[3]
    BY DEF Place
  <2>2. 1 \in On(a) /\ (a[2] = 1 => 2 \in On(a)) /\ (a[3] = 1 => 3 \in On(a)) /\ (a[4] = 1 => 4 \in On(a))
    BY <1>1 DEF On
  <2>3. \/ i = 1
        \/ a[2] = 1 /\ i = 2
        \/ a[3] = 1 /\ i = 2 + a[2]
        \/ a[4] = 1 /\ i = 2 + a[2] + a[3]
    BY <1>1
  <2> QED BY <2>1, <2>2, <2>3, Zenon
<1> QED BY <1>3, <1>4, <1>5, <1>6

\* A sequence with the rows of another in other places.
Rearranged(s, r) ==
  /\ DOMAIN r = DOMAIN s
  /\ \E at \in [DOMAIN s -> DOMAIN s] :
       /\ \A i \in DOMAIN s : r[i] = s[at[i]]
       /\ \A i, j \in DOMAIN s : at[i] = at[j] => i = j
       /\ \A i \in DOMAIN s : \E j \in DOMAIN s : at[j] = i

Swapped(s, m, n) == [s EXCEPT ![m] = s[n], ![n] = s[m]]

LEMMA SwapRearranges ==
  ASSUME NEW T, NEW s \in Seq(T), NEW m \in DOMAIN s, NEW n \in DOMAIN s
  PROVE  /\ Rearranged(s, Swapped(s, m, n))
         /\ Swapped(s, m, n) \in Seq(T) /\ Len(Swapped(s, m, n)) = Len(s)
<1> DEFINE r == [s EXCEPT ![m] = s[n], ![n] = s[m]]
           at == [ i \in DOMAIN s |-> IF i = n THEN m ELSE IF i = m THEN n ELSE i ]
<1>1. DOMAIN r = DOMAIN s /\ \A i \in DOMAIN s : r[i] = s[at[i]]
  OBVIOUS
<1>2. r \in Seq(T) /\ Len(r) = Len(s)
  OBVIOUS
<1>3. at \in [DOMAIN s -> DOMAIN s]
  OBVIOUS
<1>4. \A i, j \in DOMAIN s : at[i] = at[j] => i = j
  OBVIOUS
<1>5. \A i \in DOMAIN s : at[i] \in DOMAIN s /\ at[at[i]] = i
  OBVIOUS
<1> HIDE DEF at, r
<1>6. \A i \in DOMAIN s : \E j \in DOMAIN s : at[j] = i
  BY <1>5, Zenon
<1>7. Rearranged(s, r)
  BY <1>1, <1>3, <1>4, <1>6, Zenon DEF Rearranged
<1> QED BY <1>2, <1>7, Zenon DEF r, Swapped

SameRows(s, r) ==
  /\ RowsOf(r) = RowsOf(s)
  /\ \A i, j \in DOMAIN r : i # j => \E k, l \in DOMAIN s : k # l /\ r[i] = s[k] /\ r[j] = s[l]

LEMMA RearrangedKeepsRows ==
  ASSUME NEW s, NEW r, Rearranged(s, r)
  PROVE  SameRows(s, r)
<1> PICK at \in [DOMAIN s -> DOMAIN s] :
       /\ \A i \in DOMAIN s : r[i] = s[at[i]]
       /\ \A i, j \in DOMAIN s : at[i] = at[j] => i = j
       /\ \A i \in DOMAIN s : \E j \in DOMAIN s : at[j] = i
  BY Zenon DEF Rearranged
<1>1. DOMAIN r = DOMAIN s
  BY Zenon DEF Rearranged
<1>2. \A i \in DOMAIN s : at[i] \in DOMAIN s
  OBVIOUS
<1>3. ASSUME NEW e \in RowsOf(r) PROVE e \in RowsOf(s)
  <2>1. PICK i \in DOMAIN r : e = r[i]
    BY <1>3, Zenon DEF RowsOf
  <2>2. at[i] \in DOMAIN s /\ e = s[at[i]]
    BY <1>1, <1>2, <2>1
  <2> QED BY <2>2, Zenon DEF RowsOf
<1>4. ASSUME NEW e \in RowsOf(s) PROVE e \in RowsOf(r)
  <2>1. PICK i \in DOMAIN s : e = s[i]
    BY <1>4, Zenon DEF RowsOf
  <2>2. PICK j \in DOMAIN s : at[j] = i
    BY Zenon
  <2>3. e = r[j]
    BY <2>1, <2>2
  <2> QED BY <1>1, <2>3, Zenon DEF RowsOf
<1>5. RowsOf(r) = RowsOf(s)
  BY <1>3, <1>4
<1>6. ASSUME NEW i \in DOMAIN r, NEW j \in DOMAIN r, i # j
      PROVE  \E k, l \in DOMAIN s : k # l /\ r[i] = s[k] /\ r[j] = s[l]
  <2>1. at[i] \in DOMAIN s /\ at[j] \in DOMAIN s /\ at[i] # at[j]
    BY <1>1, <1>2, <1>6, Zenon
  <2>2. r[i] = s[at[i]] /\ r[j] = s[at[j]]
    BY <1>1
  <2> QED BY <2>1, <2>2
<1> QED BY <1>5, <1>6, Zenon DEF SameRows

-----------------------------------------------------------------------------
(***************************************************************************)
(* Counting rows by their places and by the set of them.                   *)
(***************************************************************************)
Apiece(s) == \A i, j \in DOMAIN s : i # j => s[i].id # s[j].id /\ s[i].seq # s[j].seq

LEMMA CountsRows ==
  ASSUME NEW s \in Seq(Event), Apiece(s), NEW T
  PROVE  /\ Cardinality({ i \in DOMAIN s : s[i] \in T }) = Cardinality(RowsOf(s) \cap T)
         /\ IsFiniteSet(RowsOf(s))
<1>1. DOMAIN s = 1..Len(s) /\ Len(s) \in Nat
  OBVIOUS
<1>2. IsFiniteSet(DOMAIN s)
  BY <1>1, FS_Interval
<1>3. \A i, j \in DOMAIN s : s[i] = s[j] => i = j
  BY Zenon DEF Apiece
<1> DEFINE P == { i \in DOMAIN s : s[i] \in T }
<1>4. IsFiniteSet(P)
  BY <1>2, FS_Subset
<1>5. Cardinality(At(s, P)) = Cardinality(P)
  BY <1>3, <1>4, AtSize
<1>6. \A e : e \in At(s, P) <=> e \in RowsOf(s) \cap T
  BY Zenon DEF At, RowsOf
<1>7. At(s, P) = RowsOf(s) \cap T
  BY <1>6
<1>8. RowsOf(s) = At(s, DOMAIN s)
  BY Zenon DEF RowsOf, At
<1>9. IsFiniteSet(RowsOf(s))
  BY <1>2, <1>8, AtFinite
<1> QED BY <1>5, <1>7, <1>9

Gain(a, y, n, T) == IF a[n] = 1 /\ y[n] \in T THEN 1 ELSE 0

\* The rows of the first kinds of a round, with those before it.
Upto(R, a, y, n) == R \cup { y[m] : m \in { k \in On(a) : k <= n } }

Tally(R, a, y, T) ==
  /\ Cardinality(R \cap T) \in Nat
  /\ Cardinality((R \cup { y[n] : n \in On(a) }) \cap T)
       = Cardinality(R \cap T) + Gain(a, y, 1, T) + Gain(a, y, 2, T)
                               + Gain(a, y, 3, T) + Gain(a, y, 4, T)

LEMMA RoundCounts ==
  ASSUME NEW R, IsFiniteSet(R), NEW a \in Switches, NEW y, NEW T,
         \A n \in 1..4 : y[n] \notin R,
         \A m, n \in 1..4 : y[m] = y[n] => m = n
  PROVE  Tally(R, a, y, T)
<1> DEFINE U(n) == Upto(R, a, y, n)
           C(n) == Cardinality(U(n) \cap T)
<1>1. \A m : m \in On(a) => m \in 1..4
  BY DEF On
<1>2. ASSUME NEW n \in 1..4 PROVE y[n] \notin U(n - 1)
  <2>1. ASSUME NEW m \in On(a), m <= n - 1 PROVE y[n] # y[m]
    BY <1>1, <2>1
  <2> QED BY <2>1, Zenon DEF Upto
<1>3. U(0) = R
  BY <1>1 DEF Upto
<1>4. U(4) = R \cup { y[n] : n \in On(a) }
  BY <1>1 DEF Upto
<1>5. ASSUME NEW n \in 1..4, IsFiniteSet(U(n - 1))
      PROVE  IsFiniteSet(U(n)) /\ C(n) = C(n - 1) + Gain(a, y, n, T)
  <2> DEFINE D == U(n - 1)
             V == U(n)
  <2>1. \A k \in 1..4 : k <= n <=> (k <= n - 1 \/ k = n)
    OBVIOUS
  <2>2. \A k : k \in On(a) <=> k \in 1..4 /\ a[k] = 1
    BY DEF On
  <2>3. \A e : e \in V <=> e \in D \/ (a[n] = 1 /\ e = y[n])
    BY <2>1, <2>2, Zenon DEF Upto
  <2>4. IsFiniteSet(D) /\ y[n] \notin D
    BY <1>2, <1>5
  <2> HIDE DEF D, V
  <2>5. IsFiniteSet(D \cap T) /\ Cardinality(D \cap T) \in Nat
    BY <2>4, FS_Subset, FS_CardinalityType
  <2>6. CASE a[n] = 1 /\ y[n] \in T
    <3>1. V \cap T = (D \cap T) \cup {y[n]} /\ V = D \cup {y[n]}
      BY <2>3, <2>6
    <3>2. y[n] \notin D \cap T
      BY <2>4
    <3>3. IsFiniteSet(V)
      BY <2>4, <3>1, FS_AddElement
    <3>4. Cardinality((D \cap T) \cup {y[n]}) = Cardinality(D \cap T) + 1
      BY <2>5, <3>2, FS_AddElement
    <3>5. Gain(a, y, n, T) = 1
      BY <2>6 DEF Gain
    <3> QED BY <3>1, <3>3, <3>4, <3>5, Zenon DEF D, V
  <2>7. CASE ~(a[n] = 1 /\ y[n] \in T)
    <3>1. V \cap T = D \cap T /\ (V = D \/ V = D \cup {y[n]})
      BY <2>3, <2>7
    <3>2. IsFiniteSet(V)
      BY <2>4, <3>1, FS_AddElement
    <3>3. Cardinality(V \cap T) = Cardinality(D \cap T)
      BY <3>1, Zenon
    <3>4. Gain(a, y, n, T) = 0
      BY <2>7 DEF Gain
    <3> HIDE DEF Gain
    <3>5. Cardinality(D \cap T) = Cardinality(D \cap T) + Gain(a, y, n, T)
      BY <2>5, <3>4
    <3> QED BY <3>2, <3>3, <3>5, Zenon DEF D, V
  <2> QED BY <2>6, <2>7
<1> HIDE DEF U, C
<1>6. 1 - 1 = 0 /\ 2 - 1 = 1 /\ 3 - 1 = 2 /\ 4 - 1 = 3 /\ 1 \in 1..4 /\ 2 \in 1..4 /\ 3 \in 1..4 /\ 4 \in 1..4
  OBVIOUS
<1>7. IsFiniteSet(U(1)) /\ C(1) = C(0) + Gain(a, y, 1, T)
  BY <1>3, <1>5, <1>6
<1>8. IsFiniteSet(U(2)) /\ C(2) = C(1) + Gain(a, y, 2, T)
  BY <1>5, <1>6, <1>7
<1>9. IsFiniteSet(U(3)) /\ C(3) = C(2) + Gain(a, y, 3, T)
  BY <1>5, <1>6, <1>8
<1>10. IsFiniteSet(U(4)) /\ C(4) = C(3) + Gain(a, y, 4, T)
  BY <1>5, <1>6, <1>9
<1>11. C(0) \in Nat /\ C(0) = Cardinality(R \cap T)
  BY <1>3, FS_Subset, FS_CardinalityType DEF C
<1>12. C(4) = Cardinality((R \cup { y[n] : n \in On(a) }) \cap T)
  BY <1>4, Zenon DEF C
<1>13. C(4) = C(0) + Gain(a, y, 1, T) + Gain(a, y, 2, T) + Gain(a, y, 3, T) + Gain(a, y, 4, T)
  BY <1>7, <1>8, <1>9, <1>10, Zenon
<1> QED BY <1>11, <1>12, <1>13, Zenon DEF Tally

\* What a round appends.
NewRow(s, x, a, n) == Given(x[n], Len(s) + Place(a, n))

Appended(s, x, a, r) ==
  /\ \E size \in 1..4 : DOMAIN r = 1..(Len(s) + size)
  /\ \A i \in 1..Len(s) : i \in DOMAIN r /\ r[i] = s[i]
  /\ \A n \in On(a) : Len(s) + Place(a, n) \in DOMAIN r
  /\ \A i \in DOMAIN r : i \notin 1..Len(s) =>
       \E n \in On(a) : i = Len(s) + Place(a, n) /\ r[i] = NewRow(s, x, a, n)
  /\ RowsOf(r) = RowsOf(s) \cup { NewRow(s, x, a, n) : n \in On(a) }

LEMMA RoundAppends ==
  ASSUME NEW s \in Seq(Event), NEW x, NEW a \in Switches
  PROVE  Appended(s, x, a, Numbered(s, RoundOf(x, a)))
<1> SUFFICES ASSUME NEW r, r = Numbered(s, RoundOf(x, a)) PROVE Appended(s, x, a, r)
  OBVIOUS
<1> DEFINE size == 1 + a[2] + a[3] + a[4]
           m == Len(s)
           more == RoundOf(x, a)
<1>1. more \in Seq({ x[n] : n \in 1..4 }) /\ Len(more) = size /\ \A n \in On(a) : more[Place(a, n)] = x[n]
  BY RowsOfRound, Zenon
<1>2. m \in Nat /\ DOMAIN s = 1..m
  OBVIOUS
<1>3. /\ size \in 1..4
      /\ \A n \in On(a) : Place(a, n) \in 1..size
      /\ \A i \in 1..size : \E n \in On(a) : Place(a, n) = i
  BY PlacesOfRound, Zenon
<1> HIDE DEF more, size
<1>4. /\ DOMAIN r = 1..(m + size)
      /\ \A i \in 1..m : r[i] = s[i]
      /\ \A n \in 1..size : r[m + n] = Given(more[n], m + n)
  BY <1>1, NumberedRows, Zenon DEF more
<1> HIDE DEF m
<1>5. \A n \in On(a) : m + Place(a, n) \in DOMAIN r /\ r[m + Place(a, n)] = NewRow(s, x, a, n)
  <2> TAKE n \in On(a)
  <2>1. Place(a, n) \in 1..size
    BY <1>3
  <2>2. m + Place(a, n) \in 1..(m + size)
    BY <1>2, <1>3, <2>1
  <2> QED BY <1>1, <1>4, <2>1, <2>2, Zenon DEF NewRow, m
<1>6. ASSUME NEW i \in DOMAIN r, i \notin 1..m
      PROVE  \E n \in On(a) : i = m + Place(a, n) /\ r[i] = NewRow(s, x, a, n)
  <2>1. i - m \in 1..size /\ i = m + (i - m)
    BY <1>2, <1>3, <1>4, <1>6
  <2>2. PICK n \in On(a) : Place(a, n) = i - m
    BY <1>3, <2>1
  <2> QED BY <1>5, <2>1, <2>2, Zenon
<1>7. \A i \in 1..m : i \in DOMAIN r /\ r[i] = s[i]
  BY <1>2, <1>3, <1>4
<1>8. ASSUME NEW e PROVE e \in RowsOf(r) <=> e \in RowsOf(s) \cup { NewRow(s, x, a, n) : n \in On(a) }
  <2>1. ASSUME e \in RowsOf(r) PROVE e \in RowsOf(s) \/ \E n \in On(a) : e = NewRow(s, x, a, n)
    <3>1. PICK i \in DOMAIN r : e = r[i]
      BY <2>1, Zenon DEF RowsOf
    <3>2. CASE i \in 1..m
      BY <1>2, <1>7, <3>1, <3>2, Zenon DEF RowsOf
    <3>3. CASE i \notin 1..m
      BY <1>6, <3>1, <3>3, Zenon
    <3> QED BY <3>2, <3>3
  <2>2. ASSUME e \in RowsOf(s) PROVE e \in RowsOf(r)
    <3>1. PICK i \in 1..m : e = s[i]
      BY <1>2, <2>2, Zenon DEF RowsOf
    <3> QED BY <1>7, <3>1, Zenon DEF RowsOf
  <2>3. ASSUME NEW n \in On(a), e = NewRow(s, x, a, n) PROVE e \in RowsOf(r)
    BY <1>5, <2>3, Zenon DEF RowsOf
  <2> QED BY <2>1, <2>2, <2>3, Zenon
<1>9. RowsOf(r) = RowsOf(s) \cup { NewRow(s, x, a, n) : n \in On(a) }
  BY <1>8
<1> QED BY <1>3, <1>4, <1>5, <1>6, <1>7, <1>9, Zenon DEF m, Appended

-----------------------------------------------------------------------------
(***************************************************************************)
(* The sentinels.                                                          *)
(***************************************************************************)
SentinelRow(k) == Given(Sentinels[k], k)

SentinelRows == { SentinelRow(k) : k \in DOMAIN Sentinels }

LEMMA RowType ==
  ASSUME NEW id \in EventIds, NEW observed \in Nat, NEW received \in Nat, NEW role \in Roles,
         NEW symbol \in Symbols, NEW sentiment \in Sentiments \cup {Absent}
  PROVE  Row(id, observed, received, role, symbol, sentiment) \in Event
BY DEF Row, Event

LEMMA NamesAreSymbols ==
  ASSUME config \in Configs
  PROVE  /\ \A n \in 1..AtLeastOne(config.symbols) : SymbolNames[n] \in Symbols
         /\ 1 \in 1..AtLeastOne(config.symbols)
<1>1. config.symbols \in Nat
  BY GeneratorAssumption
<1>2. AtLeastOne(config.symbols) \in Nat \ {0}
  BY <1>1 DEF AtLeastOne
<1>3. AtLeastOne(config.symbols) <= Len(SymbolNames) /\ SymbolNames \in Seq(Symbols)
  BY GeneratorAssumption
<1> QED BY <1>2, <1>3

Heads == << PredictionRow(1, 1000, SymbolNames[1]), LateSentinel,
            PredictionRow(3, 1010, SymbolNames[1]), PredictionRow(4, 1030, SymbolNames[1]) >>

Tails == << CorrectionSentinel, PredictionRow(6, 1050, SymbolNames[1]),
            PredictionRow(7, 1070, SymbolNames[1]) >>

LEMMA SentinelsAre ==
  ASSUME config \in Configs
  PROVE  /\ Sentinels \in Seq(Event)
         /\ Sentinels[1] = PredictionRow(1, 1000, SymbolNames[1])
         /\ Sentinels[2] = LateSentinel
         /\ Sentinels[3] = PredictionRow(3, 1010, SymbolNames[1])
         /\ Sentinels[4] = PredictionRow(4, 1030, SymbolNames[1])
         /\ HasCorrections => /\ DOMAIN Sentinels = 1..7 /\ Len(Sentinels) = 7
                              /\ Sentinels[5] = CorrectionSentinel
                              /\ Sentinels[6] = PredictionRow(6, 1050, SymbolNames[1])
                              /\ Sentinels[7] = PredictionRow(7, 1070, SymbolNames[1])
         /\ ~HasCorrections => DOMAIN Sentinels = 1..4 /\ Len(Sentinels) = 4
<1> DEFINE a == SymbolNames[1]
<1>1. a \in Symbols
  BY NamesAreSymbols
<1>2. SentinelIds \subseteq EventIds
  BY GeneratorAssumption
<1>3. 1 \in EventIds /\ 2 \in EventIds /\ 3 \in EventIds /\ 4 \in EventIds /\ 5 \in EventIds
      /\ 6 \in EventIds /\ 7 \in EventIds
  BY <1>2 DEF SentinelIds
<1>4. \A id \in EventIds, time \in Nat : PredictionRow(id, time, a) \in Event
  BY <1>1, RowType DEF PredictionRow, Roles
<1>5. LateSentinel \in Event /\ CorrectionSentinel \in Event
  BY <1>1, <1>3 DEF LateSentinel, CorrectionSentinel, Row, Event, Roles, Sentiments
<1>6. Heads \in Seq(Event) /\ Len(Heads) = 4
  BY <1>3, <1>4, <1>5 DEF Heads
<1>7. Tails \in Seq(Event) /\ Len(Tails) = 3
  BY <1>3, <1>4, <1>5 DEF Tails
<1>8. /\ Heads[1] = PredictionRow(1, 1000, a) /\ Heads[2] = LateSentinel
      /\ Heads[3] = PredictionRow(3, 1010, a) /\ Heads[4] = PredictionRow(4, 1030, a)
  BY DEF Heads
<1>9. /\ Tails[1] = CorrectionSentinel /\ Tails[2] = PredictionRow(6, 1050, a)
      /\ Tails[3] = PredictionRow(7, 1070, a)
  BY DEF Tails
<1>10. Sentinels = Heads \o (IF HasCorrections THEN Tails ELSE <<>>)
  BY DEF Sentinels, Heads, Tails
<1> DEFINE all == Heads \o Tails
<1>11. all \in Seq(Event) /\ Len(all) = 7 /\ DOMAIN all = 1..7
  <2>1. all \in Seq(Event) /\ Len(all) = Len(Heads) + Len(Tails)
    BY <1>6, <1>7, ConcatProperties, Zenon
  <2>2. Len(all) = 7
    BY <1>6, <1>7, <2>1
  <2>3. DOMAIN all = 1..Len(all)
    BY <2>1, LenProperties, Zenon
  <2> QED BY <2>1, <2>2, <2>3, Zenon
<1>12. \A i \in 1..7 : all[i] = IF i <= 4 THEN Heads[i] ELSE Tails[i - 4]
  <2>1. \A i \in 1..(Len(Heads) + Len(Tails)) :
          all[i] = IF i <= Len(Heads) THEN Heads[i] ELSE Tails[i - Len(Heads)]
    BY <1>6, <1>7, ConcatProperties, Zenon
  <2>2. Len(Heads) + Len(Tails) = 7 /\ Len(Heads) = 4
    BY <1>6, <1>7
  <2> HIDE DEF all
  <2> QED BY <2>1, <2>2
<1> HIDE DEF all
<1>13. /\ all[1] = Heads[1] /\ all[2] = Heads[2] /\ all[3] = Heads[3] /\ all[4] = Heads[4]
       /\ all[5] = Tails[1] /\ all[6] = Tails[2] /\ all[7] = Tails[3]
  BY <1>12
<1>14. CASE HasCorrections
  <2>1. Sentinels = all
    BY <1>10, <1>14 DEF all
  <2>2. Sentinels \in Seq(Event) /\ Len(Sentinels) = 7 /\ DOMAIN Sentinels = 1..7
    BY <1>11, <2>1, Zenon
  <2>3. /\ Sentinels[1] = PredictionRow(1, 1000, a) /\ Sentinels[2] = LateSentinel
        /\ Sentinels[3] = PredictionRow(3, 1010, a) /\ Sentinels[4] = PredictionRow(4, 1030, a)
    BY <1>8, <1>13, <2>1
  <2>4. /\ Sentinels[5] = CorrectionSentinel /\ Sentinels[6] = PredictionRow(6, 1050, a)
        /\ Sentinels[7] = PredictionRow(7, 1070, a)
    BY <1>9, <1>13, <2>1
  <2> QED BY <1>14, <2>2, <2>3, <2>4, Zenon
<1>15. CASE ~HasCorrections
  <2>1. Sentinels = Heads
    BY <1>6, <1>10, <1>15
  <2>2. DOMAIN Heads = 1..4
    BY <1>6
  <2> QED BY <1>6, <1>8, <1>15, <2>1, <2>2, Zenon
<1> QED BY <1>14, <1>15, Zenon

LEMMA SmallCounts ==
  /\ Cardinality({}) = 0
  /\ Cardinality({2}) = 1 /\ Cardinality({5}) = 1 /\ Cardinality({2, 5}) = 2
  /\ Cardinality({1, 3, 4}) = 3 /\ Cardinality({1, 3, 4, 6, 7}) = 5
<1>1. IsFiniteSet({}) /\ Cardinality({}) = 0
  BY FS_EmptySet
<1>2. IsFiniteSet({2}) /\ Cardinality({2}) = 1 /\ Cardinality({5}) = 1 /\ IsFiniteSet({1}) /\ Cardinality({1}) = 1
  BY FS_Singleton
<1>3. {2, 5} = {2} \cup {5} /\ 5 \notin {2}
  OBVIOUS
<1>4. Cardinality({2, 5}) = 2
  BY <1>2, <1>3, FS_AddElement
<1>5. {1, 3} = {1} \cup {3} /\ 3 \notin {1}
  OBVIOUS
<1>6. IsFiniteSet({1, 3}) /\ Cardinality({1, 3}) = 2
  BY <1>2, <1>5, FS_AddElement
<1>7. {1, 3, 4} = {1, 3} \cup {4} /\ 4 \notin {1, 3}
  OBVIOUS
<1>8. IsFiniteSet({1, 3, 4}) /\ Cardinality({1, 3, 4}) = 3
  BY <1>6, <1>7, FS_AddElement
<1>9. {1, 3, 4, 6} = {1, 3, 4} \cup {6} /\ 6 \notin {1, 3, 4}
  OBVIOUS
<1>10. IsFiniteSet({1, 3, 4, 6}) /\ Cardinality({1, 3, 4, 6}) = 4
  BY <1>8, <1>9, FS_AddElement
<1>11. {1, 3, 4, 6, 7} = {1, 3, 4, 6} \cup {7} /\ 7 \notin {1, 3, 4, 6}
  OBVIOUS
<1>12. Cardinality({1, 3, 4, 6, 7}) = 5
  BY <1>10, <1>11, FS_AddElement
<1> QED BY <1>1, <1>2, <1>4, <1>8, <1>12

-----------------------------------------------------------------------------
(***************************************************************************)
(* The inductive invariant.                                                *)
(***************************************************************************)
Typed ==
  /\ config \in Configs
  /\ phase \in {"sentinels", "data", "shuffle", "done", "panicked"}
  /\ index \in 0..AtLeastOne(config.events)
  /\ events \in Seq(Event)
  /\ swaps \in 0..Len(events)

\* A row is a sentinel or one of the rounds so far.
Known(e) ==
  /\ e.seq \in 1..Len(events)
  /\ e.id < 10 * (index + 1)
  /\ e.id < 10 => e \in SentinelRows
  /\ e.id >= 10 => /\ UpdatesSignalState(e) => e.observed_time >= 2000
                   /\ Roomy => e.received_time >= 2000
  /\ UpdatesSignalState(e) => e.sentiment \in Sentiments
  /\ e.score = Absent

RowsAreKnown == \A e \in RowsOf(events) : Known(e)

SentinelsAreThere ==
  /\ phase = "sentinels" => events = <<>> /\ index = 0 /\ swaps = 0
  /\ phase # "sentinels" => SentinelRows \subseteq RowsOf(events)

Corrects(e, f) ==
  e.id >= 10 /\ f.id = e.id + 2 /\ e.role = "feature" /\ f.role = "feature_correction"

RowsFollow == Roomy => \A e, f \in RowsOf(events) : Corrects(e, f) => ReceivedBefore(e, f)

Rows(role) == { e \in Event : e.role = role }

LateRows == { e \in Event : UpdatesSignalState(e) /\ e.received_time > e.observed_time }

CountIn(T) == Cardinality(RowsOf(events) \cap T)

Counted ==
  /\ stats.features = CountIn(Rows("feature"))
  /\ stats.predictions = CountIn(Rows("prediction"))
  /\ stats.corrections = CountIn(Rows("feature_correction"))
  /\ stats.outcomes = CountIn(Rows("outcome"))
  /\ Roomy => stats.late_updates = CountIn(LateRows)

GInv ==
  /\ Typed
  /\ Apiece(events)
  /\ RowsAreKnown
  /\ SentinelsAreThere
  /\ RowsFollow
  /\ Counted

LEMMA GivenRow ==
  ASSUME NEW e \in Event, NEW k \in Nat
  PROVE  /\ Given(e, k) \in Event
         /\ Given(e, k).id = e.id /\ Given(e, k).seq = k /\ Given(e, k).role = e.role
         /\ Given(e, k).observed_time = e.observed_time
         /\ Given(e, k).received_time = e.received_time
         /\ Given(e, k).sentiment = e.sentiment /\ Given(e, k).score = e.score
         /\ Given(e, k).symbol = e.symbol
BY DEF Given, Event

\* Roomy speaks of the configuration alone.
LEMMA RoomyKept ==
  ASSUME config' = config
  PROVE  Roomy' = Roomy
BY DEF Roomy, MaxLag

LEMMA InitialGInv == Init => GInv
<1> SUFFICES ASSUME Init PROVE GInv
  OBVIOUS
<1>1. RowsOf(<<>>) = {}
  BY DEF RowsOf
<1>2. AtLeastOne(config.events) \in Nat
  BY GeneratorAssumption DEF Init, AtLeastOne
<1>3. Typed
  BY <1>2 DEF Init, Typed
<1>4. Apiece(events)
  BY DEF Init, Apiece
<1>5. RowsAreKnown /\ RowsFollow /\ SentinelsAreThere
  BY <1>1 DEF Init, RowsAreKnown, RowsFollow, SentinelsAreThere
<1>6. \A T : {} \cap T = {}
  OBVIOUS
<1>7. \A T : CountIn(T) = 0
  BY <1>1, <1>6, FS_EmptySet, Zenon DEF Init, CountIn
<1>8. Counted
  BY <1>7 DEF Init, Counted
<1> QED BY <1>3, <1>4, <1>5, <1>8 DEF GInv

\* The rows of the sentinels, each at its place.
LEMMA SentinelsGInv == GInv /\ AddSentinels => GInv'
<1> SUFFICES ASSUME GInv, AddSentinels PROVE GInv'
  OBVIOUS
<1> DEFINE s == Sentinels
           r == Numbered(<<>>, s)
           a == SymbolNames[1]
<1>1. /\ config \in Configs /\ config' = config /\ index' = 0 /\ swaps' = 0 /\ phase' = "data"
      /\ events' = r /\ stats' = InitialStats
  BY DEF AddSentinels, GInv, Typed, SentinelsAreThere
<1>2. /\ s \in Seq(Event)
      /\ s[1] = PredictionRow(1, 1000, a) /\ s[2] = LateSentinel
      /\ s[3] = PredictionRow(3, 1010, a) /\ s[4] = PredictionRow(4, 1030, a)
      /\ HasCorrections => /\ DOMAIN s = 1..7 /\ Len(s) = 7
                           /\ s[5] = CorrectionSentinel
                           /\ s[6] = PredictionRow(6, 1050, a)
                           /\ s[7] = PredictionRow(7, 1070, a)
      /\ ~HasCorrections => DOMAIN s = 1..4 /\ Len(s) = 4
  BY <1>1, SentinelsAre, Zenon
<1>3. DOMAIN r = 1..Len(s) /\ \A n \in 1..Len(s) : r[n] = SentinelRow(n)
  <2>1. <<>> \in Seq(Event) /\ Len(<<>>) = 0
    OBVIOUS
  <2>2. /\ DOMAIN r = 1..(Len(<<>>) + Len(s))
        /\ \A n \in 1..Len(s) : r[Len(<<>>) + n] = Given(s[n], Len(<<>>) + n)
    <3> DEFINE none == <<>>
    <3>1. none \in Seq(Event) /\ s \in Seq(Event)
      BY <1>2, <2>1, Zenon
    <3> HIDE DEF none, s
    <3>2. /\ DOMAIN Numbered(none, s) = 1..(Len(none) + Len(s))
          /\ \A n \in 1..Len(s) : Numbered(none, s)[Len(none) + n] = Given(s[n], Len(none) + n)
      BY <3>1, NumberedRows, Zenon
    <3> QED BY <3>2, Zenon DEF none, s
  <2>3. \A n \in 1..Len(s) : Len(<<>>) + n = n
    BY <1>2, <2>1
  <2>4. Len(<<>>) + Len(s) = Len(s)
    BY <1>2, <2>1
  <2> QED BY <2>2, <2>3, <2>4, Zenon DEF SentinelRow
<1>4. DOMAIN s = 1..Len(s) /\ Len(s) \in Nat /\ (Len(s) = 4 \/ Len(s) = 7)
  BY <1>2
<1>5. a \in Symbols
  BY <1>1, NamesAreSymbols
<1>6. \A n \in 1..Len(s) : s[n] \in Event /\ s[n].id = n /\ s[n].score = Absent
                           /\ (UpdatesSignalState(s[n]) => s[n].sentiment \in Sentiments)
  <2> TAKE n \in 1..Len(s)
  <2>1. \/ n \in {1, 3, 4} /\ \E time \in Nat : s[n] = PredictionRow(n, time, a)
        \/ HasCorrections /\ n \in {6, 7} /\ \E time \in Nat : s[n] = PredictionRow(n, time, a)
        \/ n = 2 /\ s[n] = LateSentinel
        \/ HasCorrections /\ n = 5 /\ s[n] = CorrectionSentinel
    <3> HIDE DEF s, a
    <3> QED BY <1>2, <1>4
  <2>2. s[n] \in Event
    <3> HIDE DEF s
    <3> QED BY <1>2, <1>4
  <2>3. \A time : /\ PredictionRow(n, time, a).id = n /\ PredictionRow(n, time, a).score = Absent
                  /\ PredictionRow(n, time, a).role = "prediction"
    BY DEF PredictionRow, Row
  <2>4. /\ LateSentinel.id = 2 /\ LateSentinel.score = Absent /\ LateSentinel.sentiment \in Sentiments
        /\ CorrectionSentinel.id = 5 /\ CorrectionSentinel.score = Absent
        /\ CorrectionSentinel.sentiment \in Sentiments
    BY DEF LateSentinel, CorrectionSentinel, Row, Sentiments
  <2>5. s[n].id = n /\ s[n].score = Absent /\ (s[n].role = "prediction" \/ s[n].sentiment \in Sentiments)
    <3> HIDE DEF s, a
    <3> QED BY <2>1, <2>3, <2>4
  <2> HIDE DEF s
  <2> QED BY <2>2, <2>5 DEF UpdatesSignalState, FeatureRoles
<1> HIDE DEF s, a
<1>7. \A n \in 1..Len(s) : /\ r[n] \in Event /\ r[n].id = n /\ r[n].seq = n /\ r[n].score = Absent
                           /\ UpdatesSignalState(r[n]) => r[n].sentiment \in Sentiments
                           /\ r[n].role = s[n].role /\ r[n].observed_time = s[n].observed_time
                           /\ r[n].received_time = s[n].received_time
  <2> TAKE n \in 1..Len(s)
  <2>1. r[n] = Given(s[n], n) /\ n \in Nat
    BY <1>3, <1>4 DEF SentinelRow, s
  <2>2. /\ r[n] \in Event
        /\ r[n].id = s[n].id /\ r[n].seq = n /\ r[n].role = s[n].role
        /\ r[n].observed_time = s[n].observed_time
        /\ r[n].received_time = s[n].received_time
        /\ r[n].sentiment = s[n].sentiment /\ r[n].score = s[n].score
    BY <1>6, <2>1, GivenRow
  <2> QED BY <1>6, <2>2 DEF UpdatesSignalState
<1> HIDE DEF r
<1>8. r \in Seq(Event) /\ Len(r) = Len(s)
  <2>1. r = [n \in 1..Len(s) |-> r[n]]
    BY <1>1, <1>3 DEF r, Numbered
  <2>2. r \in [1..Len(s) -> Event]
    BY <1>7, <2>1
  <2> QED BY <1>4, <2>2, SeqDef, LenProperties
<1>9. RowsOf(r) = SentinelRows
  BY <1>3, <1>4, Zenon DEF RowsOf, SentinelRows, s
<1>10. Apiece(r)
  BY <1>3, <1>7 DEF Apiece
<1>11. Typed'
  <2>1. AtLeastOne(config.events) \in Nat
    BY <1>1, GeneratorAssumption DEF AtLeastOne
  <2> QED BY <1>1, <1>4, <1>8, <2>1 DEF Typed
<1>12. SentinelRows' = SentinelRows
  BY <1>1 DEF SentinelRows, SentinelRow, Sentinels, HasCorrections, PredictionRow, LateSentinel,
              CorrectionSentinel, Row, Given
<1>13. \A e \in RowsOf(r) : \E n \in 1..Len(s) : e = r[n]
  BY <1>3, Zenon DEF RowsOf
<1>19. Roomy' = Roomy
  BY <1>1, RoomyKept
<1>14. RowsAreKnown'
  <2> SUFFICES ASSUME NEW e \in RowsOf(r) PROVE Known(e)'
    BY <1>1 DEF RowsAreKnown
  <2>1. PICK n \in 1..Len(s) : e = r[n]
    BY <1>13
  <2>2. e.id = n /\ e.seq = n /\ e.score = Absent /\ n < 10 /\ n \in Nat
    BY <1>4, <1>7, <2>1
  <2>3. UpdatesSignalState(e) => e.sentiment \in Sentiments
    BY <1>7, <2>1
  <2>4. e \in SentinelRows'
    BY <1>9, <1>12
  <2> QED BY <1>1, <1>8, <2>2, <2>3, <2>4 DEF Known
<1>15. SentinelsAreThere'
  BY <1>1, <1>9, <1>12 DEF SentinelsAreThere
<1>16. RowsFollow'
  <2> SUFFICES ASSUME NEW e \in RowsOf(r) PROVE ~(e.id >= 10)
    BY <1>1 DEF RowsFollow, Corrects
  <2> QED BY <1>4, <1>7, <1>13
<1>17. ASSUME NEW T PROVE CountIn(T)' = Cardinality({ n \in 1..Len(s) : r[n] \in T })
  BY <1>1, <1>3, <1>8, <1>10, CountsRows, Zenon DEF CountIn
<1>18. Counted'
  <2>1. /\ r[1].role = "prediction" /\ r[2].role = "feature" /\ r[3].role = "prediction" /\ r[4].role = "prediction"
        /\ r[2].received_time > r[2].observed_time
        /\ HasCorrections => /\ r[5].role = "feature_correction" /\ r[6].role = "prediction" /\ r[7].role = "prediction"
                             /\ r[5].received_time > r[5].observed_time
    BY <1>2, <1>4, <1>7 DEF PredictionRow, LateSentinel, CorrectionSentinel, Row
  <2>2. \A n \in 1..Len(s) : r[n] \in Event
    BY <1>7
  <2>3. CASE HasCorrections
    <3>1. Len(s) = 7
      BY <1>2, <2>3
    <3>2. { n \in 1..Len(s) : r[n] \in Rows("feature") } = {2}
      BY <2>1, <2>2, <2>3, <3>1 DEF Rows
    <3>3. { n \in 1..Len(s) : r[n] \in Rows("prediction") } = {1, 3, 4, 6, 7}
      BY <2>1, <2>2, <2>3, <3>1 DEF Rows
    <3>4. { n \in 1..Len(s) : r[n] \in Rows("feature_correction") } = {5}
      BY <2>1, <2>2, <2>3, <3>1 DEF Rows
    <3>5. { n \in 1..Len(s) : r[n] \in Rows("outcome") } = {}
      BY <2>1, <2>2, <2>3, <3>1 DEF Rows
    <3>6. { n \in 1..Len(s) : r[n] \in LateRows } = {2, 5}
      BY <2>1, <2>2, <2>3, <3>1 DEF LateRows, UpdatesSignalState, FeatureRoles
    <3>7. InitialStats = [ features |-> 1, predictions |-> 5, corrections |-> 1, outcomes |-> 0, late_updates |-> 2 ]
      BY <2>3 DEF InitialStats
    <3> QED BY <1>1, <1>17, <3>2, <3>3, <3>4, <3>5, <3>6, <3>7, SmallCounts DEF Counted
  <2>4. CASE ~HasCorrections
    <3>1. Len(s) = 4
      BY <1>2, <2>4
    <3>2. { n \in 1..Len(s) : r[n] \in Rows("feature") } = {2}
      BY <2>1, <2>2, <3>1 DEF Rows
    <3>3. { n \in 1..Len(s) : r[n] \in Rows("prediction") } = {1, 3, 4}
      BY <2>1, <2>2, <3>1 DEF Rows
    <3>4. { n \in 1..Len(s) : r[n] \in Rows("feature_correction") } = {}
      BY <2>1, <2>2, <3>1 DEF Rows
    <3>5. { n \in 1..Len(s) : r[n] \in Rows("outcome") } = {}
      BY <2>1, <2>2, <3>1 DEF Rows
    <3>6. { n \in 1..Len(s) : r[n] \in LateRows } = {2}
      BY <2>1, <2>2, <3>1 DEF LateRows, UpdatesSignalState, FeatureRoles
    <3>7. InitialStats = [ features |-> 1, predictions |-> 3, corrections |-> 0, outcomes |-> 0, late_updates |-> 1 ]
      BY <2>4 DEF InitialStats
    <3> QED BY <1>1, <1>17, <3>2, <3>3, <3>4, <3>5, <3>6, <3>7, SmallCounts DEF Counted
  <2> QED BY <2>3, <2>4
<1> QED BY <1>1, <1>10, <1>11, <1>14, <1>15, <1>16, <1>18 DEF GInv

-----------------------------------------------------------------------------
(***************************************************************************)
(* A round of the loop.                                                    *)
(***************************************************************************)
\* The kinds of row the round appends.
SwitchesOf(corrects, pays) ==
  [ n \in 1..4 |-> IF n = 1 THEN 1 ELSE IF n = 2 THEN CountIf(Predicts)
                   ELSE IF n = 3 THEN CountIf(corrects) ELSE CountIf(pays) ]

RowsDrawn(symbol, lag, sentiment, delay, corrected) ==
  << FeatureRow(symbol, lag, sentiment), PredictionRow(IdOf(1), Observed + 1, symbol),
     CorrectionRow(symbol, lag, delay, corrected), OutcomeRow(symbol) >>

LEMMA SwitchesAre ==
  ASSUME NEW corrects \in BOOLEAN, NEW pays \in BOOLEAN
  PROVE  LET a == SwitchesOf(corrects, pays)
         IN  /\ a \in Switches
             /\ a[1] = 1 /\ a[2] = CountIf(Predicts) /\ a[3] = CountIf(corrects) /\ a[4] = CountIf(pays)
             /\ (a[2] = 1 <=> Predicts) /\ (a[3] = 1 <=> corrects) /\ (a[4] = 1 <=> pays)
BY DEF SwitchesOf, Switches, CountIf

\* A sum that fits is not wrapped.
LEMMA WrappedSum ==
  ASSUME NEW n \in Nat
  PROVE  Wrapped(n) \in Nat /\ (n <= MaxTime => Wrapped(n) = n)
<1>1. \A m \in Nat : n % (m + 1) \in Nat /\ (n <= m => n % (m + 1) = n)
  BY Z3
<1>2. MaxTime \in Nat
  BY GeneratorAssumption
<1> QED BY <1>1, <1>2, Zenon DEF Wrapped

LEMMA DrawnFrom ==
  ASSUME config \in Configs, NEW late \in BOOLEAN, NEW lag \in Lags(late),
         NEW delay \in RangeU64(MaxLag)
  PROVE  /\ MaxLag \in Nat /\ delay \in Nat /\ delay < MaxLag /\ lag \in Nat
         /\ ~late => lag = 0
         /\ late /\ MaxLag + 1 <= MaxTime => lag >= 2 /\ lag <= MaxLag + 1
<1>1. config.max_lag \in Nat
  BY GeneratorAssumption
<1>2. MaxLag \in Nat
  BY <1>1 DEF MaxLag, AtLeastOne
<1>3. \A d \in RangeU64(MaxLag) : d \in Nat /\ d < MaxLag
  BY GeneratorAssumption DEF RangeU64
<1>4. CASE ~late
  BY <1>2, <1>3, <1>4 DEF Lags
<1>5. CASE late
  <2>1. PICK d \in RangeU64(MaxLag) : lag = Wrapped(2 + d)
    BY <1>5 DEF Lags
  <2>2. d \in Nat /\ d < MaxLag /\ 2 + d \in Nat
    BY <1>3
  <2>3. lag \in Nat /\ (2 + d <= MaxTime => lag = 2 + d)
    BY <2>1, <2>2, WrappedSum, Zenon
  <2>4. MaxTime \in Nat
    BY GeneratorAssumption
  <2> HIDE DEF MaxLag
  <2> QED BY <1>2, <1>3, <1>5, <2>2, <2>3, <2>4
<1> QED BY <1>4, <1>5

\* With room for every sum of a configuration, no round wraps.
LEMMA RoomForRound ==
  ASSUME config \in Configs, Roomy, index \in Nat, index < AtLeastOne(config.events)
  PROVE  Observed + 2 * MaxLag + 1 <= MaxTime
<1>1. AtLeastOne(config.events) \in Nat /\ MaxLag \in Nat /\ MaxTime \in Nat
  BY GeneratorAssumption DEF AtLeastOne, MaxLag
<1> DEFINE n == AtLeastOne(config.events)
<1>2. 2000 + 10 * (n - 1) + 2 * MaxLag + 1 <= MaxTime /\ index < n /\ n \in Nat
  BY <1>1 DEF Roomy
<1> HIDE DEF n
<1> QED BY <1>1, <1>2 DEF Observed

\* The four rows of a round are of different kinds and named after the round.
Drawn(x, late) ==
  /\ \A n \in 1..4 : /\ x[n] \in Event /\ x[n].id = 10 * (index + 1) + (n - 1)
                     /\ UpdatesSignalState(x[n]) => x[n].observed_time >= 2000
                     /\ Roomy => x[n].received_time >= 2000
                     /\ UpdatesSignalState(x[n]) => x[n].sentiment \in Sentiments
                     /\ x[n].score = Absent
  /\ x[1].role = "feature" /\ x[2].role = "prediction"
  /\ x[3].role = "feature_correction" /\ x[4].role = "outcome"
  /\ Roomy => /\ x[1].received_time < x[3].received_time
              /\ x[1].received_time > x[1].observed_time <=> late

LEMMA DrawnRows ==
  ASSUME config \in Configs, index \in Nat, index < AtLeastOne(config.events),
         NEW symbol \in Symbols, NEW late \in BOOLEAN, NEW lag \in Lags(late),
         NEW sentiment \in Sentiments,
         NEW delay \in RangeU64(MaxLag), NEW corrected \in Sentiments
  PROVE  Drawn(RowsDrawn(symbol, lag, sentiment, delay, corrected), late)
<1> DEFINE x == RowsDrawn(symbol, lag, sentiment, delay, corrected)
           f == FeatureRow(symbol, lag, sentiment)
           p == PredictionRow(IdOf(1), Observed + 1, symbol)
           c == CorrectionRow(symbol, lag, delay, corrected)
           o == OutcomeRow(symbol)
<1>1. /\ MaxLag \in Nat /\ delay \in Nat /\ delay < MaxLag /\ lag \in Nat
      /\ ~late => lag = 0
      /\ late /\ MaxLag + 1 <= MaxTime => lag >= 2 /\ lag <= MaxLag + 1
  BY DrawnFrom
<1>2. \A kind \in 0..3 : IdOf(kind) \in EventIds /\ IdOf(kind) = 10 * (index + 1) + kind
  <2>1. AtLeastOne(config.events) \in Nat
    BY GeneratorAssumption DEF AtLeastOne
  <2>2. index + 1 \in 1..AtLeastOne(config.events)
    BY <2>1
  <2>3. \A kind \in 0..3 : IdOfRound(index + 1, kind) \in EventIds
    BY <2>2, GeneratorAssumption, Zenon
  <2> QED BY <2>3 DEF IdOf, IdOfRound
<1>3. Observed \in Nat /\ Observed >= 2000
  BY DEF Observed
<1>4. 0 \in 0..3 /\ 1 \in 0..3 /\ 2 \in 0..3 /\ 3 \in 0..3
  OBVIOUS
<1> DEFINE base == 10 * (index + 1)
<1>5. base \in Nat
  OBVIOUS
<1>6. /\ IdOf(0) \in EventIds /\ IdOf(1) \in EventIds /\ IdOf(2) \in EventIds /\ IdOf(3) \in EventIds
      /\ IdOf(0) = base + 0 /\ IdOf(1) = base + 1 /\ IdOf(2) = base + 2 /\ IdOf(3) = base + 3
  BY <1>2, <1>4, Zenon
<1> HIDE DEF base
<1>18. MaxTime \in Nat /\ (Roomy => Observed + 2 * MaxLag + 1 <= MaxTime)
  BY RoomForRound, GeneratorAssumption
<1> DEFINE heard == Received(lag)
           amended == Wrapped(Received(lag) + 1 + delay)
<1>19. /\ heard \in Nat /\ amended \in Nat /\ OutcomeTime \in Nat
       /\ Roomy => /\ heard = Observed + lag /\ amended = Observed + lag + 1 + delay
                   /\ OutcomeTime = Observed + MaxLag + 1
                   /\ (late => lag > 0) /\ lag <= MaxLag + 1
  <2>1. Observed + lag \in Nat /\ Observed + MaxLag + 1 \in Nat
    BY <1>1, <1>3
  <2>2. heard \in Nat /\ (Observed + lag <= MaxTime => heard = Observed + lag)
    BY <2>1, WrappedSum, Zenon DEF Received
  <2>3. /\ OutcomeTime \in Nat
        /\ Observed + MaxLag + 1 <= MaxTime => OutcomeTime = Observed + MaxLag + 1
    BY <2>1, WrappedSum, Zenon DEF OutcomeTime
  <2> HIDE DEF heard
  <2>4. heard + 1 + delay \in Nat
    BY <1>1, <2>2
  <2>5. amended \in Nat /\ (heard + 1 + delay <= MaxTime => amended = heard + 1 + delay)
    BY <2>4, WrappedSum, Zenon DEF heard
  <2> HIDE DEF amended
  <2>6. ASSUME Roomy
        PROVE  /\ heard = Observed + lag /\ amended = Observed + lag + 1 + delay
               /\ OutcomeTime = Observed + MaxLag + 1
               /\ (late => lag > 0) /\ lag <= MaxLag + 1
    <3>1. Observed + 2 * MaxLag + 1 <= MaxTime
      BY <1>18, <2>6
    <3>2. lag <= MaxLag + 1 /\ (late => lag > 0)
      BY <1>1, <1>3, <1>18, <3>1
    <3>3. /\ Observed + lag <= MaxTime /\ Observed + MaxLag + 1 <= MaxTime
          /\ Observed + lag + 1 + delay <= MaxTime
      BY <1>1, <1>3, <1>18, <3>1, <3>2
    <3>4. heard = Observed + lag /\ OutcomeTime = Observed + MaxLag + 1
      BY <2>2, <2>3, <3>3, Zenon
    <3> QED BY <2>5, <3>2, <3>3, <3>4, Zenon
  <2> QED BY <2>2, <2>3, <2>5, <2>6
<1> HIDE DEF heard, amended
<1>7. /\ f \in Event /\ f.id = base + 0 /\ f.observed_time >= 2000
      /\ f.sentiment \in Sentiments /\ f.score = Absent /\ f.role = "feature"
      /\ f.observed_time = Observed /\ f.received_time = heard
  <2>1. f = Row(IdOf(0), Observed, heard, "feature", symbol, sentiment)
    BY Zenon DEF FeatureRow, heard
  <2> QED BY <1>3, <1>6, <1>19, <2>1 DEF Row, Event, Roles
<1>8. /\ p \in Event /\ p.id = base + 1 /\ p.received_time >= 2000
      /\ p.score = Absent /\ p.role = "prediction"
  BY <1>1, <1>3, <1>6 DEF PredictionRow, Row, Event, Roles
<1>9. /\ c \in Event /\ c.id = base + 2 /\ c.observed_time >= 2000
      /\ c.sentiment \in Sentiments /\ c.score = Absent /\ c.role = "feature_correction"
      /\ c.received_time = amended
  <2>1. c = Row(IdOf(2), Observed + 2, amended, "feature_correction", symbol, corrected)
    BY Zenon DEF CorrectionRow, amended
  <2> QED BY <1>3, <1>6, <1>19, <2>1 DEF Row, Event, Roles
<1>10. /\ o \in Event /\ o.id = base + 3 /\ o.received_time = OutcomeTime
       /\ o.score = Absent /\ o.role = "outcome"
  BY <1>3, <1>6, <1>19 DEF OutcomeRow, Row, Event, Roles
<1>11. x[1] = f /\ x[2] = p /\ x[3] = c /\ x[4] = o
  BY DEF RowsDrawn
<1> HIDE DEF x, f, p, c, o
<1>12. Roomy => /\ f.received_time < c.received_time
                /\ (f.received_time > f.observed_time <=> late)
                /\ f.received_time >= 2000 /\ c.received_time >= 2000 /\ o.received_time >= 2000
  BY <1>1, <1>3, <1>7, <1>9, <1>10, <1>19
<1>13. ~UpdatesSignalState(p) /\ ~UpdatesSignalState(o)
  BY <1>8, <1>10 DEF UpdatesSignalState, FeatureRoles
<1>14. \A n \in 1..4 : /\ x[n] \in Event /\ x[n].id = base + (n - 1)
                       /\ UpdatesSignalState(x[n]) => x[n].observed_time >= 2000
                       /\ Roomy => x[n].received_time >= 2000
                       /\ UpdatesSignalState(x[n]) => x[n].sentiment \in Sentiments
                       /\ x[n].score = Absent
  <2> TAKE n \in 1..4
  <2>1. CASE n = 1
    BY <1>5, <1>7, <1>11, <1>12, <2>1
  <2>2. CASE n = 2
    BY <1>5, <1>8, <1>11, <1>13, <2>2
  <2>3. CASE n = 3
    BY <1>5, <1>9, <1>11, <1>12, <2>3
  <2>4. CASE n = 4
    BY <1>5, <1>10, <1>11, <1>12, <1>13, <2>4
  <2> QED BY <2>1, <2>2, <2>3, <2>4
<1>15. /\ x[1].role = "feature" /\ x[2].role = "prediction"
       /\ x[3].role = "feature_correction" /\ x[4].role = "outcome"
  BY <1>7, <1>8, <1>9, <1>10, <1>11
<1>16. Roomy => /\ x[1].received_time < x[3].received_time
                /\ x[1].received_time > x[1].observed_time <=> late
  BY <1>11, <1>12
<1>17. Drawn(x, late)
  BY <1>14, <1>15, <1>16, Zenon DEF Drawn, base
<1> QED BY <1>17, Zenon DEF x

LEMMA RoundGInv == GInv /\ GenerateRound => GInv'
<1> SUFFICES ASSUME GInv, GenerateRound PROVE GInv'
  OBVIOUS
<1>1. /\ config \in Configs /\ config' = config /\ index \in Nat /\ index < AtLeastOne(config.events)
      /\ index' = index + 1 /\ swaps' = swaps /\ phase' = phase /\ phase = "data"
      /\ events \in Seq(Event) /\ swaps \in 0..Len(events)
      /\ AtLeastOne(config.events) \in Nat
  <2>1. AtLeastOne(config.events) \in Nat
    BY GeneratorAssumption DEF GInv, Typed, AtLeastOne
  <2> QED BY <2>1 DEF GenerateRound, GInv, Typed
<1>34. PICK n \in 1..AtLeastOne(config.symbols), late \in Chance(config.late_rate),
            sentiment \in Sentiments, delay \in RangeU64(MaxLag), corrected \in Sentiments,
            corrects \in Chance(config.correction_rate), pays \in Chance(config.outcome_rate) :
         \E lag \in Lags(late) :
           LET symbol     == SymbolNames[n]
               correction == CorrectionRow(symbol, lag, delay, corrected)
           IN  /\ events' = Numbered(events,
                              << FeatureRow(symbol, lag, sentiment) >>
                              \o Only(Predicts, PredictionRow(IdOf(1), Observed + 1, symbol))
                              \o Only(corrects, correction)
                              \o Only(pays, OutcomeRow(symbol)))
               /\ stats' = [ features     |-> stats.features + 1,
                             predictions  |-> stats.predictions + CountIf(Predicts),
                             corrections  |-> stats.corrections + CountIf(corrects),
                             outcomes     |-> stats.outcomes + CountIf(pays),
                             late_updates |-> stats.late_updates + CountIf(late)
                               + CountIf(corrects /\ LateCorrection(correction, lag)) ]
  BY Zenon DEF GenerateRound
<1>2. PICK lag \in Lags(late) :
        LET symbol     == SymbolNames[n]
            correction == CorrectionRow(symbol, lag, delay, corrected)
        IN  /\ events' = Numbered(events,
                           << FeatureRow(symbol, lag, sentiment) >>
                           \o Only(Predicts, PredictionRow(IdOf(1), Observed + 1, symbol))
                           \o Only(corrects, correction)
                           \o Only(pays, OutcomeRow(symbol)))
            /\ stats' = [ features     |-> stats.features + 1,
                          predictions  |-> stats.predictions + CountIf(Predicts),
                          corrections  |-> stats.corrections + CountIf(corrects),
                          outcomes     |-> stats.outcomes + CountIf(pays),
                          late_updates |-> stats.late_updates + CountIf(late)
                            + CountIf(corrects /\ LateCorrection(correction, lag)) ]
  BY <1>34, Zenon
<1>35. late \in BOOLEAN
  BY DEF Chance
<1>36. Roomy' = Roomy
  BY <1>1, RoomyKept
<1> DEFINE symbol == SymbolNames[n]
           x == RowsDrawn(symbol, lag, sentiment, delay, corrected)
           a == SwitchesOf(corrects, pays)
           s == events
           r == events'
           y == [ k \in 1..4 |-> NewRow(s, x, a, k) ]
           base == 10 * (index + 1)
<1>3. symbol \in Symbols
  BY <1>1, NamesAreSymbols
<1>4. Drawn(x, late)
  BY <1>1, <1>3, <1>35, DrawnRows, Zenon
<1>5. corrects \in BOOLEAN /\ pays \in BOOLEAN
  BY DEF Chance
<1>6. /\ a \in Switches
      /\ a[1] = 1 /\ a[2] = CountIf(Predicts) /\ a[3] = CountIf(corrects) /\ a[4] = CountIf(pays)
      /\ (a[2] = 1 <=> Predicts) /\ (a[3] = 1 <=> corrects) /\ (a[4] = 1 <=> pays)
  BY <1>5, SwitchesAre, Zenon
<1>7. r = Numbered(s, RoundOf(x, a))
  <2>1. /\ x[1] = FeatureRow(symbol, lag, sentiment)
        /\ x[2] = PredictionRow(IdOf(1), Observed + 1, symbol)
        /\ x[3] = CorrectionRow(symbol, lag, delay, corrected)
        /\ x[4] = OutcomeRow(symbol)
    BY DEF RowsDrawn
  <2>2. \A row : /\ Only(Predicts, row) = Only(a[2] = 1, row)
                 /\ Only(corrects, row) = Only(a[3] = 1, row)
                 /\ Only(pays, row) = Only(a[4] = 1, row)
    BY <1>6, Zenon DEF Only
  <2>3. RoundOf(x, a) = << FeatureRow(symbol, lag, sentiment) >>
                        \o Only(Predicts, PredictionRow(IdOf(1), Observed + 1, symbol))
                        \o Only(corrects, CorrectionRow(symbol, lag, delay, corrected))
                        \o Only(pays, OutcomeRow(symbol))
    BY <2>1, <2>2, Zenon DEF RoundOf
  <2> QED BY <1>2, <2>3, Zenon
<1>8. x[3] = CorrectionRow(symbol, lag, delay, corrected)
  BY DEF RowsDrawn
<1>9. /\ stats'.features = stats.features + 1
      /\ stats'.predictions = stats.predictions + a[2]
      /\ stats'.corrections = stats.corrections + a[3]
      /\ stats'.outcomes = stats.outcomes + a[4]
      /\ stats'.late_updates = stats.late_updates + CountIf(late)
                                 + CountIf(corrects /\ LateCorrection(x[3], lag))
  BY <1>2, <1>6, <1>8
<1> HIDE DEF symbol, x, a
<1>10. /\ \E size \in 1..4 : DOMAIN r = 1..(Len(s) + size)
       /\ \A i \in 1..Len(s) : i \in DOMAIN r /\ r[i] = s[i]
       /\ \A k \in On(a) : Len(s) + Place(a, k) \in DOMAIN r
       /\ \A i \in DOMAIN r : i \notin 1..Len(s) =>
            \E k \in On(a) : i = Len(s) + Place(a, k) /\ r[i] = NewRow(s, x, a, k)
       /\ RowsOf(r) = RowsOf(s) \cup { NewRow(s, x, a, k) : k \in On(a) }
  <2>1. Appended(s, x, a, Numbered(s, RoundOf(x, a)))
    BY <1>1, <1>6, RoundAppends, Zenon
  <2>2. Appended(s, x, a, r)
    BY <1>7, <2>1, Zenon
  <2> QED BY <2>2, Zenon DEF Appended
<1>11. Len(s) \in Nat /\ DOMAIN s = 1..Len(s)
  BY <1>1
<1>12. \A k \in On(a) : k \in 1..4
  BY DEF On
<1>13. \A k \in 1..4 : Place(a, k) \in Nat \ {0}
  BY <1>6 DEF Place, CountIf
<1>14. \A k \in 1..4 : /\ y[k] \in Event /\ y[k].id = base + (k - 1) /\ y[k].seq = Len(s) + Place(a, k)
                       /\ y[k].role = x[k].role /\ y[k].score = Absent
                       /\ y[k].observed_time = x[k].observed_time
                       /\ y[k].received_time = x[k].received_time
                       /\ UpdatesSignalState(y[k]) => y[k].observed_time >= 2000
                       /\ Roomy => y[k].received_time >= 2000
                       /\ UpdatesSignalState(y[k]) => y[k].sentiment \in Sentiments
  <2> TAKE k \in 1..4
  <2>1. y[k] = Given(x[k], Len(s) + Place(a, k)) /\ Len(s) + Place(a, k) \in Nat
    BY <1>11, <1>13 DEF NewRow
  <2>2. /\ x[k] \in Event /\ x[k].id = base + (k - 1) /\ x[k].score = Absent
        /\ UpdatesSignalState(x[k]) => x[k].observed_time >= 2000
        /\ Roomy => x[k].received_time >= 2000
        /\ UpdatesSignalState(x[k]) => x[k].sentiment \in Sentiments
    BY <1>4 DEF Drawn
  <2> DEFINE g == Given(x[k], Len(s) + Place(a, k))
  <2>4. /\ g \in Event
        /\ g.id = x[k].id /\ g.seq = Len(s) + Place(a, k) /\ g.role = x[k].role
        /\ g.observed_time = x[k].observed_time
        /\ g.received_time = x[k].received_time
        /\ g.sentiment = x[k].sentiment /\ g.score = x[k].score
    <3> DEFINE z == x[k]
               place == Len(s) + Place(a, k)
    <3>1. z \in Event /\ place \in Nat
      BY <2>1, <2>2
    <3> HIDE DEF z, place
    <3>2. /\ Given(z, place) \in Event
          /\ Given(z, place).id = z.id /\ Given(z, place).seq = place
          /\ Given(z, place).role = z.role
          /\ Given(z, place).observed_time = z.observed_time
          /\ Given(z, place).received_time = z.received_time
          /\ Given(z, place).sentiment = z.sentiment /\ Given(z, place).score = z.score
      BY <3>1, GivenRow, Zenon
    <3> QED BY <3>2, Zenon DEF z, place
  <2> HIDE DEF y, base, g
  <2>5. y[k] = g
    BY <2>1, Zenon DEF g
  <2>3. /\ y[k] \in Event
        /\ y[k].id = x[k].id /\ y[k].seq = Len(s) + Place(a, k) /\ y[k].role = x[k].role
        /\ y[k].observed_time = x[k].observed_time
        /\ y[k].received_time = x[k].received_time
        /\ y[k].sentiment = x[k].sentiment /\ y[k].score = x[k].score
    BY <2>4, <2>5, Zenon
  <2> QED BY <2>2, <2>3 DEF UpdatesSignalState
<1>15. \A k \in 1..4 : y[k] = NewRow(s, x, a, k)
  OBVIOUS
<1>16. base \in Nat /\ base >= 10 /\ base = 10 * (index + 1) /\ 10 * (index' + 1) = base + 10
  BY <1>1
<1> HIDE DEF y, base
<1>17. RowsOf(r) = RowsOf(s) \cup { y[k] : k \in On(a) }
  BY <1>10, <1>12, <1>15
<1>18. \A i \in DOMAIN r : \/ i \in 1..Len(s) /\ r[i] = s[i]
                           \/ \E k \in On(a) : i = Len(s) + Place(a, k) /\ r[i] = y[k] /\ r[i].seq = i
  <2> TAKE i \in DOMAIN r
  <2>1. CASE i \in 1..Len(s)
    BY <1>10, <2>1, Zenon
  <2>2. CASE i \notin 1..Len(s)
    <3>1. PICK k \in On(a) : i = Len(s) + Place(a, k) /\ r[i] = NewRow(s, x, a, k)
      BY <1>10, <2>2, Zenon
    <3>2. y[k] = NewRow(s, x, a, k) /\ y[k].seq = Len(s) + Place(a, k)
      BY <1>12, <1>14, <1>15
    <3>3. r[i] = y[k] /\ r[i].seq = i
      BY <3>1, <3>2
    <3> QED BY <3>1, <3>3, Zenon
  <2> QED BY <2>1, <2>2
<1>19. \A e \in RowsOf(s) : e \in Event /\ Known(e)
  BY <1>11, <1>1 DEF GInv, RowsAreKnown, RowsOf
<1>20. \A e \in RowsOf(s) : /\ e.id < base /\ e.id \in Nat /\ e.seq \in 1..Len(s)
  <2> TAKE e \in RowsOf(s)
  <2>1. e.id \in EventIds
    BY <1>19 DEF Event
  <2>2. e.id < base /\ e.seq \in 1..Len(s)
    <3>1. Known(e)
      BY <1>19
    <3> QED BY <1>16, <3>1 DEF Known
  <2> QED BY <2>1, <2>2, EventsAssumption
<1>21. PICK size \in 1..4 : DOMAIN r = 1..(Len(s) + size)
  BY <1>10
<1>22. r \in Seq(Event) /\ Len(r) = Len(s) + size
  <2>1. \A i \in DOMAIN r : r[i] \in Event
    BY <1>1, <1>11, <1>12, <1>14, <1>18
  <2>2. r = [i \in 1..(Len(s) + size) |-> r[i]]
    BY <1>7, <1>21 DEF Numbered
  <2>3. r \in [1..(Len(s) + size) -> Event]
    BY <1>21, <2>1, <2>2
  <2>4. Len(s) + size \in Nat
    BY <1>11
  <2> QED BY <2>3, <2>4, SeqDef, LenProperties
<1>23. Typed'
  BY <1>1, <1>11, <1>22 DEF Typed
<1>24. Apiece(r)
  <2> SUFFICES ASSUME NEW i \in DOMAIN r, NEW j \in DOMAIN r, i # j
               PROVE  r[i].id # r[j].id /\ r[i].seq # r[j].seq
    BY Zenon DEF Apiece
  <2>1. ASSUME NEW k \in 1..Len(s) PROVE s[k].id < base /\ s[k].id \in Nat /\ s[k].seq \in 1..Len(s)
    BY <1>11, <1>20 DEF RowsOf
  <2>2. ASSUME NEW k \in On(a)
        PROVE  /\ y[k].id \in Nat /\ y[k].id >= base /\ y[k].id = base + (k - 1)
               /\ y[k].seq \in Nat /\ y[k].seq > Len(s) /\ k \in Nat
    <3>1. k \in 1..4 /\ Place(a, k) \in Nat \ {0}
      BY <1>12, <1>13
    <3>2. y[k].id = base + (k - 1) /\ y[k].seq = Len(s) + Place(a, k)
      BY <1>14, <3>1
    <3> QED BY <1>11, <1>16, <3>1, <3>2
  <2>3. CASE i \in 1..Len(s) /\ j \in 1..Len(s)
    <3>1. s[i].id # s[j].id /\ s[i].seq # s[j].seq
      BY <1>11, <2>3 DEF GInv, Apiece
    <3> QED BY <1>10, <2>3, <3>1
  <2>4. CASE i \in 1..Len(s) /\ j \notin 1..Len(s)
    <3>1. PICK k \in On(a) : r[j] = y[k]
      BY <1>18, <2>4
    <3>2. r[i] = s[i]
      BY <1>10, <2>4
    <3> QED BY <1>11, <1>16, <2>1, <2>2, <2>4, <3>1, <3>2
  <2>5. CASE i \notin 1..Len(s) /\ j \in 1..Len(s)
    <3>1. PICK k \in On(a) : r[i] = y[k]
      BY <1>18, <2>5
    <3>2. r[j] = s[j]
      BY <1>10, <2>5
    <3> QED BY <1>11, <1>16, <2>1, <2>2, <2>5, <3>1, <3>2
  <2>6. CASE i \notin 1..Len(s) /\ j \notin 1..Len(s)
    <3>1. PICK k \in On(a) : i = Len(s) + Place(a, k) /\ r[i] = y[k] /\ r[i].seq = i
      BY <1>18, <2>6
    <3>2. PICK l \in On(a) : j = Len(s) + Place(a, l) /\ r[j] = y[l] /\ r[j].seq = j
      BY <1>18, <2>6
    <3>3. k # l
      BY <3>1, <3>2
    <3> QED BY <1>16, <2>2, <3>1, <3>2, <3>3
  <2> QED BY <2>3, <2>4, <2>5, <2>6
<1>25. SentinelRows' = SentinelRows
  BY <1>1 DEF SentinelRows, SentinelRow, Sentinels, HasCorrections, PredictionRow, LateSentinel,
              CorrectionSentinel, Row, Given
<1>26. \A e \in RowsOf(r) : e \in RowsOf(s) \/ \E k \in On(a) : e = y[k]
  BY <1>17
<1>27. RowsAreKnown'
  <2> SUFFICES ASSUME NEW e \in RowsOf(r) PROVE Known(e)'
    BY DEF RowsAreKnown
  <2>1. Len(r) >= Len(s) /\ Len(r) \in Nat
    BY <1>11, <1>22
  <2>2. CASE e \in RowsOf(s)
    <3>1. Known(e) /\ e.seq \in 1..Len(s) /\ e.id < base /\ e.id \in Nat
      BY <1>19, <1>20, <2>2
    <3>2. e.seq \in 1..Len(r) /\ e.id < 10 * (index' + 1)
      BY <1>11, <1>16, <2>1, <3>1
    <3> QED BY <1>25, <1>36, <3>1, <3>2 DEF Known
  <2>3. CASE \E k \in On(a) : e = y[k]
    <3>1. PICK k \in On(a) : e = y[k]
      BY <2>3
    <3>2. \E i \in DOMAIN r : r[i] = e
      BY Zenon DEF RowsOf
    <3>3. e.seq \in 1..Len(r)
      <4>1. PICK i \in DOMAIN r : r[i] = e
        BY <3>2
      <4>2. i \in 1..(Len(s) + size)
        BY <1>21, <4>1
      <4>3. e.seq = i \/ (i \in 1..Len(s) /\ e = s[i])
        BY <1>18, <4>1
      <4>4. CASE e.seq = i
        BY <1>22, <4>2, <4>4
      <4>5. CASE i \in 1..Len(s) /\ e = s[i]
        BY <1>11, <1>20, <2>1, <4>5 DEF RowsOf
      <4> QED BY <4>3, <4>4, <4>5
    <3>4. k \in 1..4
      BY <1>12
    <3>5. e.id = base + (k - 1)
      BY <1>14, <3>1, <3>4
    <3>6. e.id >= 10 /\ e.id < 10 * (index' + 1) /\ ~(e.id < 10)
      BY <1>16, <3>4, <3>5
    <3>7. /\ UpdatesSignalState(e) => e.observed_time >= 2000
          /\ Roomy => e.received_time >= 2000
          /\ e.score = Absent
          /\ UpdatesSignalState(e) => e.sentiment \in Sentiments
      BY <1>14, <3>1, <3>4
    <3> QED BY <1>36, <3>3, <3>6, <3>7 DEF Known
  <2> QED BY <1>26, <2>2, <2>3
<1>28. SentinelsAreThere'
  <2>1. SentinelRows \subseteq RowsOf(s)
    BY <1>1 DEF GInv, SentinelsAreThere
  <2> QED BY <1>1, <1>17, <1>25, <2>1 DEF SentinelsAreThere
<1>29. /\ y[1].role = "feature" /\ y[2].role = "prediction"
       /\ y[3].role = "feature_correction" /\ y[4].role = "outcome"
       /\ Roomy => /\ y[1].received_time < y[3].received_time
                   /\ y[1].received_time > y[1].observed_time <=> late
       /\ y[3].received_time = x[3].received_time /\ y[3].observed_time = x[3].observed_time
  <2>1. 1 \in 1..4 /\ 2 \in 1..4 /\ 3 \in 1..4 /\ 4 \in 1..4
    OBVIOUS
  <2>2. /\ x[1].role = "feature" /\ x[2].role = "prediction"
        /\ x[3].role = "feature_correction" /\ x[4].role = "outcome"
        /\ Roomy => /\ x[1].received_time < x[3].received_time
                    /\ x[1].received_time > x[1].observed_time <=> late
    BY <1>4 DEF Drawn
  <2>3. \A k \in 1..4 : /\ y[k].role = x[k].role
                        /\ y[k].observed_time = x[k].observed_time
                        /\ y[k].received_time = x[k].received_time
    BY <1>14
  <2> QED BY <2>1, <2>2, <2>3
<1>30. RowsFollow'
  <2> SUFFICES ASSUME Roomy, NEW e \in RowsOf(r), NEW f \in RowsOf(r), Corrects(e, f)
               PROVE  ReceivedBefore(e, f)
    BY <1>36 DEF RowsFollow
  <2>1. ASSUME NEW k \in On(a) PROVE /\ k \in 1..4 /\ y[k].id = base + (k - 1)
                                     /\ (y[k].role = "feature" => k = 1)
                                     /\ (y[k].role = "feature_correction" => k = 3)
    BY <1>12, <1>14, <1>29
  <2>2. CASE e \in RowsOf(s) /\ f \in RowsOf(s)
    BY <2>2 DEF GInv, RowsFollow
  <2>3. CASE e \in RowsOf(s) /\ f \notin RowsOf(s)
    <3>1. PICK k \in On(a) : f = y[k]
      BY <1>26, <2>3
    <3>2. e.id < base /\ e.id \in Nat
      BY <1>20, <2>3
    <3> QED BY <1>16, <2>1, <3>1, <3>2 DEF Corrects
  <2>4. CASE e \notin RowsOf(s) /\ f \in RowsOf(s)
    <3>1. PICK k \in On(a) : e = y[k]
      BY <1>26, <2>4
    <3>2. f.id < base /\ f.id \in Nat
      BY <1>20, <2>4
    <3> QED BY <1>16, <2>1, <3>1, <3>2 DEF Corrects
  <2>5. CASE e \notin RowsOf(s) /\ f \notin RowsOf(s)
    <3>1. e = y[1] /\ f = y[3]
      BY <1>26, <2>1, <2>5 DEF Corrects
    <3> QED BY <1>14, <1>29, <3>1, ReceivedInOrder
  <2> QED BY <2>2, <2>3, <2>4, <2>5
<1>31. IsFiniteSet(RowsOf(s))
  BY <1>1, CountsRows DEF GInv
<1>32. ASSUME NEW T
       PROVE  CountIn(T) \in Nat /\ CountIn(T)' = CountIn(T) + Gain(a, y, 1, T) + Gain(a, y, 2, T)
                                                   + Gain(a, y, 3, T) + Gain(a, y, 4, T)
  <2>1. \A k \in 1..4 : y[k] \notin RowsOf(s)
    BY <1>14, <1>16, <1>20
  <2>2. \A k, l \in 1..4 : y[k] = y[l] => k = l
    BY <1>14, <1>16
  <2>3. /\ Cardinality(RowsOf(s) \cap T) \in Nat
        /\ Cardinality((RowsOf(s) \cup { y[k] : k \in On(a) }) \cap T)
             = Cardinality(RowsOf(s) \cap T) + Gain(a, y, 1, T) + Gain(a, y, 2, T)
                                             + Gain(a, y, 3, T) + Gain(a, y, 4, T)
    <3> DEFINE R == RowsOf(s)
    <3>1. IsFiniteSet(R) /\ a \in Switches /\ \A k \in 1..4 : y[k] \notin R
      BY <1>6, <1>31, <2>1, Zenon
    <3> HIDE DEF R
    <3>2. Tally(R, a, y, T)
      BY <2>2, <3>1, RoundCounts, Zenon
    <3> QED BY <3>2, Zenon DEF Tally, R
  <2> QED BY <1>17, <2>3, Zenon DEF CountIn
<1>33. Counted'
  <2>1. \A k \in 1..4 : y[k] \in Event
    BY <1>14
  <2>2. /\ Gain(a, y, 1, Rows("feature")) = 1 /\ Gain(a, y, 2, Rows("feature")) = 0
        /\ Gain(a, y, 3, Rows("feature")) = 0 /\ Gain(a, y, 4, Rows("feature")) = 0
    BY <1>6, <1>29, <2>1 DEF Gain, Rows
  <2>3. a[2] \in 0..1 /\ a[3] \in 0..1 /\ a[4] \in 0..1
    BY <1>6 DEF Switches
  <2>4. /\ Gain(a, y, 1, Rows("prediction")) = 0 /\ Gain(a, y, 2, Rows("prediction")) = a[2]
        /\ Gain(a, y, 3, Rows("prediction")) = 0 /\ Gain(a, y, 4, Rows("prediction")) = 0
    BY <1>29, <2>1, <2>3 DEF Gain, Rows
  <2>5. /\ Gain(a, y, 1, Rows("feature_correction")) = 0 /\ Gain(a, y, 2, Rows("feature_correction")) = 0
        /\ Gain(a, y, 3, Rows("feature_correction")) = a[3] /\ Gain(a, y, 4, Rows("feature_correction")) = 0
    BY <1>29, <2>1, <2>3 DEF Gain, Rows
  <2>6. /\ Gain(a, y, 1, Rows("outcome")) = 0 /\ Gain(a, y, 2, Rows("outcome")) = 0
        /\ Gain(a, y, 3, Rows("outcome")) = 0 /\ Gain(a, y, 4, Rows("outcome")) = a[4]
    BY <1>29, <2>1, <2>3 DEF Gain, Rows
  <2>7. /\ Roomy => Gain(a, y, 1, LateRows) = CountIf(late)
        /\ Gain(a, y, 2, LateRows) = 0
        /\ Gain(a, y, 4, LateRows) = 0
    BY <1>6, <1>29, <2>1 DEF Gain, LateRows, UpdatesSignalState, FeatureRoles, CountIf
  <2>8. Gain(a, y, 3, LateRows) = CountIf(corrects /\ LateCorrection(x[3], lag))
    BY <1>6, <1>29, <2>1 DEF Gain, LateRows, UpdatesSignalState, FeatureRoles, CountIf, LateCorrection
  <2>9. CountIf(late) \in Nat /\ CountIf(corrects /\ LateCorrection(x[3], lag)) \in Nat
    BY DEF CountIf
  <2>10. stats'.features = CountIn(Rows("feature"))'
    BY <1>9, <1>32, <2>2 DEF GInv, Counted
  <2>11. stats'.predictions = CountIn(Rows("prediction"))'
    BY <1>9, <1>32, <2>3, <2>4 DEF GInv, Counted
  <2>12. stats'.corrections = CountIn(Rows("feature_correction"))'
    BY <1>9, <1>32, <2>3, <2>5 DEF GInv, Counted
  <2>13. stats'.outcomes = CountIn(Rows("outcome"))'
    BY <1>9, <1>32, <2>3, <2>6 DEF GInv, Counted
  <2>14. ASSUME Roomy PROVE stats'.late_updates = CountIn(LateRows)'
    BY <1>9, <1>32, <2>7, <2>8, <2>9, <2>14 DEF GInv, Counted
  <2> QED BY <1>36, <2>10, <2>11, <2>12, <2>13, <2>14 DEF Counted
<1> QED BY <1>23, <1>24, <1>27, <1>28, <1>30, <1>33 DEF GInv

-----------------------------------------------------------------------------
(***************************************************************************)
(* The shuffle, and the invariant at every step.                           *)
(***************************************************************************)
\* What the invariant says of the rows, it says of any arrangement of them.
LEMMA ShuffleGInv == GInv /\ Swap => GInv'
<1> SUFFICES ASSUME GInv, Swap PROVE GInv'
  OBVIOUS
<1> DEFINE s == events
           r == events'
<1>1. /\ config' = config /\ phase' = phase /\ index' = index /\ stats' = stats
      /\ swaps' = swaps - 1 /\ swaps > 1 /\ phase = "shuffle"
      /\ swaps \in 0..Len(s) /\ s \in Seq(Event)
  BY DEF Swap, GInv, Typed
<1>2. PICK n \in 1..swaps : r = [s EXCEPT ![swaps] = s[n], ![n] = s[swaps]]
  BY Zenon DEF Swap
<1>3. swaps \in DOMAIN s /\ n \in DOMAIN s
  BY <1>1
<1>4. Rearranged(s, r) /\ r \in Seq(Event) /\ Len(r) = Len(s)
  <2>1. r = Swapped(s, swaps, n)
    BY <1>2, Zenon DEF Swapped
  <2>2. /\ Rearranged(s, Swapped(s, swaps, n))
        /\ Swapped(s, swaps, n) \in Seq(Event) /\ Len(Swapped(s, swaps, n)) = Len(s)
    BY <1>1, <1>3, SwapRearranges, Zenon
  <2> QED BY <2>1, <2>2, Zenon
<1>5. /\ RowsOf(r) = RowsOf(s)
      /\ \A i, j \in DOMAIN r : i # j =>
           \E k, l \in DOMAIN s : k # l /\ r[i] = s[k] /\ r[j] = s[l]
  <2>1. SameRows(s, r)
    BY <1>4, RearrangedKeepsRows, Zenon
  <2> QED BY <2>1, Zenon DEF SameRows
<1>6. SentinelRows' = SentinelRows
  BY <1>1 DEF SentinelRows, SentinelRow, Sentinels, HasCorrections, PredictionRow, LateSentinel,
              CorrectionSentinel, Row, Given
<1>7. Typed'
  BY <1>1, <1>4 DEF GInv, Typed
<1>8. Apiece(r)
  <2> SUFFICES ASSUME NEW i \in DOMAIN r, NEW j \in DOMAIN r, i # j
               PROVE  r[i].id # r[j].id /\ r[i].seq # r[j].seq
    BY Zenon DEF Apiece
  <2>1. PICK k \in DOMAIN s, l \in DOMAIN s : k # l /\ r[i] = s[k] /\ r[j] = s[l]
    BY <1>5
  <2>2. s[k].id # s[l].id /\ s[k].seq # s[l].seq
    BY <2>1, Zenon DEF GInv, Apiece
  <2> QED BY <2>1, <2>2, Zenon
<1>14. Roomy' = Roomy
  BY <1>1, RoomyKept
<1>9. RowsAreKnown'
  BY <1>1, <1>4, <1>5, <1>6, <1>14 DEF GInv, RowsAreKnown, Known
<1>10. SentinelsAreThere'
  BY <1>1, <1>5, <1>6 DEF GInv, SentinelsAreThere
<1>11. RowsFollow'
  BY <1>5, <1>14 DEF GInv, RowsFollow
<1>12. \A T : CountIn(T)' = CountIn(T)
  BY <1>5, Zenon DEF CountIn
<1>13. Counted'
  BY <1>1, <1>12, <1>14 DEF GInv, Counted, Rows, LateRows
<1> QED BY <1>7, <1>8, <1>9, <1>10, <1>11, <1>13 DEF GInv

\* A step that leaves the rows alone.
LEMMA RestGInv ==
  ASSUME GInv, Typed', UNCHANGED <<config, events, index, stats>>,
         phase # "sentinels" \/ UNCHANGED <<phase, swaps>>, phase' = "sentinels" => phase = "sentinels"
  PROVE  GInv'
<1>1. SentinelRows' = SentinelRows
  BY DEF SentinelRows, SentinelRow, Sentinels, HasCorrections, PredictionRow, LateSentinel,
         CorrectionSentinel, Row, Given
<1>2. Apiece(events)' /\ RowsOf(events)' = RowsOf(events)
  BY DEF GInv
<1>6. Roomy' = Roomy
  BY RoomyKept
<1>3. RowsAreKnown'
  BY <1>1, <1>2, <1>6 DEF GInv, RowsAreKnown, Known
<1>4. SentinelsAreThere'
  BY <1>1, <1>2 DEF GInv, SentinelsAreThere
<1>5. RowsFollow' /\ Counted'
  BY <1>2, <1>6 DEF GInv, RowsFollow, Counted, CountIn
<1> QED BY <1>2, <1>3, <1>4, <1>5 DEF GInv

LEMMA StepGInv == GInv /\ [Next]_vars => GInv'
<1> SUFFICES ASSUME GInv, [Next]_vars PROVE GInv'
  OBVIOUS
<1>0. /\ config \in Configs /\ index \in 0..AtLeastOne(config.events) /\ events \in Seq(Event)
      /\ swaps \in 0..Len(events) /\ Len(events) \in Nat
      /\ phase \in {"sentinels", "data", "shuffle", "done", "panicked"}
  BY DEF GInv, Typed
<1>1. CASE AddSentinels
  BY <1>1, SentinelsGInv
<1>2. CASE GenerateRound
  BY <1>2, RoundGInv
<1>3. CASE StartShuffle
  <2>1. Typed'
    BY <1>0, <1>3 DEF StartShuffle, Typed
  <2> QED BY <1>3, <2>1, RestGInv DEF StartShuffle
<1>4. CASE Swap
  BY <1>4, ShuffleGInv
<1>5. CASE EndShuffle
  <2>1. Typed'
    BY <1>0, <1>5 DEF EndShuffle, Typed
  <2> QED BY <1>5, <2>1, RestGInv DEF EndShuffle
<1>6. CASE Returned \/ UNCHANGED vars
  <2>1. Typed'
    BY <1>0, <1>6 DEF Returned, vars, Typed
  <2> QED BY <1>6, <2>1, RestGInv DEF Returned, vars
<1>7. CASE Panic
  <2>1. Typed'
    BY <1>0, <1>7 DEF Panic, Typed
  <2> QED BY <1>7, <2>1, RestGInv DEF Panic
<1> QED BY <1>1, <1>2, <1>3, <1>4, <1>5, <1>6, <1>7 DEF Next

\* The invariant of the generator holds in every reachable state.
THEOREM GeneratorInvariant == Spec => []GInv
BY InitialGInv, StepGInv, PTL DEF Spec

-----------------------------------------------------------------------------
(***************************************************************************)
(* What follows from it.                                                   *)
(***************************************************************************)
\* The statistics printed beside the feed count its rows, of every kind, and the
\* late ones among them when there is room for its times.
THEOREM StatisticsCountTheRows == Spec => []StatsMatchRows
<1>1. GInv => StatsMatchRows
  <2> SUFFICES ASSUME GInv PROVE StatsMatchRows
    OBVIOUS
  <2>1. events \in Seq(Event) /\ Apiece(events) /\ \A i \in DOMAIN events : events[i] \in Event
    BY DEF GInv, Typed
  <2>2. ASSUME NEW T PROVE CountIn(T) = Cardinality({ i \in DOMAIN events : events[i] \in T })
    BY <2>1, CountsRows, Zenon DEF CountIn
  <2>3. ASSUME NEW role
        PROVE  { i \in DOMAIN events : events[i] \in Rows(role) } = { i \in DOMAIN events : events[i].role = role }
    BY <2>1 DEF Rows
  <2>4. { i \in DOMAIN events : events[i] \in LateRows }
          = { i \in DOMAIN events : UpdatesSignalState(events[i])
                                      /\ events[i].received_time > events[i].observed_time }
    BY <2>1 DEF LateRows
  <2>5. ASSUME NEW role
        PROVE  CountIn(Rows(role)) = Cardinality({ i \in DOMAIN events : events[i].role = role })
    BY <2>2, <2>3, Zenon
  <2>6. stats.features = CountOf(LAMBDA e : e.role = "feature")
    BY <2>5, Zenon DEF GInv, Counted, CountOf
  <2>7. stats.predictions = CountOf(IsPrediction)
    BY <2>5, Zenon DEF GInv, Counted, CountOf, IsPrediction
  <2>8. stats.corrections = CountOf(LAMBDA e : e.role = "feature_correction")
    BY <2>5, Zenon DEF GInv, Counted, CountOf
  <2>9. stats.outcomes = CountOf(LAMBDA e : e.role = "outcome")
    BY <2>5, Zenon DEF GInv, Counted, CountOf
  <2>10. Roomy => stats.late_updates =
           CountOf(LAMBDA e : UpdatesSignalState(e) /\ e.received_time > e.observed_time)
    BY <2>2, <2>4, Zenon DEF GInv, Counted, CountOf
  <2> QED BY <2>6, <2>7, <2>8, <2>9, <2>10, Zenon DEF StatsMatchRows
<1> QED BY <1>1, GeneratorInvariant, PTL

\* A correction is available only after the feature it corrects, wherever the
\* shuffle puts them, for every configuration with room for its times.
THEOREM CorrectionsComeAfter == Spec => []CorrectionsFollowTheirFeature
<1>1. GInv => CorrectionsFollowTheirFeature
  BY DEF GInv, RowsFollow, Corrects, RowsOf, CorrectionsFollowTheirFeature
<1> QED BY <1>1, GeneratorInvariant, PTL

(***************************************************************************)
(* The labels are hashed without a collision.  A collision is the one      *)
(* thing for which replay may refuse a generated feed.                     *)
(***************************************************************************)
NoCollision ==
  /\ \A i, j \in EventIds : KeyOf[i] = KeyOf[j] => i = j
  /\ \A a, b \in Symbols : SymbolIdOf[a] = SymbolIdOf[b] => a = b

LEMMA GeneratedIsClean ==
  ASSUME GInv, NoCollision
  PROVE  Clean(events)
<1>1. events \in Seq(Event) /\ \A i \in DOMAIN events : events[i] \in Event /\ Known(events[i])
  BY DEF GInv, Typed, RowsAreKnown, RowsOf
<1>2. ASSUME NEW i \in DOMAIN events, NEW j \in DOMAIN events, i # j
      PROVE  /\ EventKey(events[i]) # EventKey(events[j])
             /\ ~(events[i].received_time = events[j].received_time /\ events[i].seq = events[j].seq)
  <2>1. events[i].id # events[j].id /\ events[i].seq # events[j].seq
    BY <1>2, Zenon DEF GInv, Apiece
  <2>2. events[i].id \in EventIds /\ events[j].id \in EventIds
    BY <1>1 DEF Event
  <2> QED BY <2>1, <2>2 DEF NoCollision, EventKey
<1>3. ASSUME NEW i \in DOMAIN events, NEW j \in DOMAIN events, events[i].symbol # events[j].symbol
      PROVE  SymbolIdOf[events[i].symbol] # SymbolIdOf[events[j].symbol]
  <2>1. events[i].symbol \in Symbols /\ events[j].symbol \in Symbols
    BY <1>1 DEF Event
  <2> QED BY <1>3, <2>1 DEF NoCollision
<1>4. ASSUME NEW i \in DOMAIN events, UpdatesSignalState(events[i]) PROVE PayloadOk(events[i])
  <2>1. events[i].sentiment \in Sentiments /\ events[i].score = Absent
    BY <1>1, <1>4 DEF Known
  <2> QED BY <2>1, EventsAssumption DEF PayloadOk, Sentiments
<1> QED BY <1>2, <1>3, <1>4, Zenon DEF Clean

\* Replay accepts every generated feed.
THEOREM GeneratedFeedsAreAccepted ==
  ASSUME NoCollision PROVE Spec => []GeneratedFeedIsAccepted
<1>1. GInv => GeneratedFeedIsAccepted
  BY GeneratedIsClean, RefusedUnlessClean DEF GeneratedFeedIsAccepted
<1> QED BY <1>1, GeneratorInvariant, PTL

(***************************************************************************)
(* The last row of those a prediction sees is the last it cites.           *)
(***************************************************************************)
LEMMA LastIsCited ==
  ASSUME NEW o, NEW V, Apart(V), NEW m \in V,
         \A e \in V : Relevant(e) /\ (e = m \/ (EarlierBy(o, e, m) /\ ReceivedBefore(e, m)))
  PROVE  /\ CitedFrom(o, V) # <<>> /\ LastOf(CitedFrom(o, V)) = m
         /\ V = {m} => CitedFrom(o, V) = <<m>>
<1> DEFINE Newer(S, e) == { f \in S : EarlierBy(o, e, f) }
           A == LatestBy(o, V, MaxInputs)
           B == { e \in A : Relevant(e) }
           C == LatestBy(o, B, Clamp(SignalWindow, 1, MaxInputs))
           cited == RowsInOrder(o, C)
<1>1. \A e \in V : ~EarlierBy(o, m, e) /\ e \in Event
  BY EarlierIsOrder DEF Apart
<1>2. ASSUME NEW S, \A e \in S : e \in V PROVE Cardinality({ f \in S : EarlierBy(o, m, f) }) = 0
  <2>1. { f \in S : EarlierBy(o, m, f) } = {}
    BY <1>1, <1>2
  <2> QED BY <2>1, FS_EmptySet, Zenon
<1>3. MaxInputs > 0 /\ Clamp(SignalWindow, 1, MaxInputs) > 0
  BY InputsAssumption, WindowIsBounded
<1>4. m \in A /\ \A e \in A : e \in V
  BY <1>2, <1>3 DEF LatestBy
<1>5. m \in B /\ \A e \in B : e \in V
  BY <1>4
<1>6. m \in C /\ \A e \in C : e \in V
  BY <1>2, <1>3, <1>5 DEF LatestBy
<1>7. CitedFrom(o, V) = cited
  BY Zenon DEF CitedFrom
<1> HIDE DEF A, B, C
<1>8. Apart(C)
  BY <1>6, ApartSubset
<1>9. /\ Cardinality(C) \in Nat /\ DOMAIN cited = 1..Cardinality(C)
      /\ \A n \in 1..Cardinality(C) : cited[n] \in C
      /\ \E n \in DOMAIN cited : cited[n] = m
  <2>1. /\ Cardinality(C) \in Nat /\ DOMAIN cited = 1..Cardinality(C)
        /\ \A n \in 1..Cardinality(C) : cited[n] \in C
    BY <1>8, PlacesAreTaken, Zenon
  <2>2. /\ Cardinality(EarlierRows(o, C, m)) + 1 \in 1..Cardinality(C)
        /\ cited[Cardinality(EarlierRows(o, C, m)) + 1] = m
    BY <1>6, <1>8, PlacesAreTaken, Zenon
  <2> QED BY <2>1, <2>2, Zenon
<1> HIDE DEF cited
<1>10. cited # <<>>
  BY <1>9
<1>11. \A e : e \in { cited[i] : i \in DOMAIN cited } => e = m \/ ReceivedBefore(e, m)
  BY <1>6, <1>9
<1>12. LastOf(cited) = m
  <2>1. \A i \in DOMAIN cited : cited[i] = m \/ ReceivedBefore(cited[i], m)
    BY <1>6, <1>9
  <2>2. m \in { cited[i] : i \in DOMAIN cited }
    BY <1>9
  <2>3. ASSUME NEW e \in { cited[i] : i \in DOMAIN cited },
               \A i \in DOMAIN cited : cited[i] = e \/ ReceivedBefore(cited[i], e)
        PROVE  e = m
    <3>1. e = m \/ ReceivedBefore(m, e)
      BY <1>9, <2>3, Zenon
    <3>2. e = m \/ ReceivedBefore(e, m)
      BY <1>11
    <3>3. e \in Event /\ m \in Event
      BY <1>1, <1>6, <1>9
    <3>4. ~(ReceivedBefore(m, e) /\ ReceivedBefore(e, m))
      BY <3>3, EarlierIsOrder, ReceivedInOrder
    <3> QED BY <3>1, <3>2, <3>4
  <2> QED BY <2>1, <2>2, <2>3 DEF LastOf
<1>13. ASSUME V = {m} PROVE cited = <<m>>
  <2>1. C = {m}
    BY <1>6, <1>13
  <2>2. Cardinality(C) = 1
    BY <2>1, FS_Singleton, Zenon
  <2>3. cited[1] = m /\ DOMAIN cited = 1..1
    BY <1>9, <2>1, <2>2
  <2>4. cited = [n \in 1..1 |-> cited[n]]
    BY <2>2 DEF cited, RowsInOrder
  <2> QED BY <2>3, <2>4
<1> QED BY <1>7, <1>10, <1>12, <1>13, Zenon

(***************************************************************************)
(* What the predictions among the sentinels see of a finished feed.        *)
(***************************************************************************)
\* Time of a row in an order.
TimeBy(o, e) == IF o = "ReceivedTime" THEN e.received_time ELSE e.observed_time

LEMMA TimesOrder ==
  ASSUME NEW o, NEW e \in Event, NEW f \in Event
  PROVE  /\ EarlierBy(o, e, f) => TimeBy(o, e) <= TimeBy(o, f)
         /\ TimeBy(o, e) < TimeBy(o, f) => EarlierBy(o, e, f)
<1>1. /\ e.observed_time \in Nat /\ e.received_time \in Nat
      /\ f.observed_time \in Nat /\ f.received_time \in Nat
  BY DEF Event
<1>2. /\ KeyBy(o, e)[1] = TimeBy(o, e) /\ KeyBy(o, f)[1] = TimeBy(o, f)
  BY DEF KeyBy, ReplayKey, ObservedKey, TimeBy
<1>3. TimeBy(o, e) \in Nat /\ TimeBy(o, f) \in Nat
  BY <1>1 DEF TimeBy
<1> QED BY <1>2, <1>3 DEF EarlierBy, Precedes

\* The sentinel that predicts at a time.
Predictor(k, time) == Given(PredictionRow(k, time, SymbolNames[1]), k)

LEMMA SentinelsOfFeed ==
  ASSUME GInv, phase # "sentinels"
  PROVE  /\ SentinelRow(2) = Given(LateSentinel, 2) /\ SentinelRow(2) \in RowsOf(events)
         /\ HasCorrections => /\ SentinelRow(5) = Given(CorrectionSentinel, 5)
                              /\ SentinelRow(5) \in RowsOf(events)
         /\ Predictor(3, 1010) \in RowsOf(events) /\ Predictor(4, 1030) \in RowsOf(events)
         /\ HasCorrections => Predictor(6, 1050) \in RowsOf(events)
         /\ \A e \in SentinelRows : UpdatesSignalState(e) =>
              e = SentinelRow(2) \/ (HasCorrections /\ e = SentinelRow(5))
<1>1. config \in Configs /\ SentinelRows \subseteq RowsOf(events)
  BY DEF GInv, Typed, SentinelsAreThere
<1> DEFINE s == Sentinels
           a == SymbolNames[1]
<1>2. /\ s \in Seq(Event)
      /\ s[1] = PredictionRow(1, 1000, a) /\ s[2] = LateSentinel
      /\ s[3] = PredictionRow(3, 1010, a) /\ s[4] = PredictionRow(4, 1030, a)
      /\ HasCorrections => /\ DOMAIN s = 1..7 /\ Len(s) = 7
                           /\ s[5] = CorrectionSentinel
                           /\ s[6] = PredictionRow(6, 1050, a)
                           /\ s[7] = PredictionRow(7, 1070, a)
      /\ ~HasCorrections => DOMAIN s = 1..4 /\ Len(s) = 4
  BY <1>1, SentinelsAre, Zenon
<1>3. \A k \in DOMAIN s : SentinelRow(k) = Given(s[k], k) /\ SentinelRow(k) \in RowsOf(events)
  BY <1>1 DEF SentinelRows, SentinelRow
<1>4. \A e \in SentinelRows : \E k \in DOMAIN s : e = SentinelRow(k)
  BY DEF SentinelRows
<1> HIDE DEF s
<1>5. 2 \in DOMAIN s /\ 3 \in DOMAIN s /\ 4 \in DOMAIN s /\ (HasCorrections => 5 \in DOMAIN s /\ 6 \in DOMAIN s)
  BY <1>2
<1>6. \A k, time : ~UpdatesSignalState(Given(PredictionRow(k, time, a), k))
  BY DEF UpdatesSignalState, FeatureRoles, Given, PredictionRow, Row
<1>7. ASSUME NEW e \in SentinelRows, UpdatesSignalState(e)
      PROVE  e = SentinelRow(2) \/ (HasCorrections /\ e = SentinelRow(5))
  <2>1. PICK k \in DOMAIN s : e = SentinelRow(k)
    BY <1>4
  <2>2. \A time : s[k] # PredictionRow(k, time, a)
    BY <1>3, <1>6, <1>7, <2>1
  <2>3. k # 1 /\ k # 3 /\ k # 4 /\ (HasCorrections => k # 6 /\ k # 7)
    BY <1>2, <2>2
  <2>4. k = 2 \/ (HasCorrections /\ k = 5)
    BY <1>2, <2>3
  <2> QED BY <2>1, <2>4
<1>8. Predictor(3, 1010) \in RowsOf(events) /\ Predictor(4, 1030) \in RowsOf(events)
  BY <1>2, <1>3, <1>5 DEF Predictor
<1>9. HasCorrections => Predictor(6, 1050) \in RowsOf(events)
  BY <1>2, <1>3, <1>5 DEF Predictor
<1> QED BY <1>2, <1>3, <1>5, <1>7, <1>8, <1>9

\* Which rows a prediction among the sentinels sees.
LEMMA SeenBySentinel ==
  ASSUME GInv, phase # "sentinels", NEW o, NEW p \in RowsOf(events),
         p.symbol = SymbolNames[1], TimeBy(o, p) < 2000, o = "ReceivedTime" => Roomy
  PROVE  \A e : e \in VisibleBy(o, RowsOf(events), p) <=>
           /\ e = SentinelRow(2) \/ (HasCorrections /\ e = SentinelRow(5))
           /\ EarlierBy(o, e, p)
<1> DEFINE rows == RowsOf(events)
<1>1. \A e \in rows : e \in Event /\ Known(e)
  BY DEF GInv, Typed, RowsAreKnown, RowsOf
<1>2. ASSUME NEW e \in VisibleBy(o, rows, p)
      PROVE  /\ e = SentinelRow(2) \/ (HasCorrections /\ e = SentinelRow(5))
             /\ EarlierBy(o, e, p)
  <2>1. e \in rows /\ UpdatesSignalState(e) /\ EarlierBy(o, e, p)
    BY DEF VisibleBy
  <2>2. TimeBy(o, e) <= TimeBy(o, p) /\ TimeBy(o, e) \in Nat /\ TimeBy(o, p) \in Nat
    BY <1>1, <2>1, TimesOrder DEF TimeBy, Event
  <2>3. e.id \in Nat
    <3>1. e \in Event
      BY <1>1, <2>1
    <3>2. e.id \in EventIds
      BY <3>1 DEF Event
    <3> QED BY <3>2, EventsAssumption
  <2>4. e.id < 10
    <3> SUFFICES ASSUME e.id >= 10 PROVE FALSE
      BY <2>3
    <3>1. e.observed_time >= 2000 /\ (Roomy => e.received_time >= 2000)
      BY <1>1, <2>1 DEF Known
    <3>2. TimeBy(o, e) >= 2000
      BY <3>1 DEF TimeBy
    <3> QED BY <2>2, <3>2
  <2>5. e \in SentinelRows
    BY <1>1, <2>1, <2>4 DEF Known
  <2> QED BY <2>1, <2>5, SentinelsOfFeed
<1>3. /\ SentinelRow(2) \in rows /\ (HasCorrections => SentinelRow(5) \in rows)
      /\ UpdatesSignalState(SentinelRow(2)) /\ SentinelRow(2).symbol = SymbolNames[1]
      /\ HasCorrections => UpdatesSignalState(SentinelRow(5)) /\ SentinelRow(5).symbol = SymbolNames[1]
  <2>1. /\ UpdatesSignalState(Given(LateSentinel, 2)) /\ Given(LateSentinel, 2).symbol = SymbolNames[1]
        /\ UpdatesSignalState(Given(CorrectionSentinel, 5)) /\ Given(CorrectionSentinel, 5).symbol = SymbolNames[1]
    BY DEF UpdatesSignalState, FeatureRoles, Given, LateSentinel, CorrectionSentinel, Row
  <2> QED BY <2>1, SentinelsOfFeed
<1> QED BY <1>2, <1>3 DEF VisibleBy

\* The log holds the record of every prediction under its key.
LEMMA RecordOfPrediction ==
  ASSUME GInv, NoCollision, NEW o, NEW p \in RowsOf(events), IsPrediction(p)
  PROVE  RecordOf(LogOf(events, o), p.id) = RecordBy(o, RowsOf(events), p)
<1> DEFINE log == LogOf(events, o)
<1>1. events \in Seq(Event) /\ Clean(events) /\ \A i \in DOMAIN events : events[i] \in Event
  BY GeneratedIsClean DEF GInv, Typed
<1>2. /\ \A n \in DOMAIN log : \E i \in DOMAIN events :
           IsPrediction(events[i]) /\ log[n] = RecordBy(o, RowsOf(events), events[i])
      /\ \A i \in DOMAIN events : IsPrediction(events[i]) =>
           \E n \in DOMAIN log : log[n] = RecordBy(o, RowsOf(events), events[i])
  BY <1>1, LogRecords, Zenon
<1>3. \A q : RecordBy(o, RowsOf(events), q).key = KeyOf[q.id]
  BY DEF RecordBy, RecordFrom, EventKey
<1> HIDE DEF log
<1>4. PICK j \in DOMAIN events : p = events[j]
  BY DEF RowsOf
<1>5. PICK m \in DOMAIN log : log[m] = RecordBy(o, RowsOf(events), p)
  BY <1>2, <1>4
<1>6. ASSUME NEW n \in DOMAIN log, log[n].key = KeyOf[p.id]
      PROVE  log[n] = RecordBy(o, RowsOf(events), p)
  <2>1. PICK i \in DOMAIN events : log[n] = RecordBy(o, RowsOf(events), events[i])
    BY <1>2
  <2>2. KeyOf[events[i].id] = KeyOf[events[j].id]
    BY <1>3, <1>4, <1>6, <2>1, Zenon
  <2>3. i = j
    BY <1>1, <2>2, Zenon DEF Clean, EventKey
  <2> QED BY <1>4, <2>1, <2>3
<1>7. log[m].key = KeyOf[p.id]
  BY <1>3, <1>5, Zenon
<1>8. log[CHOOSE n \in DOMAIN log : log[n].key = KeyOf[p.id]] = RecordBy(o, RowsOf(events), p)
  BY <1>6, <1>7
<1> QED BY <1>8, Zenon DEF RecordOf, log

\* Generated rows carry sentiments, so the trap is one for a signal that reads them.
ReadsSentiments == Signal.kind \in {"last-feature-sentiment", "windowed-feature-sentiment"}

LEMMA NothingIsCited ==
  ASSUME NEW o PROVE CitedFrom(o, {}) = <<>>
<1>1. \A n : LatestBy(o, {}, n) = {}
  BY DEF LatestBy
<1>2. { e \in {} : Relevant(e) } = {}
  OBVIOUS
<1>3. CitedFrom(o, {}) = RowsInOrder(o, {})
  BY <1>1, <1>2, Zenon DEF CitedFrom
<1>4. Cardinality({}) = 0
  BY FS_EmptySet
<1> QED BY <1>3, <1>4 DEF RowsInOrder

\* The record of a prediction that cites something, or nothing.
LEMMA RecordOfLast ==
  ASSUME NEW o, NEW rows, NEW p, NEW m, CitedFrom(o, VisibleBy(o, rows, p)) # <<>>,
         LastOf(CitedFrom(o, VisibleBy(o, rows, p))) = m
  PROVE  /\ RecordBy(o, rows, p).max_key = KeyOf[m.id]
         /\ RecordBy(o, rows, p).max_time = m.received_time
         /\ CitedFrom(o, VisibleBy(o, rows, p)) = <<m>> => RecordBy(o, rows, p).inputs = <<KeyOf[m.id]>>
<1> DEFINE cited == CitedFrom(o, VisibleBy(o, rows, p))
<1>1. RecordBy(o, rows, p) = RecordFrom(cited, p)
  BY Zenon DEF RecordBy
<1> HIDE DEF cited
<1>2. cited # <<>> /\ LastOf(cited) = m
  BY DEF cited
<1>3. /\ RecordFrom(cited, p).max_key = KeyOf[m.id]
      /\ RecordFrom(cited, p).max_time = m.received_time
  BY <1>2 DEF RecordFrom, EventKey
<1>4. ASSUME cited = <<m>> PROVE RecordFrom(cited, p).inputs = <<KeyOf[m.id]>>
  <2>1. RecordFrom(cited, p).inputs = [i \in DOMAIN cited |-> EventKey(cited[i])]
    BY DEF RecordFrom
  <2>2. DOMAIN cited = 1..1 /\ cited[1] = m
    BY <1>4
  <2> QED BY <2>1, <2>2 DEF EventKey
<1> QED BY <1>1, <1>3, <1>4, Zenon DEF cited

LEMMA TrapIsSet ==
  ASSUME GInv, NoCollision, ReadsSentiments, phase = "done"
  PROVE  SentinelsSetATrap
<1> DEFINE rows == RowsOf(events)
           S2 == SentinelRow(2)
           S5 == SentinelRow(5)
           V(o, p) == VisibleBy(o, rows, p)
           p3 == Predictor(3, 1010)
           p4 == Predictor(4, 1030)
           p6 == Predictor(6, 1050)
<1>1. \A e \in rows : e \in Event
  BY DEF GInv, Typed, RowsOf
<1>2. /\ S2 = Given(LateSentinel, 2) /\ S2 \in rows
      /\ HasCorrections => S5 = Given(CorrectionSentinel, 5) /\ S5 \in rows
      /\ p3 \in rows /\ p4 \in rows /\ (HasCorrections => p6 \in rows)
  BY SentinelsOfFeed
<1>3. /\ S2.observed_time = 1000 /\ S2.received_time = 1020 /\ S2.id = 2
      /\ S2.sentiment = 1
      /\ HasCorrections => /\ S5.observed_time = 1040 /\ S5.received_time = 1060 /\ S5.id = 5
                           /\ S5.sentiment = -1
  <2>1. /\ Given(LateSentinel, 2).observed_time = 1000 /\ Given(LateSentinel, 2).received_time = 1020
        /\ Given(LateSentinel, 2).id = 2 /\ Given(LateSentinel, 2).sentiment = 1
    BY DEF Given, LateSentinel, Row
  <2>2. /\ Given(CorrectionSentinel, 5).observed_time = 1040
        /\ Given(CorrectionSentinel, 5).received_time = 1060
        /\ Given(CorrectionSentinel, 5).id = 5 /\ Given(CorrectionSentinel, 5).sentiment = -1
    BY DEF Given, CorrectionSentinel, Row
  <2> HIDE DEF S2, S5
  <2> QED BY <1>2, <2>1, <2>2
<1>4. \A k, time : /\ Predictor(k, time).symbol = SymbolNames[1] /\ IsPrediction(Predictor(k, time))
                   /\ Predictor(k, time).id = k
                   /\ Predictor(k, time).observed_time = time
                   /\ Predictor(k, time).received_time = time
  BY DEF Predictor, Given, PredictionRow, Row, IsPrediction
<1>5. Relevant(S2) /\ (HasCorrections => Relevant(S5))
  <2> HIDE DEF S2, S5
  <2> QED BY <1>3, EventsAssumption DEF ReadsSentiments, Relevant, HasSentiment
<1>6. Apart(rows)
  BY GeneratedIsClean, CleanRows DEF GInv, Typed
<1>7. ASSUME NEW o, NEW p \in rows, p.symbol = SymbolNames[1], TimeBy(o, p) < 2000,
             o = "ReceivedTime" => Roomy
      PROVE  /\ \A e : e \in V(o, p) <=> /\ e = S2 \/ (HasCorrections /\ e = S5)
                                         /\ EarlierBy(o, e, p)
             /\ Apart(V(o, p))
  <2>1. \A e : e \in V(o, p) <=> /\ e = S2 \/ (HasCorrections /\ e = S5)
                                 /\ EarlierBy(o, e, p)
    BY <1>7, SeenBySentinel
  <2>2. \A e \in V(o, p) : e \in rows
    BY DEF VisibleBy
  <2> QED BY <1>6, <2>1, <2>2, ApartSubset, Zenon
<1>8. \A k, time : /\ TimeBy("ReceivedTime", Predictor(k, time)) = time
                   /\ TimeBy("ObservedTimeLeaky", Predictor(k, time)) = time
  BY <1>4 DEF TimeBy
<1>9. /\ TimeBy("ReceivedTime", S2) = 1020 /\ TimeBy("ObservedTimeLeaky", S2) = 1000
      /\ HasCorrections => TimeBy("ReceivedTime", S5) = 1060 /\ TimeBy("ObservedTimeLeaky", S5) = 1040
  BY <1>3 DEF TimeBy
<1>10. /\ p3.symbol = SymbolNames[1] /\ p4.symbol = SymbolNames[1] /\ p6.symbol = SymbolNames[1]
       /\ IsPrediction(p3) /\ IsPrediction(p4) /\ IsPrediction(p6)
       /\ p3.id = 3 /\ p4.id = 4 /\ p6.id = 6
       /\ TimeBy("ReceivedTime", p3) = 1010 /\ TimeBy("ObservedTimeLeaky", p3) = 1010
       /\ TimeBy("ReceivedTime", p4) = 1030
       /\ TimeBy("ReceivedTime", p6) = 1050 /\ TimeBy("ObservedTimeLeaky", p6) = 1050
  BY <1>4, <1>8
<1> HIDE DEF S2, S5, p3, p4, p6, rows
<1>11. S2 \in Event /\ (HasCorrections => S5 \in Event) /\ p3 \in Event /\ p4 \in Event
       /\ (HasCorrections => p6 \in Event)
  BY <1>1, <1>2
<1>12. ASSUME Roomy PROVE V("ReceivedTime", p3) = {}
  <2>1. ~EarlierBy("ReceivedTime", S2, p3) /\ (HasCorrections => ~EarlierBy("ReceivedTime", S5, p3))
    BY <1>9, <1>10, <1>11, TimesOrder
  <2>2. p3 \in rows /\ TimeBy("ReceivedTime", p3) < 2000
    BY <1>2, <1>10
  <2> QED BY <1>7, <1>10, <1>12, <2>1, <2>2
<1>13. ASSUME Roomy PROVE V("ReceivedTime", p4) = {S2}
  <2>1. EarlierBy("ReceivedTime", S2, p4) /\ (HasCorrections => ~EarlierBy("ReceivedTime", S5, p4))
    BY <1>9, <1>10, <1>11, TimesOrder
  <2>2. p4 \in rows /\ TimeBy("ReceivedTime", p4) < 2000
    BY <1>2, <1>10
  <2> QED BY <1>7, <1>10, <1>13, <2>1, <2>2
<1>14. V("ObservedTimeLeaky", p3) = {S2}
  <2>1. EarlierBy("ObservedTimeLeaky", S2, p3) /\ (HasCorrections => ~EarlierBy("ObservedTimeLeaky", S5, p3))
    BY <1>9, <1>10, <1>11, TimesOrder
  <2>2. p3 \in rows /\ TimeBy("ObservedTimeLeaky", p3) < 2000
    BY <1>2, <1>10
  <2> QED BY <1>7, <1>10, <2>1, <2>2
<1>15. ASSUME NEW o, NEW p \in rows, p.symbol = SymbolNames[1], TimeBy(o, p) < 2000, V(o, p) = {S2},
              o = "ReceivedTime" => Roomy
       PROVE  /\ RecordBy(o, rows, p).max_key = KeyOf[2] /\ RecordBy(o, rows, p).max_time = 1020
              /\ RecordBy(o, rows, p).inputs = <<KeyOf[2]>>
  <2> DEFINE W == V(o, p)
  <2>1. Apart(W) /\ W = {S2}
    BY <1>7, <1>15
  <2>2. /\ CitedFrom(o, W) # <<>> /\ LastOf(CitedFrom(o, W)) = S2
        /\ CitedFrom(o, W) = <<S2>>
    <3> HIDE DEF W
    <3>1. S2 \in W /\ \A e \in W : Relevant(e) /\ (e = S2 \/ (EarlierBy(o, e, S2) /\ ReceivedBefore(e, S2)))
      BY <1>5, <2>1
    <3> QED BY <2>1, <3>1, LastIsCited, Zenon
  <2>3. /\ RecordBy(o, rows, p).max_key = KeyOf[S2.id]
        /\ RecordBy(o, rows, p).max_time = S2.received_time
        /\ RecordBy(o, rows, p).inputs = <<KeyOf[S2.id]>>
    BY <2>2, RecordOfLast, Zenon
  <2> QED BY <1>3, <2>3
<1>16. ASSUME NEW o, NEW p \in rows, IsPrediction(p)
       PROVE  RecordOf(LogOf(events, o), p.id) = RecordBy(o, rows, p)
  BY <1>16, RecordOfPrediction, Zenon DEF rows
<1>17. ASSUME Roomy PROVE RecordOf(LogOf(events, "ReceivedTime"), 3).inputs = <<>>
  <2>1. RecordOf(LogOf(events, "ReceivedTime"), 3) = RecordBy("ReceivedTime", rows, p3)
    BY <1>2, <1>10, <1>16
  <2>2. RecordBy("ReceivedTime", rows, p3) = RecordFrom(<<>>, p3)
    BY <1>12, <1>17, NothingIsCited, Zenon DEF RecordBy
  <2>3. RecordFrom(<<>>, p3).inputs = <<>>
    BY DEF RecordFrom
  <2> QED BY <2>1, <2>2, <2>3
<1>18. ASSUME Roomy PROVE RecordOf(LogOf(events, "ReceivedTime"), 4).inputs = <<KeyOf[2]>>
  <2>1. RecordOf(LogOf(events, "ReceivedTime"), 4) = RecordBy("ReceivedTime", rows, p4)
    BY <1>2, <1>10, <1>16
  <2>2. TimeBy("ReceivedTime", p4) < 2000
    BY <1>10
  <2> QED BY <1>2, <1>10, <1>13, <1>15, <1>18, <2>1, <2>2
<1>19. /\ RecordOf(LogOf(events, "ObservedTimeLeaky"), 3).max_key = KeyOf[2]
       /\ RecordOf(LogOf(events, "ObservedTimeLeaky"), 3).max_time > 1010
  <2>1. RecordOf(LogOf(events, "ObservedTimeLeaky"), 3) = RecordBy("ObservedTimeLeaky", rows, p3)
    BY <1>2, <1>10, <1>16
  <2>2. TimeBy("ObservedTimeLeaky", p3) < 2000
    BY <1>10
  <2>3. /\ RecordBy("ObservedTimeLeaky", rows, p3).max_key = KeyOf[2]
        /\ RecordBy("ObservedTimeLeaky", rows, p3).max_time = 1020
    BY <1>2, <1>10, <1>14, <1>15, <2>2
  <2> QED BY <2>1, <2>3
<1>20. ASSUME HasCorrections, Roomy
       PROVE  RecordOf(LogOf(events, "ReceivedTime"), 6).max_key = KeyOf[2]
  <2>1. RecordOf(LogOf(events, "ReceivedTime"), 6) = RecordBy("ReceivedTime", rows, p6)
    BY <1>2, <1>10, <1>16, <1>20
  <2>2. TimeBy("ReceivedTime", p6) < 2000 /\ p6 \in rows
    BY <1>2, <1>10, <1>20
  <2>3. EarlierBy("ReceivedTime", S2, p6) /\ ~EarlierBy("ReceivedTime", S5, p6)
    BY <1>9, <1>10, <1>11, <1>20, TimesOrder
  <2>4. V("ReceivedTime", p6) = {S2}
    BY <1>7, <1>10, <1>20, <2>2, <2>3
  <2>5. RecordBy("ReceivedTime", rows, p6).max_key = KeyOf[2]
    BY <1>10, <1>15, <1>20, <2>2, <2>4
  <2> QED BY <2>1, <2>5
<1>21. ASSUME HasCorrections
       PROVE  RecordOf(LogOf(events, "ObservedTimeLeaky"), 6).max_key = KeyOf[5]
  <2>1. RecordOf(LogOf(events, "ObservedTimeLeaky"), 6) = RecordBy("ObservedTimeLeaky", rows, p6)
    BY <1>2, <1>10, <1>16, <1>21
  <2>2. TimeBy("ObservedTimeLeaky", p6) < 2000 /\ p6 \in rows
    BY <1>2, <1>10, <1>21
  <2>3. EarlierBy("ObservedTimeLeaky", S2, p6) /\ EarlierBy("ObservedTimeLeaky", S5, p6)
    BY <1>9, <1>10, <1>11, <1>21, TimesOrder
  <2> DEFINE W == V("ObservedTimeLeaky", p6)
  <2>4. Apart(W) /\ \A e : e \in W <=> e = S2 \/ e = S5
    BY <1>7, <1>10, <1>21, <2>2, <2>3
  <2>5. EarlierBy("ObservedTimeLeaky", S2, S5) /\ ReceivedBefore(S2, S5)
    BY <1>3, <1>9, <1>11, <1>21, TimesOrder, ReceivedInOrder
  <2>6. CitedFrom("ObservedTimeLeaky", W) # <<>> /\ LastOf(CitedFrom("ObservedTimeLeaky", W)) = S5
    <3> HIDE DEF W
    <3>1. S5 \in W /\ \A e \in W : Relevant(e) /\ (e = S5 \/ (EarlierBy("ObservedTimeLeaky", e, S5)
                                                                 /\ ReceivedBefore(e, S5)))
      BY <1>5, <1>21, <2>4, <2>5
    <3> QED BY <2>4, <3>1, LastIsCited, Zenon
  <2>7. RecordBy("ObservedTimeLeaky", rows, p6).max_key = KeyOf[S5.id]
    BY <2>6, RecordOfLast, Zenon
  <2> QED BY <1>3, <1>21, <2>1, <2>7
<1> QED BY <1>17, <1>18, <1>19, <1>20, <1>21, Zenon DEF SentinelsSetATrap

\* Every generated feed leaks into the observed-time replay at its sentinels,
\* and with room for its times the received-time replay is clean there.
THEOREM GeneratedFeedsSetATrap ==
  ASSUME NoCollision, ReadsSentiments PROVE Spec => []SentinelsSetATrap
<1>1. GInv => SentinelsSetATrap
  <2>1. phase # "done" => SentinelsSetATrap
    BY Zenon DEF SentinelsSetATrap
  <2> QED BY <2>1, TrapIsSet, Zenon
<1> QED BY <1>1, GeneratorInvariant, PTL
=============================================================================
