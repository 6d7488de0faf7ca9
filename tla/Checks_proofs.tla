---------------------------- MODULE Checks_proofs ----------------------------
(***************************************************************************)
(* What the adversarial checks promise, for every file, every number of    *)
(* cutoffs and every signal.                                               *)
(*                                                                         *)
(* A log is the sequence of the records of the predictions in their order, *)
(* and a record is a function of the rows visible to its prediction        *)
(* (SignalViews_proofs).  The families follow from what their feeds have   *)
(* in common with the file.                                                *)
(***************************************************************************)
EXTENDS Checks, SignalViews_proofs

-----------------------------------------------------------------------------
Answered(feed) == PredictionsBy("ReceivedTime", feed)

AnswerTo(feed, p) == Told(RecordBy("ReceivedTime", RowsOf(feed), p))

LEMMA LogOfFeed ==
  ASSUME NEW feed
  PROVE  /\ FullPredictions(feed) = [n \in DOMAIN Answered(feed) |-> AnswerTo(feed, Answered(feed)[n])]
         /\ DOMAIN FullPredictions(feed) = DOMAIN Answered(feed)
<1> DEFINE L == LogOf(feed, "ReceivedTime")
<1>1. L = [n \in DOMAIN Answered(feed) |-> RecordBy("ReceivedTime", RowsOf(feed), Answered(feed)[n])]
  BY LogIs DEF Answered
<1>2. FullPredictions(feed) = [n \in DOMAIN L |-> Told(L[n])]
  BY Zenon DEF FullPredictions, ToldBy
<1> HIDE DEF L
<1> QED BY <1>1, <1>2, SMT DEF AnswerTo

-----------------------------------------------------------------------------
(***************************************************************************)
(* The past of a log is the log of the past: what a log says up to a       *)
(* cutoff is a function of the rows received up to it.                     *)
(***************************************************************************)
UpTo(rows, cutoff) == { e \in rows : e.received_time <= cutoff }

LogOfRows(rows) ==
  [ n \in 1..Cardinality(PredictionsOf(rows)) |->
      Told(RecordBy("ReceivedTime", rows, RowsInOrder("ReceivedTime", PredictionsOf(rows))[n])) ]

\* Whatever a signal tells, the record says of which prediction it is.
LEMMA ToldKeeps ==
  ASSUME NEW feed, NEW p
  PROVE  /\ AnswerTo(feed, p).key = EventKey(p)
         /\ AnswerTo(feed, p).time = p.received_time
         /\ AnswerTo(feed, p).symbol = SymbolIdOf[p.symbol]
BY DEF AnswerTo, RecordBy, Told, RecordFrom

LEMMA PastOfLog ==
  ASSUME NEW feed \in Seq(Event), Clean(feed), NEW cutoff \in Nat
  PROVE  PredictionsAtOrBefore(FullPredictions(feed), cutoff) = LogOfRows(UpTo(RowsOf(feed), cutoff))
<1> DEFINE o == "ReceivedTime"
           rows == RowsOf(feed)
           past == UpTo(rows, cutoff)
           S == PredictionsOf(rows)
           T == PredictionsOf(past)
           s == RowsInOrder(o, S)
           t == RowsInOrder(o, T)
           L == FullPredictions(feed)
           N == Cardinality(S)
           M == Cardinality(T)
<1>1. Apart(rows) /\ \A e \in rows : e \in Event /\ e.received_time \in Nat
  BY CleanRows DEF Apart, Event
<1>2. \A e \in S : e \in rows
  BY Zenon DEF PredictionsOf
<1>3. Apart(S)
  BY <1>1, <1>2, ApartSubset
<1>4. \A e : e \in T <=> e \in S /\ e.received_time <= cutoff
  BY Zenon DEF PredictionsOf, UpTo
<1>5. ASSUME NEW e \in rows, NEW f \in rows, EarlierBy(o, e, f)
      PROVE  e.received_time <= f.received_time
  BY <1>1, <1>5, ReceivedInOrder, Zenon
<1>6. \A e \in T : \A f \in S : EarlierBy(o, f, e) => f \in T
  <2> SUFFICES ASSUME NEW e \in T, NEW f \in S, EarlierBy(o, f, e)
               PROVE  f \in T
    OBVIOUS
  <2>1. e \in rows /\ f \in rows /\ e.received_time <= cutoff /\ f.received_time <= e.received_time
    BY <1>2, <1>4, <1>5
  <2>2. f.received_time <= cutoff
    BY <2>1, <1>1
  <2> QED BY <2>2, <1>4
<1>7. /\ M \in Nat /\ M <= N
      /\ \A n \in 1..N : s[n] \in T <=> n <= M
      /\ \A n \in 1..M : s[n] = t[n]
  <2>1. Begins(o, T, S)
    BY <1>4, <1>6, Zenon DEF Begins
  <2>2. /\ Cardinality(T) \in Nat /\ Cardinality(T) <= Cardinality(S)
        /\ \A n \in 1..Cardinality(S) : RowsInOrder(o, S)[n] \in T <=> n <= Cardinality(T)
    BY <1>3, <2>1, OrderBeginsWith
  <2>3. \A n \in 1..Cardinality(T) : RowsInOrder(o, S)[n] = RowsInOrder(o, T)[n]
    BY <1>3, <2>1, OrderBeginsWith
  <2> QED BY <2>2, <2>3, Zenon
<1>8. N \in Nat /\ DOMAIN s = 1..N /\ \A n \in 1..N : s[n] \in S
  BY <1>3, PlacesAreTaken
<1>9. DOMAIN L = 1..N /\ \A n \in 1..N : L[n] = Told(RecordBy(o, rows, s[n]))
  BY <1>8, LogOfFeed, Zenon DEF Answered, PredictionsBy, AnswerTo
<1>10. \A n \in 1..N : L[n].time = s[n].received_time
  <2>1. \A n \in 1..N : L[n] = AnswerTo(feed, s[n])
    BY <1>9, Zenon DEF AnswerTo
  <2>2. \A p : AnswerTo(feed, p).time = p.received_time
    BY ToldKeeps
  <2> QED BY <2>1, <2>2, Zenon
<1> HIDE DEF L, S, T, s, t, N, M
<1>11. { n \in DOMAIN L : L[n].time <= cutoff } = 1..M
  <2>1. \A n \in 1..N : L[n].time <= cutoff <=> n <= M
    BY <1>4, <1>7, <1>8, <1>10
  <2>2. { n \in 1..N : n <= M } = 1..M
    BY <1>7, <1>8
  <2> QED BY <1>9, <2>1, <2>2, Zenon
<1>12. PredictionsAtOrBefore(L, cutoff) = [n \in 1..M |-> L[n]]
  BY <1>7, <1>11, ListedFirst, Zenon DEF PredictionsAtOrBefore
<1>13. ASSUME NEW n \in 1..M
       PROVE  L[n] = Told(RecordBy(o, past, t[n]))
  <2>1. n \in 1..N /\ L[n] = Told(RecordBy(o, rows, t[n])) /\ t[n] \in T
    BY <1>7, <1>8, <1>9
  <2>2. t[n] \in rows /\ t[n].received_time <= cutoff
    BY <2>1, <1>2, <1>4
  <2>3. \A e \in rows : EarlierBy(o, e, t[n]) => e.received_time <= cutoff
    <3> SUFFICES ASSUME NEW e \in rows, EarlierBy(o, e, t[n])
                 PROVE  e.received_time <= cutoff
      OBVIOUS
    <3>1. e.received_time <= t[n].received_time
      BY <2>2, <1>5
    <3> QED BY <3>1, <2>2, <1>1
  <2>4. VisibleBy(o, rows, t[n]) = VisibleBy(o, past, t[n])
    BY <2>3, Zenon DEF VisibleBy, UpTo
  <2> QED BY <2>1, <2>4, Zenon DEF RecordBy
<1>14. LogOfRows(past) = [n \in 1..M |-> Told(RecordBy(o, past, t[n]))]
  BY Zenon DEF LogOfRows, T, M, t
<1> HIDE DEF past, o
<1>15. PredictionsAtOrBefore(L, cutoff) = LogOfRows(past)
  BY <1>12, <1>13, <1>14, SMT
<1> QED BY <1>15 DEF L, past

-----------------------------------------------------------------------------
(***************************************************************************)
(* The cutoffs: distinct times, and a sample of them by rank.              *)
(***************************************************************************)
LEMMA RankOfTimes ==
  ASSUME NEW P, IsFiniteSet(P), \A t \in P : t \in Nat
  PROVE  /\ Cardinality(P) \in Nat
         /\ \A t \in P : Rank(P, t) \in 1..Cardinality(P)
         /\ \A t, u \in P : t < u => Rank(P, t) < Rank(P, u)
         /\ \A n \in 1..Cardinality(P) : \E t \in P : Rank(P, t) = n
<1> DEFINE N == Cardinality(P)
           Up(t) == { q \in P : q <= t }
           r == [t \in P |-> Rank(P, t)]
<1>1. IsFiniteSet(P) /\ N \in Nat
  BY FS_CardinalityType
<1>2. \A t \in P : Up(t) \in SUBSET P /\ t \in Up(t)
  OBVIOUS
<1>3. \A t \in P : Rank(P, t) = Cardinality(Up(t))
  BY Zenon DEF Rank
<1>4. ASSUME NEW t \in P, NEW u \in P, t < u
      PROVE  Up(t) \in SUBSET Up(u) /\ u \notin Up(t)
  BY <1>4
<1> HIDE DEF Up
<1>5. ASSUME NEW t \in P
      PROVE  IsFiniteSet(Up(t)) /\ Cardinality(Up(t)) \in 1..N
  <2>1. IsFiniteSet(Up(t)) /\ Cardinality(Up(t)) <= N /\ Cardinality(Up(t)) \in Nat
    BY <1>1, <1>2, FS_Subset, FS_CardinalityType
  <2>2. Cardinality(Up(t)) # 0
    BY <1>2, <2>1, FS_EmptySet
  <2> QED BY <1>1, <2>1, <2>2
<1>6. ASSUME NEW t \in P, NEW u \in P, t < u
      PROVE  Cardinality(Up(t)) < Cardinality(Up(u))
  <2>1. Up(t) \in SUBSET Up(u) /\ Up(t) # Up(u)
    BY <1>2, <1>4, <1>6
  <2>2. Cardinality(Up(t)) <= Cardinality(Up(u)) /\ Cardinality(Up(t)) # Cardinality(Up(u))
    BY <2>1, <1>5, FS_Subset
  <2> QED BY <2>2, <1>1, <1>5
<1>7. r \in Injection(P, 1..N)
  <2>1. r \in [P -> 1..N]
    BY <1>3, <1>5, Zenon
  <2>2. ASSUME NEW t \in P, NEW u \in P, Rank(P, t) = Rank(P, u), t # u
        PROVE  FALSE
    <3>1. t < u \/ u < t
      BY <2>2
    <3> QED BY <3>1, <2>2, <1>1, <1>3, <1>5, <1>6
  <2> QED BY <2>1, <2>2, Zenon DEF Injection, IsInjective
<1>8. r \in Surjection(P, 1..N)
  <2>1. IsFiniteSet(1..N) /\ Cardinality(1..N) = N
    BY <1>1, FS_Interval
  <2> HIDE DEF r, N
  <2> QED BY <1>1, <1>7, <2>1, FS_Injection DEF N
<1>9. \A n \in 1..N : \E t \in P : Rank(P, t) = n
  BY <1>8, Zenon DEF Surjection
<1> QED BY <1>1, <1>3, <1>5, <1>6, <1>9

\* The sampled indices rise one after the other, from the first to the last.
LEMMA SampleIndices ==
  ASSUME NEW last \in Nat, NEW limit \in Nat, limit >= 2, last >= limit
  PROVE  /\ \A i \in 0..(limit - 1) : SampleIndex(i, last, limit) \in 0..last
         /\ SampleIndex(limit - 1, last, limit) = last
         /\ \A i, j \in 0..(limit - 1) :
              i < j => SampleIndex(i, last, limit) < SampleIndex(j, last, limit)
<1> DEFINE d == limit - 1
           F(i) == SampleIndex(i, last, limit)
<1>1. d \in Nat /\ d >= 1 /\ last >= d
  OBVIOUS
<1>2. ASSUME NEW i \in 0..d
      PROVE  F(i) \in Nat /\ F(i) * d <= i * last /\ i * last < F(i) * d + d
  <2>1. i * last \in Nat
    OBVIOUS
  <2>2. \A x \in Nat : x \div d \in Nat /\ (x \div d) * d <= x /\ x < (x \div d) * d + d
    <3> TAKE x \in Nat
    <3>1. x = d * (x \div d) + (x % d) /\ x % d \in 0..(d - 1) /\ x \div d \in Nat
      BY <1>1
    <3> QED BY <3>1
  <2> HIDE DEF d
  <2> QED BY <2>1, <2>2 DEF SampleIndex, d
<1>3. ASSUME NEW i \in 0..d
      PROVE  F(i) <= last
  <2>1. i * last <= d * last
    BY <1>1
  <2>2. F(i) * d <= i * last /\ F(i) \in Nat
    BY <1>2
  <2> HIDE DEF d, F
  <2>3. F(i) * d <= last * d
    BY <2>1, <2>2, <1>1
  <2> QED BY <2>2, <2>3, <1>1
<1>4. ASSUME NEW i \in 0..d, NEW j \in 0..d, i < j
      PROVE  F(i) < F(j)
  <2>1. j * last >= i * last + last
    BY <1>4
  <2>2. F(i) \in Nat /\ F(j) \in Nat /\ F(i) * d <= i * last /\ j * last < F(j) * d + d
    BY <1>2
  <2>3. i * last \in Nat /\ j * last \in Nat
    OBVIOUS
  <2> HIDE DEF d, F
  <2>4. F(i) * d < F(j) * d
    BY <2>1, <2>2, <2>3, <1>1
  <2> QED BY <2>2, <2>4, <1>1
<1>5. F(d) = last
  <2>1. F(d) \in Nat /\ F(d) * d <= d * last /\ d * last < F(d) * d + d /\ F(d) <= last
    BY <1>2, <1>3, <1>1
  <2> HIDE DEF F, d
  <2>2. d * last < (F(d) + 1) * d
    BY <2>1, <1>1
  <2>3. last < F(d) + 1
    BY <2>1, <2>2, <1>1
  <2> QED BY <2>1, <2>3
<1> QED BY <1>2, <1>3, <1>4, <1>5

LEMMA CutoffTimes ==
  ASSUME events \in Seq(Event)
  PROVE  IsFiniteSet(PredictionCutoffs) /\ \A t \in PredictionCutoffs : t \in Nat
<1> DEFINE D == { n \in DOMAIN events : IsPrediction(events[n]) }
           times == [i \in D |-> events[i].received_time]
<1>1. IsFiniteSet(DOMAIN events) /\ \A i \in DOMAIN events : events[i].received_time \in Nat
  <2>1. Len(events) \in Nat /\ DOMAIN events = 1..Len(events) /\ \A i \in DOMAIN events : events[i] \in Event
    OBVIOUS
  <2> QED BY <2>1, FS_Interval DEF Event
<1>2. IsFiniteSet(D)
  BY <1>1, FS_Subset
<1>3. PredictionCutoffs = At(times, D)
  BY Zenon DEF PredictionCutoffs, At
<1> HIDE DEF times, D
<1>4. IsFiniteSet(PredictionCutoffs)
  BY <1>2, <1>3, AtFinite
<1>5. \A t \in PredictionCutoffs : t \in Nat
  BY <1>1, Zenon DEF PredictionCutoffs
<1> QED BY <1>4, <1>5

\* A cutoff named by its rank, and the last one.
LEMMA CutoffByRank ==
  ASSUME events \in Seq(Event)
  PROVE  /\ Cardinality(PredictionCutoffs) \in Nat
         /\ \A n \in 1..Cardinality(PredictionCutoffs) :
              CutoffAt(n) \in PredictionCutoffs /\ Rank(PredictionCutoffs, CutoffAt(n)) = n
         /\ PredictionCutoffs # {} =>
              /\ Cardinality(PredictionCutoffs) >= 1
              /\ Max(PredictionCutoffs) = CutoffAt(Cardinality(PredictionCutoffs))
              /\ Max(PredictionCutoffs) \in PredictionCutoffs
<1> DEFINE P == PredictionCutoffs
           N == Cardinality(P)
<1>1. IsFiniteSet(P) /\ \A t \in P : t \in Nat
  BY CutoffTimes
<1>2. /\ N \in Nat
      /\ \A t \in P : Rank(P, t) \in 1..N
      /\ \A t, u \in P : t < u => Rank(P, t) < Rank(P, u)
      /\ \A n \in 1..N : \E t \in P : Rank(P, t) = n
  <2> HIDE DEF P
  <2> QED BY <1>1, RankOfTimes
<1>3. \A n \in 1..N : CutoffAt(n) \in P /\ Rank(P, CutoffAt(n)) = n
  BY <1>2, Zenon DEF CutoffAt
<1>4. ASSUME P # {}
      PROVE  N >= 1 /\ Max(P) = CutoffAt(N) /\ Max(P) \in P
  <2>1. N >= 1
    BY <1>2, <1>4
  <2>2. CutoffAt(N) \in P /\ Rank(P, CutoffAt(N)) = N
    BY <1>2, <1>3, <2>1
  <2> HIDE DEF P, N
  <2>3. \A u \in P : CutoffAt(N) >= u
    <3> SUFFICES ASSUME NEW u \in P, ~(CutoffAt(N) >= u) PROVE FALSE
      OBVIOUS
    <3>1. CutoffAt(N) < u
      BY <2>2, <1>1
    <3>2. N < Rank(P, u) /\ Rank(P, u) \in 1..N
      BY <3>1, <2>2, <1>2
    <3> QED BY <3>2, <1>2
  <2>4. \A t \in P : (\A u \in P : t >= u) => t = CutoffAt(N)
    BY <2>2, <2>3, <1>1
  <2>5. Max(P) = CutoffAt(N)
    BY <2>2, <2>3, <2>4, Zenon DEF Max
  <2> QED BY <2>1, <2>2, <2>5
<1> QED BY <1>2, <1>3, <1>4

LEMMA SampleIsFull ==
  ASSUME events \in Seq(Event), max_cutoffs \in Nat \cup {Absent}
  PROVE  SampleIsFullAndEndsLast /\ \A t \in SelectedCutoffs : t \in Nat
<1> DEFINE P == PredictionCutoffs
           N == Cardinality(P)
           limit == Sampled(max_cutoffs)
           F(i) == SampleIndex(i, N - 1, limit)
           I == 0..(limit - 1)
<1>1. N \in Nat /\ IsFiniteSet(P) /\ (P = {} <=> N = 0)
  BY CutoffByRank, CutoffTimes, FS_EmptySet
<1>2. \A n \in 1..N : CutoffAt(n) \in P /\ Rank(P, CutoffAt(n)) = n
  BY CutoffByRank
<1>3. P # {} => Max(P) = CutoffAt(N) /\ Max(P) \in P /\ N >= 1
  BY CutoffByRank
<1>a. max_cutoffs # Absent => limit \in Nat /\ limit >= 1
  BY DEF Sampled
<1>4. CASE max_cutoffs = Absent
  <2>1. SelectedCutoffs = P
    BY <1>4, Zenon DEF SelectedCutoffs
  <2> QED BY <2>1, <1>3, <1>4, CutoffTimes DEF SampleIsFullAndEndsLast
<1>5. CASE max_cutoffs # Absent /\ N <= limit
  <2>1. SelectedCutoffs = P
    BY <1>5, Zenon DEF SelectedCutoffs
  <2>2. ReportedCutoffs(limit) = N
    BY <1>1, <1>a, <1>5 DEF ReportedCutoffs
  <2> QED BY <2>1, <2>2, <1>3, <1>5, CutoffTimes, Zenon DEF SampleIsFullAndEndsLast
<1>6. CASE max_cutoffs # Absent /\ ~(N <= limit) /\ limit = 1
  <2>1. SelectedCutoffs = { CutoffAt(N) }
    BY <1>6, Zenon DEF SelectedCutoffs
  <2>2. ReportedCutoffs(limit) = 1
    BY <1>1, <1>6 DEF ReportedCutoffs
  <2>3. P # {} /\ N \in 1..N
    BY <1>1, <1>a, <1>6
  <2>4. Cardinality(SelectedCutoffs) = 1
    BY <2>1, FS_Singleton
  <2>5. CutoffAt(N) \in P /\ Max(P) = CutoffAt(N)
    BY <2>3, <1>2, <1>3
  <2>6. SelectedCutoffs \subseteq P /\ Max(P) \in SelectedCutoffs
    BY <2>1, <2>5
  <2> QED BY <2>2, <2>4, <2>6, <1>6, CutoffTimes DEF SampleIsFullAndEndsLast
<1>7. CASE max_cutoffs # Absent /\ ~(N <= limit) /\ limit # 1
  <2>1. limit \in Nat /\ limit >= 2 /\ N - 1 \in Nat /\ N - 1 >= limit /\ limit = max_cutoffs
    BY <1>1, <1>a, <1>7 DEF Sampled
  <2>2. /\ \A i \in I : F(i) \in 0..(N - 1)
        /\ F(limit - 1) = N - 1
        /\ \A i, j \in I : i < j => F(i) < F(j)
    <3> HIDE DEF N, limit
    <3> QED BY <2>1, SampleIndices
  <2>3. IsFiniteSet(I) /\ Cardinality(I) = limit
    BY <2>1, FS_Interval
  <2>4. SelectedCutoffs = { CutoffAt(F(i) + 1) : i \in I }
    BY <1>7, <2>1, Zenon DEF SelectedCutoffs
  <2>5. ReportedCutoffs(limit) = Cardinality({ F(i) : i \in I })
    BY <1>7, <2>1 DEF ReportedCutoffs
  <2> DEFINE f == [i \in I |-> F(i)]
             g == [i \in I |-> CutoffAt(F(i) + 1)]
  <2>6. { F(i) : i \in I } = At(f, I) /\ { CutoffAt(F(i) + 1) : i \in I } = At(g, I)
    BY Zenon DEF At
  <2> HIDE DEF F, P, N, limit
  <2>7. \A i, j \in I : F(i) = F(j) => i = j
    <3> SUFFICES ASSUME NEW i \in I, NEW j \in I, F(i) = F(j), i # j PROVE FALSE
      OBVIOUS
    <3>1. i < j \/ j < i
      BY <2>1
    <3> QED BY <3>1, <2>2, <1>1
  <2>8. \A i \in I : F(i) + 1 \in 1..N /\ CutoffAt(F(i) + 1) \in P /\ Rank(P, CutoffAt(F(i) + 1)) = F(i) + 1
    <3> TAKE i \in I
    <3>1. F(i) + 1 \in 1..N
      BY <2>2, <1>1
    <3> QED BY <3>1, <1>2
  <2>9. \A i, j \in I : CutoffAt(F(i) + 1) = CutoffAt(F(j) + 1) => i = j
    <3> SUFFICES ASSUME NEW i \in I, NEW j \in I, CutoffAt(F(i) + 1) = CutoffAt(F(j) + 1)
                 PROVE  F(i) = F(j)
      BY <2>7
    <3>1. F(i) + 1 = F(j) + 1
      BY <2>8
    <3> QED BY <3>1, <2>2
  <2>10. Cardinality(At(f, I)) = limit
    <3>1. \A i, j \in I : f[i] = f[j] => i = j
      BY <2>7, Zenon
    <3> HIDE DEF f, I
    <3> QED BY <3>1, <2>3, AtSize
  <2>11. Cardinality(At(g, I)) = limit
    <3>1. \A i, j \in I : g[i] = g[j] => i = j
      BY <2>9, Zenon
    <3> HIDE DEF g, I
    <3> QED BY <3>1, <2>3, AtSize
  <2>12. SelectedCutoffs \subseteq P
    BY <2>4, <2>8, Zenon
  <2>13. Max(P) \in SelectedCutoffs
    <3>1. limit - 1 \in I /\ F(limit - 1) + 1 = N /\ P # {}
      BY <2>1, <2>2, <1>1
    <3>2. CutoffAt(N) \in SelectedCutoffs
      BY <3>1, <2>4
    <3> QED BY <3>1, <3>2, <1>3
  <2>14. Cardinality(SelectedCutoffs) = limit /\ ReportedCutoffs(limit) = limit
    BY <2>4, <2>5, <2>6, <2>10, <2>11, Zenon
  <2> QED BY <2>12, <2>13, <2>14, <1>7, CutoffTimes, Zenon DEF SampleIsFullAndEndsLast, P, N, limit
<1> QED BY <1>4, <1>5, <1>6, <1>7

-----------------------------------------------------------------------------
(***************************************************************************)
(* The families that compare logs pass on an accepted file, whatever the   *)
(* signal cites.                                                           *)
(***************************************************************************)
LEMMA PrefixIsClean ==
  ASSUME events \in Seq(Event), Clean(events), NEW cutoff
  PROVE  /\ PrefixUpTo(cutoff) \in Seq(Event)
         /\ Clean(PrefixUpTo(cutoff))
         /\ RowsOf(PrefixUpTo(cutoff)) = UpTo(RowsOf(events), cutoff)
<1> DEFINE P == { i \in DOMAIN events : AtOrBefore(events[i].received_time, cutoff) }
<1>1. PrefixUpTo(cutoff) = Listed(events, P)
  BY Zenon DEF PrefixUpTo
<1>2. \A q \in P : q \in DOMAIN events
  OBVIOUS
<1>3. At(events, P) = UpTo(RowsOf(events), cutoff)
  BY Zenon DEF At, UpTo, RowsOf, AtOrBefore
<1> HIDE DEF P
<1> QED BY <1>1, <1>2, <1>3, ListingIsClean

\* A mutated feature row keeps its place, and its payload can be read.
LEMMA MutatedRow ==
  ASSUME NEW e \in Event
  PROVE  /\ WithMutatedFuturePayload(e) \in Event
         /\ EventKey(WithMutatedFuturePayload(e)) = EventKey(e)
         /\ WithMutatedFuturePayload(e).received_time = e.received_time
         /\ WithMutatedFuturePayload(e).seq = e.seq
         /\ WithMutatedFuturePayload(e).symbol = e.symbol
         /\ UpdatesSignalState(WithMutatedFuturePayload(e)) <=> UpdatesSignalState(e)
         /\ UpdatesSignalState(e) => PayloadOk(WithMutatedFuturePayload(e))
<1> DEFINE m == WithMutatedFuturePayload(e)
<1>1. CASE ~UpdatesSignalState(e)
  <2>1. m = e
    BY <1>1, Zenon DEF WithMutatedFuturePayload
  <2> QED BY <1>1, <2>1, Zenon
<1>2. CASE UpdatesSignalState(e) /\ e.score # Absent
  <2>1. m = [e EXCEPT !.sentiment = Absent, !.score = MutatedScore]
    BY <1>2, Zenon DEF WithMutatedFuturePayload
  <2>2. /\ m \in Event /\ m.id = e.id /\ m.role = e.role /\ m.symbol = e.symbol /\ m.seq = e.seq
        /\ m.received_time = e.received_time /\ m.sentiment = Absent /\ m.score = MutatedScore
    BY <2>1, EventsAssumption DEF Event
  <2>3. Absent # Malformed /\ MutatedScore # Malformed /\ MutatedScore # Absent
    BY EventsAssumption
  <2> HIDE DEF m
  <2>4. PayloadOk(m)
    BY <2>2, <2>3, Zenon DEF PayloadOk
  <2>5. EventKey(m) = EventKey(e) /\ (UpdatesSignalState(m) <=> UpdatesSignalState(e))
    BY <2>2, Zenon DEF EventKey, UpdatesSignalState
  <2> QED BY <2>2, <2>4, <2>5 DEF m
<1>3. CASE UpdatesSignalState(e) /\ e.score = Absent
  <2>1. m = [e EXCEPT !.sentiment = -1]
    BY <1>3, Zenon DEF WithMutatedFuturePayload
  <2>2. /\ m \in Event /\ m.id = e.id /\ m.role = e.role /\ m.symbol = e.symbol /\ m.seq = e.seq
        /\ m.received_time = e.received_time /\ m.sentiment = -1 /\ m.score = e.score
    BY <2>1 DEF Event, Sentiments
  <2>3. Absent # Malformed /\ -1 # Malformed /\ -1 # Absent
    BY EventsAssumption
  <2> HIDE DEF m
  <2>4. PayloadOk(m)
    BY <1>3, <2>2, <2>3 DEF PayloadOk
  <2>5. EventKey(m) = EventKey(e) /\ (UpdatesSignalState(m) <=> UpdatesSignalState(e))
    BY <2>2, Zenon DEF EventKey, UpdatesSignalState
  <2> QED BY <2>2, <2>4, <2>5 DEF m
<1> QED BY <1>1, <1>2, <1>3

LEMMA MutatedIsClean ==
  ASSUME events \in Seq(Event), Clean(events), NEW cutoff \in Nat
  PROVE  /\ MutatedAfter(cutoff) \in Seq(Event)
         /\ Clean(MutatedAfter(cutoff))
         /\ UpTo(RowsOf(MutatedAfter(cutoff)), cutoff) = UpTo(RowsOf(events), cutoff)
<1> DEFINE feed == MutatedAfter(cutoff)
           D == DOMAIN events
<1>1. \A i \in D : events[i] \in Event /\ events[i].received_time \in Nat
  <2>1. \A i \in D : events[i] \in Event
    OBVIOUS
  <2> QED BY <2>1 DEF Event
<1>2. DOMAIN feed = D /\ \A i \in D :
        feed[i] = IF events[i].received_time > cutoff THEN WithMutatedFuturePayload(events[i])
                                                      ELSE events[i]
  BY DEF MutatedAfter
<1> HIDE DEF feed
<1>3. \A i \in D : feed[i] = events[i] \/ feed[i] = WithMutatedFuturePayload(events[i])
  BY <1>2, Zenon
<1>4. ASSUME NEW i \in D
      PROVE  /\ feed[i] \in Event
             /\ EventKey(feed[i]) = EventKey(events[i])
             /\ feed[i].received_time = events[i].received_time
             /\ feed[i].seq = events[i].seq
             /\ feed[i].symbol = events[i].symbol
             /\ UpdatesSignalState(feed[i]) => PayloadOk(feed[i])
  <2>1. CASE feed[i] = events[i]
    BY <1>1, <2>1, Zenon DEF Clean
  <2>2. CASE feed[i] = WithMutatedFuturePayload(events[i])
    <3>1. events[i] \in Event
      BY <1>1
    <3> QED BY <3>1, <2>2, MutatedRow, Zenon
  <2> QED BY <1>3, <2>1, <2>2
<1>5. feed \in Seq(Event)
  <2>1. Len(events) \in Nat /\ D = 1..Len(events)
    OBVIOUS
  <2>2. feed = [i \in D |-> feed[i]]
    BY DEF feed, MutatedAfter
  <2>3. feed \in [1..Len(events) -> Event]
    BY <1>4, <2>1, <2>2, Zenon
  <2> QED BY <2>1, <2>3, SeqDef
<1>6. Clean(feed)
  <2> DEFINE at == [i \in D |-> i]
  <2>1. \A i \in DOMAIN feed : at[i] \in DOMAIN events /\ Alike(events[at[i]], feed[i])
    BY <1>2, <1>4 DEF Alike
  <2>2. \A i, j \in DOMAIN feed : at[i] = at[j] => i = j
    BY <1>2
  <2> HIDE DEF at
  <2> QED BY <2>1, <2>2, CopyIsClean
<1>7. \A i \in D : events[i].received_time <= cutoff => feed[i] = events[i]
  <2>1. \A i \in D : events[i].received_time <= cutoff => ~(events[i].received_time > cutoff)
    BY <1>1
  <2> QED BY <1>2, <2>1, Zenon
<1>8. \A e : e \in UpTo(RowsOf(feed), cutoff) <=> e \in UpTo(RowsOf(events), cutoff)
  BY <1>2, <1>4, <1>7, Zenon DEF UpTo, RowsOf
<1> QED BY <1>5, <1>6, <1>8, Zenon DEF feed

LEMMA ReversedIsClean ==
  ASSUME events \in Seq(Event), Clean(events)
  PROVE  Clean(Reverse(events)) /\ RowsOf(Reverse(events)) = RowsOf(events)
<1> DEFINE feed == Reverse(events)
           N == Len(events)
<1>1. N \in Nat /\ DOMAIN events = 1..N
  OBVIOUS
<1>2. DOMAIN feed = 1..N /\ \A i \in 1..N : feed[i] = events[(N - i) + 1]
  BY DEF Reverse
<1>3. \A i \in 1..N : (N - i) + 1 \in 1..N /\ N - ((N - i) + 1) + 1 = i
  BY <1>1
<1>4. \A i, j \in 1..N : i # j => (N - i) + 1 # (N - j) + 1
  BY <1>1
<1> HIDE DEF feed, N
<1>5. Clean(feed)
  <2> DEFINE at == [i \in 1..N |-> (N - i) + 1]
  <2>1. \A i, j \in DOMAIN feed : at[i] = at[j] => i = j
    BY <1>2, <1>4
  <2>2. ASSUME NEW i \in DOMAIN feed
        PROVE  at[i] \in DOMAIN events /\ Alike(events[at[i]], feed[i])
    <3>1. at[i] \in DOMAIN events /\ feed[i] = events[at[i]]
      BY <1>1, <1>2, <1>3
    <3> QED BY <3>1, Zenon DEF Alike, Clean
  <2> HIDE DEF at
  <2> QED BY <2>1, <2>2, CopyIsClean
<1>6. \A i \in 1..N : events[i] = feed[(N - i) + 1]
  BY <1>2, <1>3
<1>7. \A e : e \in RowsOf(feed) <=> e \in RowsOf(events)
  <2>1. ASSUME NEW i \in 1..N PROVE feed[i] \in RowsOf(events)
    BY <1>1, <1>2, <1>3, Zenon DEF RowsOf
  <2>2. ASSUME NEW i \in 1..N PROVE events[i] \in RowsOf(feed)
    BY <1>2, <1>3, <1>6, Zenon DEF RowsOf
  <2> QED BY <1>1, <1>2, <2>1, <2>2, Zenon DEF RowsOf
<1> QED BY <1>5, <1>7, Zenon DEF feed

LEMMA ComparingFamiliesPass ==
  ASSUME events \in Seq(Event), max_cutoffs \in Nat \cup {Absent}, ~Refused(events)
  PROVE  PrefixEquivalence /\ FutureMutation /\ OutcomeSeparation /\ DeterministicReplay
<1>1. Clean(events)
  BY RefusedUnlessClean
<1>2. \A t \in SelectedCutoffs : t \in Nat
  BY SampleIsFull
<1>3. ASSUME NEW feed \in Seq(Event), Clean(feed), NEW cutoff \in Nat,
             UpTo(RowsOf(feed), cutoff) = UpTo(RowsOf(events), cutoff)
      PROVE  SamePast(feed, cutoff)
  <2>1. PredictionsAtOrBefore(FullPredictions(feed), cutoff) = LogOfRows(UpTo(RowsOf(feed), cutoff))
    BY <1>3, PastOfLog
  <2>2. PredictionsAtOrBefore(FullPredictions(events), cutoff) = LogOfRows(UpTo(RowsOf(events), cutoff))
    BY <1>1, PastOfLog
  <2>3. ~Refused(feed)
    BY <1>3, RefusedUnlessClean
  <2> QED BY <1>3, <2>1, <2>2, <2>3, Zenon DEF SamePast
<1>4. ASSUME NEW cutoff \in Nat
      PROVE  SamePast(PrefixUpTo(cutoff), cutoff)
  <2>1. \A e : e \in UpTo(UpTo(RowsOf(events), cutoff), cutoff) <=> e \in UpTo(RowsOf(events), cutoff)
    BY Zenon DEF UpTo
  <2>2. UpTo(UpTo(RowsOf(events), cutoff), cutoff) = UpTo(RowsOf(events), cutoff)
    BY <2>1, Zenon
  <2> QED BY <1>1, <1>3, <2>2, PrefixIsClean
<1>5. ASSUME NEW cutoff \in Nat
      PROVE  SamePast(MutatedAfter(cutoff), cutoff)
  BY <1>1, <1>3, MutatedIsClean
<1>6. DeterministicReplay
  <2>1. Clean(Reverse(events)) /\ RowsOf(Reverse(events)) = RowsOf(events)
    BY <1>1, ReversedIsClean
  <2>2. ~Refused(Reverse(events))
    BY <2>1, RefusedUnlessClean
  <2>3. Answered(Reverse(events)) = Answered(events)
    BY <2>1, Zenon DEF Answered, PredictionsBy
  <2>4. \A p : AnswerTo(Reverse(events), p) = AnswerTo(events, p)
    BY <2>1, Zenon DEF AnswerTo
  <2>5. FullPredictions(Reverse(events)) = FullPredictions(events)
    BY <2>3, <2>4, LogOfFeed, SMT
  <2> QED BY <2>2, <2>5, Zenon DEF DeterministicReplay
<1>7. PrefixEquivalence /\ FutureMutation
  BY <1>2, <1>4, <1>5, Zenon DEF PrefixEquivalence, FutureMutation
<1>8. OutcomeSeparation
  BY Zenon DEF OutcomeSeparation
<1> QED BY <1>6, <1>7, <1>8

-----------------------------------------------------------------------------
(***************************************************************************)
(* The families that inspect provenance: every use in the log, the row of  *)
(* a key, and what the families make of them.                              *)
(***************************************************************************)
LEMMA LogRows ==
  ASSUME NEW feed \in Seq(Event), Clean(feed)
  PROVE  /\ \A n \in DOMAIN FullPredictions(feed) :
              n \in Nat /\ \E p \in PredictionsOf(RowsOf(feed)) :
                             FullPredictions(feed)[n] = AnswerTo(feed, p)
         /\ \A p \in PredictionsOf(RowsOf(feed)) :
              \E n \in DOMAIN FullPredictions(feed) : FullPredictions(feed)[n] = AnswerTo(feed, p)
<1> DEFINE L == LogOf(feed, "ReceivedTime")
           Full == FullPredictions(feed)
           S == PredictionsOf(RowsOf(feed))
<1>1. \A n \in DOMAIN L : \E i \in DOMAIN feed :
        IsPrediction(feed[i]) /\ L[n] = RecordBy("ReceivedTime", RowsOf(feed), feed[i])
  BY LogRecords
<1>2. \A i \in DOMAIN feed : IsPrediction(feed[i]) =>
        \E n \in DOMAIN L : L[n] = RecordBy("ReceivedTime", RowsOf(feed), feed[i])
  BY LogRecords
<1>3. \E N \in Nat : DOMAIN L = 1..N
  BY LogRecords
<1>4. \A e : e \in S <=> \E i \in DOMAIN feed : e = feed[i] /\ IsPrediction(feed[i])
  BY Zenon DEF PredictionsOf, RowsOf
<1>5. Full = [n \in DOMAIN L |-> Told(L[n])]
  BY Zenon DEF FullPredictions, ToldBy
<1> HIDE DEF L, Full, S
<1>6. DOMAIN Full = DOMAIN L /\ \A n \in DOMAIN L : Full[n] = Told(L[n])
  BY <1>5
<1>7. \A n \in DOMAIN Full : n \in Nat
  BY <1>3, <1>6
<1>8. \A n \in DOMAIN Full : \E p \in S : Full[n] = AnswerTo(feed, p)
  BY <1>1, <1>4, <1>6, Zenon DEF AnswerTo
<1>9. \A p \in S : \E n \in DOMAIN Full : Full[n] = AnswerTo(feed, p)
  <2> TAKE p \in S
  <2>1. PICK i \in DOMAIN feed : p = feed[i] /\ IsPrediction(feed[i])
    BY <1>4
  <2>2. PICK n \in DOMAIN L : L[n] = RecordBy("ReceivedTime", RowsOf(feed), feed[i])
    BY <1>2, <2>1
  <2>3. n \in DOMAIN Full /\ Full[n] = AnswerTo(feed, p)
    BY <1>6, <2>1, <2>2, Zenon DEF AnswerTo
  <2> QED BY <2>3
<1> QED BY <1>7, <1>8, <1>9, Zenon DEF Full, S

LEMMA RowOfKey ==
  ASSUME events \in Seq(Event), Clean(events)
  PROVE  /\ \A e \in RowsOf(events) : Keyed(EventKey(e)) # {} /\ EventByKey(EventKey(e)) = e
         /\ \A key : Keyed(key) # {} =>
              EventByKey(key) \in RowsOf(events) /\ EventKey(EventByKey(key)) = key
<1>1. \A i, j \in DOMAIN events : EventKey(events[i]) = EventKey(events[j]) => i = j
  BY CleanRows
<1>2. ASSUME NEW i \in DOMAIN events
      PROVE  Keyed(EventKey(events[i])) = {i} /\ EventByKey(EventKey(events[i])) = events[i]
  <2>1. Keyed(EventKey(events[i])) = {i}
    BY <1>1, Zenon DEF Keyed
  <2>2. i >= i
    OBVIOUS
  <2>3. Max({i}) = i
    BY <2>2, Zenon DEF Max
  <2> QED BY <2>1, <2>3, Zenon DEF EventByKey
<1>3. \A e \in RowsOf(events) : \E i \in DOMAIN events : e = events[i]
  BY Zenon DEF RowsOf
<1>4. \A e \in RowsOf(events) : Keyed(EventKey(e)) # {} /\ EventByKey(EventKey(e)) = e
  BY <1>2, <1>3, Zenon
<1>5. ASSUME NEW key, Keyed(key) # {}
      PROVE  EventByKey(key) \in RowsOf(events) /\ EventKey(EventByKey(key)) = key
  <2>1. PICK i \in DOMAIN events : EventKey(events[i]) = key
    BY <1>5, Zenon DEF Keyed
  <2>2. EventByKey(key) = events[i]
    BY <1>2, <2>1
  <2> QED BY <2>1, <2>2, Zenon DEF RowsOf
<1> QED BY <1>4, <1>5

LEMMA HonestUses ==
  ASSUME events \in Seq(Event), Clean(events), cites = Absent
  PROVE  \A use \in Citing(FullPredictions(events)) :
           \E p, c \in RowsOf(events) :
             /\ use[1] = AnswerTo(events, p)
             /\ use[2] = EventKey(c)
             /\ ReceivedBefore(c, p)
<1> DEFINE L == FullPredictions(events)
<1> SUFFICES ASSUME NEW use \in Citing(L)
             PROVE  \E p, c \in RowsOf(events) :
                      use[1] = AnswerTo(events, p) /\ use[2] = EventKey(c) /\ ReceivedBefore(c, p)
  OBVIOUS
<1>0. PICK n \in DOMAIN L : \E k \in DOMAIN L[n].inputs : use = <<L[n], L[n].inputs[k]>>
  <2> HIDE DEF L
  <2> QED BY Zenon DEF Citing
<1>1. PICK k \in DOMAIN L[n].inputs : use = <<L[n], L[n].inputs[k]>>
  BY <1>0
<1>2. PICK p \in PredictionsOf(RowsOf(events)) : L[n] = AnswerTo(events, p)
  BY LogRows
<1> DEFINE V == VisibleBy("ReceivedTime", RowsOf(events), p)
           cited == CitedFrom("ReceivedTime", V)
<1>3. AnswerTo(events, p).inputs = [i \in DOMAIN cited |-> EventKey(cited[i])]
  <2> HIDE DEF cited
  <2>1. AnswerTo(events, p) = RecordFrom(cited, p)
    BY Zenon DEF AnswerTo, Told, RecordBy, cited
  <2> QED BY <2>1 DEF RecordFrom
<1>4. \A j \in DOMAIN cited : cited[j] \in V
  <2>1. Apart(RowsOf(events))
    BY CleanRows
  <2> QED BY <2>1, CitedAreVisible
<1> HIDE DEF L, cited
<1>5. k \in DOMAIN cited /\ L[n].inputs[k] = EventKey(cited[k])
  BY <1>1, <1>2, <1>3, Zenon
<1>6. cited[k] \in V
  BY <1>4, <1>5
<1>7. cited[k] \in RowsOf(events) /\ p \in RowsOf(events) /\ EarlierBy("ReceivedTime", cited[k], p)
  BY <1>6, Zenon DEF VisibleBy, PredictionsOf
<1>8. ReceivedBefore(cited[k], p)
  BY <1>7, Zenon DEF EarlierBy, KeyBy, ReceivedBefore
<1>9. use[1] = L[n] /\ use[2] = L[n].inputs[k]
  BY <1>1
<1> QED BY <1>2, <1>5, <1>7, <1>8, <1>9, Zenon

LEMMA LyingUses ==
  ASSUME events \in Seq(Event), Clean(events), cites # Absent
  PROVE  /\ \A use \in Citing(FullPredictions(events)) :
              \E p \in PredictionsOf(RowsOf(events)) : use[1] = AnswerTo(events, p) /\ use[2] = cites
         /\ \A p \in PredictionsOf(RowsOf(events)) :
              \E use \in Citing(FullPredictions(events)) : use[1] = AnswerTo(events, p) /\ use[2] = cites
<1> DEFINE L == FullPredictions(events)
<1>1. \A p : AnswerTo(events, p).inputs = <<cites>>
  BY DEF AnswerTo, RecordBy, Told, RecordFrom
<1>2. ASSUME NEW use \in Citing(L)
      PROVE  \E p \in PredictionsOf(RowsOf(events)) : use[1] = AnswerTo(events, p) /\ use[2] = cites
  <2>0. PICK n \in DOMAIN L : \E k \in DOMAIN L[n].inputs : use = <<L[n], L[n].inputs[k]>>
    <3> HIDE DEF L
    <3> QED BY Zenon DEF Citing
  <2>1. PICK k \in DOMAIN L[n].inputs : use = <<L[n], L[n].inputs[k]>>
    BY <2>0
  <2>2. PICK p \in PredictionsOf(RowsOf(events)) : L[n] = AnswerTo(events, p)
    BY LogRows
  <2>3. L[n].inputs = <<cites>>
    BY <1>1, <2>2
  <2> HIDE DEF L
  <2>4. use[1] = L[n] /\ use[2] = cites
    BY <2>1, <2>3
  <2> QED BY <2>2, <2>4
<1>3. ASSUME NEW p \in PredictionsOf(RowsOf(events))
      PROVE  \E use \in Citing(L) : use[1] = AnswerTo(events, p) /\ use[2] = cites
  <2>1. PICK n \in DOMAIN L : L[n] = AnswerTo(events, p)
    BY LogRows
  <2>2. L[n].inputs = <<cites>>
    BY <1>1, <2>1
  <2> HIDE DEF L
  <2> DEFINE use == <<L[n], L[n].inputs[1]>>
  <2>3. 1 \in DOMAIN L[n].inputs /\ L[n].inputs[1] = cites
    BY <2>2
  <2>4. use \in Citing(L)
    <3> DEFINE Of(m) == { <<L[m], L[m].inputs[k]>> : k \in DOMAIN L[m].inputs }
    <3>1. Citing(L) = UNION { Of(m) : m \in DOMAIN L }
      BY Zenon DEF Citing
    <3>2. use \in Of(n)
      BY <2>3
    <3> HIDE DEF Of, use
    <3>3. Of(n) \in { Of(m) : m \in DOMAIN L }
      BY <2>1
    <3> QED BY <3>1, <3>2, <3>3
  <2>5. use[1] = L[n] /\ use[2] = cites
    BY <2>3
  <2> QED BY <2>1, <2>4, <2>5, Zenon
<1> QED BY <1>2, <1>3

LEMMA ProvenanceFamiliesPass ==
  ASSUME events \in Seq(Event), ~Refused(events), cites = Absent
  PROVE  LateArrival /\ FeatureCorrectionAppendOnly /\ AuditInvariant
<1>1. Clean(events) /\ \A e \in RowsOf(events) : e \in Event
  BY RefusedUnlessClean DEF RowsOf
<1>2. ASSUME NEW use \in Citing(FullPredictions(events))
      PROVE  /\ ~LateUse(use[1], use[2])
             /\ Keyed(use[2]) # {}
             /\ EventByKey(use[2]).received_time <= use[1].time
             /\ ~ReceivedBefore(EventByKey(use[1].key), EventByKey(use[2]))
  <2>1. PICK p \in RowsOf(events), c \in RowsOf(events) :
          use[1] = AnswerTo(events, p) /\ use[2] = EventKey(c) /\ ReceivedBefore(c, p)
    BY <1>1, HonestUses
  <2>2. use[1].key = EventKey(p) /\ use[1].time = p.received_time
    BY <2>1, ToldKeeps
  <2>3. EventByKey(use[1].key) = p /\ EventByKey(use[2]) = c /\ Keyed(use[2]) # {}
    BY <1>1, <2>1, <2>2, RowOfKey
  <2>4. ~ReceivedBefore(p, c) /\ c.received_time <= p.received_time
    <3>1. p \in Event /\ c \in Event
      BY <1>1
    <3>2. \A o : EarlierBy(o, c, p) => ~EarlierBy(o, p, c)
      BY <3>1, EarlierIsOrder
    <3>3. EarlierBy("ReceivedTime", c, p) => ~EarlierBy("ReceivedTime", p, c)
      BY <3>2
    <3> QED BY <2>1, <3>1, <3>3, ReceivedInOrder
  <2> QED BY <2>2, <2>3, <2>4, Zenon DEF LateUse
<1> QED BY <1>2, Zenon DEF LateArrival, FeatureCorrectionAppendOnly, AuditInvariant

\* The audit of a signal that cites one fixed key.
LEMMA AuditOfLies ==
  ASSUME events \in Seq(Event), ~Refused(events), cites # Absent
  PROVE  /\ AuditInvariant <=> ~CitesTheFuture
         /\ AuditInvariant => LateArrival /\ FeatureCorrectionAppendOnly
<1> DEFINE Sound(p) == Keyed(cites) # {} /\ ~ReceivedBefore(p, EventByKey(cites))
           P == PredictionsOf(RowsOf(events))
<1>1. Clean(events) /\ \A e \in RowsOf(events) : e \in Event
  BY RefusedUnlessClean DEF RowsOf
<1>2. ASSUME NEW p \in P
      PROVE  /\ p \in RowsOf(events) /\ p \in Event
             /\ EventByKey(AnswerTo(events, p).key) = p
             /\ AnswerTo(events, p).time = p.received_time
  <2>1. p \in RowsOf(events)
    BY Zenon DEF PredictionsOf
  <2> QED BY <1>1, <2>1, RowOfKey, ToldKeeps
<1>3. AuditInvariant <=> \A p \in P : Sound(p)
  <2>1. AuditInvariant <=> \A use \in Citing(FullPredictions(events)) :
           Keyed(use[2]) # {} /\ ~ReceivedBefore(EventByKey(use[1].key), EventByKey(use[2]))
    BY Zenon DEF AuditInvariant
  <2>2. \A use \in Citing(FullPredictions(events)) :
          \E p \in P : use[1] = AnswerTo(events, p) /\ use[2] = cites
    BY <1>1, LyingUses
  <2>3. \A p \in P : \E use \in Citing(FullPredictions(events)) :
          use[1] = AnswerTo(events, p) /\ use[2] = cites
    BY <1>1, LyingUses
  <2>4. ASSUME AuditInvariant, NEW p \in P PROVE Sound(p)
    <3>1. PICK use \in Citing(FullPredictions(events)) : use[1] = AnswerTo(events, p) /\ use[2] = cites
      BY <2>3
    <3>2. Keyed(use[2]) # {} /\ ~ReceivedBefore(EventByKey(use[1].key), EventByKey(use[2]))
      BY <2>1, <2>4
    <3> QED BY <1>2, <3>1, <3>2
  <2>5. ASSUME \A p \in P : Sound(p), NEW use \in Citing(FullPredictions(events))
        PROVE  Keyed(use[2]) # {} /\ ~ReceivedBefore(EventByKey(use[1].key), EventByKey(use[2]))
    <3>1. PICK p \in P : use[1] = AnswerTo(events, p) /\ use[2] = cites
      BY <2>2
    <3> QED BY <1>2, <2>5, <3>1
  <2> QED BY <2>1, <2>4, <2>5
<1>4. ASSUME NEW p \in P
      PROVE  Sound(p) <=> \/ \E j \in DOMAIN events : /\ EventKey(events[j]) = cites
                                                       /\ ReceivedBefore(events[j], p)
                          \/ EventKey(p) = cites
  <2> DEFINE e == EventByKey(cites)
  <2>1. p \in RowsOf(events) /\ p \in Event
    BY <1>2
  <2>2. ASSUME Sound(p), EventKey(p) # cites
        PROVE  \E j \in DOMAIN events : EventKey(events[j]) = cites /\ ReceivedBefore(events[j], p)
    <3>1. e \in RowsOf(events) /\ EventKey(e) = cites
      BY <1>1, <2>2, RowOfKey
    <3> HIDE DEF e
    <3>2. e.id # p.id /\ e \in Event
      BY <1>1, <3>1, <2>2, Zenon DEF EventKey
    <3>3. ~ReceivedBefore(p, e)
      BY <2>2 DEF e
    <3>4. \A o : EarlierBy(o, e, p) \/ EarlierBy(o, p, e)
      BY <2>1, <3>2, EarlierIsOrder
    <3>5. EarlierBy("ReceivedTime", e, p) \/ EarlierBy("ReceivedTime", p, e)
      BY <3>4
    <3>6. ReceivedBefore(e, p)
      BY <2>1, <3>2, <3>3, <3>5, ReceivedInOrder
    <3> QED BY <3>1, <3>6, Zenon DEF RowsOf
  <2>3. ASSUME NEW j \in DOMAIN events, EventKey(events[j]) = cites, ReceivedBefore(events[j], p)
        PROVE  Sound(p)
    <3>1. events[j] \in RowsOf(events)
      BY Zenon DEF RowsOf
    <3>2. Keyed(cites) # {} /\ EventByKey(cites) = events[j]
      BY <1>1, <2>3, <3>1, RowOfKey
    <3>3. events[j] \in Event
      BY <1>1, <3>1
    <3>4. \A o : EarlierBy(o, events[j], p) => ~EarlierBy(o, p, events[j])
      BY <2>1, <3>3, EarlierIsOrder
    <3>5. EarlierBy("ReceivedTime", events[j], p) => ~EarlierBy("ReceivedTime", p, events[j])
      BY <3>4
    <3>6. ~ReceivedBefore(p, events[j])
      BY <2>1, <2>3, <3>3, <3>5, ReceivedInOrder
    <3> QED BY <3>2, <3>6
  <2>4. ASSUME EventKey(p) = cites
        PROVE  Sound(p)
    <3>1. Keyed(cites) # {} /\ EventByKey(cites) = p
      BY <1>1, <2>1, <2>4, RowOfKey
    <3>2. \A o : ~EarlierBy(o, p, p)
      BY <2>1, EarlierIsOrder
    <3>3. ~EarlierBy("ReceivedTime", p, p)
      BY <3>2
    <3> QED BY <2>1, <3>1, <3>3, ReceivedInOrder
  <2> HIDE DEF Sound
  <2> QED BY <2>2, <2>3, <2>4, Zenon
<1>5. CitesTheFuture <=> \E p \in P : ~Sound(p)
  <2>1. CitesTheFuture <=>
          \E p \in P : ~\/ \E j \in DOMAIN events : /\ EventKey(events[j]) = cites
                                                    /\ ReceivedBefore(events[j], p)
                        \/ EventKey(p) = cites
    BY Zenon DEF CitesTheFuture, PredictionsOf, RowsOf
  <2> HIDE DEF Sound, P
  <2> QED BY <1>4, <2>1, Zenon
<1>6. ASSUME AuditInvariant, NEW use \in Citing(FullPredictions(events))
      PROVE  /\ ~LateUse(use[1], use[2])
             /\ EventByKey(use[2]).received_time <= use[1].time
  <2>1. PICK p \in P : use[1] = AnswerTo(events, p) /\ use[2] = cites
    BY <1>1, LyingUses
  <2>2. Sound(p) /\ EventByKey(cites) \in Event
    BY <1>1, <1>3, <1>6, RowOfKey
  <2>3. ~ReceivedBefore(EventByKey(use[1].key), EventByKey(use[2]))
    BY <1>2, <2>1, <2>2
  <2>4. ~(p.received_time < EventByKey(cites).received_time)
    BY <1>2, <2>2, ReceivedInOrder
  <2>5. EventByKey(cites).received_time \in Nat /\ p.received_time \in Nat
    BY <1>2, <2>2 DEF Event
  <2>6. EventByKey(cites).received_time <= p.received_time
    BY <2>4, <2>5
  <2>7. EventByKey(use[2]).received_time <= use[1].time
    BY <1>2, <2>1, <2>6
  <2> QED BY <2>3, <2>7, Zenon DEF LateUse
<1>7. AuditInvariant => LateArrival /\ FeatureCorrectionAppendOnly
  BY <1>6, Zenon DEF LateArrival, FeatureCorrectionAppendOnly
<1> QED BY <1>3, <1>5, <1>7

-----------------------------------------------------------------------------
(***************************************************************************)
(* The contrast family: a row that can be moved to its observed time finds *)
(* a free sequence number there, the moved feed is accepted, and the       *)
(* prediction in between is still answered.                                *)
(***************************************************************************)
LEMMA MinIsMember ==
  ASSUME NEW S, S # {}, \A x \in S : x \in Nat
  PROVE  Min(S) \in S
<1>1. \E m \in S : \A x \in S : m <= x
  BY LeastNatural
<1> QED BY <1>1, Zenon DEF Min

LEMMA FreeNumberIsFree ==
  ASSUME events \in Seq(Event), NEW e
  PROVE  FreeSequenceNumber(e) \in Nat /\ FreeSequenceNumber(e) \notin UsedSequenceNumbers(e)
<1> DEFINE N == Len(events)
           U == { n \in DOMAIN events :
                    events[n].id # e.id /\ events[n].received_time = e.observed_time }
           seqs == [i \in U |-> events[i].seq]
           Free == { n \in 0..N : n \notin UsedSequenceNumbers(e) }
<1>1. /\ N \in Nat /\ IsFiniteSet(1..N) /\ Cardinality(1..N) = N
      /\ IsFiniteSet(0..N) /\ Cardinality(0..N) = N + 1
  <2>1. N \in Nat
    OBVIOUS
  <2> HIDE DEF N
  <2> QED BY <2>1, FS_Interval
<1>2. UsedSequenceNumbers(e) = At(seqs, U)
  BY Zenon DEF UsedSequenceNumbers, At
<1>3. U \in SUBSET (1..N)
  OBVIOUS
<1> HIDE DEF seqs, U, N
<1>4. IsFiniteSet(U) /\ Cardinality(U) <= N /\ Cardinality(U) \in Nat
  BY <1>1, <1>3, FS_Subset, FS_CardinalityType
<1>5. IsFiniteSet(At(seqs, U)) /\ Cardinality(At(seqs, U)) <= N /\ Cardinality(At(seqs, U)) \in Nat
  BY <1>1, <1>4, AtFinite
<1>6. Free # {}
  <2> SUFFICES ASSUME Free = {} PROVE FALSE
    OBVIOUS
  <2>1. 0..N \in SUBSET At(seqs, U)
    BY <1>2
  <2>2. Cardinality(0..N) <= Cardinality(At(seqs, U))
    BY <2>1, <1>5, FS_Subset
  <2> QED BY <2>2, <1>1, <1>5
<1>7. \A n \in Free : n \in Nat
  BY <1>1
<1>8. FreeSequenceNumber(e) = Min(Free)
  BY Zenon DEF FreeSequenceNumber, N
<1>9. Min(Free) \in Free
  <2> HIDE DEF Free
  <2> QED BY <1>6, <1>7, MinIsMember
<1> QED BY <1>7, <1>8, <1>9

LEMMA MovedRow ==
  ASSUME events \in Seq(Event), Clean(events), NEW i \in DOMAIN events
  PROVE  /\ OnTime(events[i]) \in Seq(Event)
         /\ Clean(OnTime(events[i]))
         /\ DOMAIN OnTime(events[i]) = DOMAIN events
         /\ \A j \in DOMAIN events : j # i => OnTime(events[i])[j] = events[j]
<1> DEFINE e == events[i]
           D == DOMAIN events
           free == FreeSequenceNumber(e)
           moved == [e EXCEPT !.received_time = e.observed_time, !.seq = free]
           feed == OnTime(e)
<1>1. Len(events) \in Nat /\ D = 1..Len(events) /\ \A j \in D : events[j] \in Event
  OBVIOUS
<1>2. \A j \in D : events[j].id = e.id <=> j = i
  <2>1. \A j \in D : EventKey(events[j]) = EventKey(e) => j = i
    BY CleanRows
  <2> QED BY <2>1, Zenon DEF EventKey
<1>3. free \in Nat /\ free \notin UsedSequenceNumbers(e)
  BY FreeNumberIsFree
<1>4. feed = [j \in D |-> IF events[j].id = e.id THEN moved ELSE events[j]]
  BY Zenon DEF OnTime
<1>5. e \in Event
  BY <1>1
<1> HIDE DEF free, feed
<1>6. /\ moved \in Event
      /\ moved.id = e.id /\ moved.symbol = e.symbol /\ moved.role = e.role
      /\ moved.sentiment = e.sentiment /\ moved.score = e.score
      /\ moved.received_time = e.observed_time /\ moved.seq = free
  <2> HIDE DEF e
  <2> QED BY <1>3, <1>5 DEF Event
<1> HIDE DEF moved, e
<1>7. DOMAIN feed = D /\ feed[i] = moved /\ \A j \in D : j # i => feed[j] = events[j]
  BY <1>2, <1>4
<1>8. feed \in Seq(Event)
  <2>1. feed \in [1..Len(events) -> Event]
    BY <1>1, <1>4, <1>6, Zenon
  <2> QED BY <1>1, <2>1, SeqDef
<1>9. \A j \in D : j # i => ~(events[j].received_time = e.observed_time /\ events[j].seq = free)
  BY <1>2, <1>3, Zenon DEF UsedSequenceNumbers
<1>10. \A j \in D : /\ EventKey(feed[j]) = EventKey(events[j])
                    /\ feed[j].symbol = events[j].symbol
                    /\ UpdatesSignalState(feed[j]) <=> UpdatesSignalState(events[j])
                    /\ PayloadOk(feed[j]) <=> PayloadOk(events[j])
  <2>1. /\ EventKey(moved) = EventKey(e) /\ moved.symbol = e.symbol
        /\ UpdatesSignalState(moved) <=> UpdatesSignalState(e)
        /\ PayloadOk(moved) <=> PayloadOk(e)
    BY <1>6, Zenon DEF EventKey, UpdatesSignalState, PayloadOk
  <2>2. \A j \in D : j = i => feed[j] = moved /\ events[j] = e
    BY <1>7 DEF e
  <2> QED BY <1>7, <2>1, <2>2, Zenon
<1>11. Clean(feed)
  <2>1. ASSUME NEW j \in D, NEW k \in D, j # k
        PROVE  /\ EventKey(feed[j]) # EventKey(feed[k])
               /\ ~(feed[j].received_time = feed[k].received_time /\ feed[j].seq = feed[k].seq)
    <3>1. EventKey(feed[j]) # EventKey(feed[k])
      BY <1>10, <2>1, Zenon DEF Clean
    <3>2. CASE j = i
      BY <1>6, <1>7, <1>9, <2>1, <3>1, <3>2
    <3>3. CASE k = i
      BY <1>6, <1>7, <1>9, <2>1, <3>1, <3>3
    <3>4. CASE j # i /\ k # i
      <4>1. feed[j] = events[j] /\ feed[k] = events[k]
        BY <1>7, <3>4
      <4> QED BY <2>1, <4>1, Zenon DEF Clean
    <3> QED BY <3>2, <3>3, <3>4
  <2>2. \A j, k \in D : feed[j].symbol # feed[k].symbol =>
          SymbolIdOf[feed[j].symbol] # SymbolIdOf[feed[k].symbol]
    <3> SUFFICES ASSUME NEW j \in D, NEW k \in D, feed[j].symbol # feed[k].symbol
                 PROVE  SymbolIdOf[feed[j].symbol] # SymbolIdOf[feed[k].symbol]
      OBVIOUS
    <3>1. feed[j].symbol = events[j].symbol /\ feed[k].symbol = events[k].symbol
      BY <1>10
    <3>2. events[j].symbol # events[k].symbol =>
            SymbolIdOf[events[j].symbol] # SymbolIdOf[events[k].symbol]
      BY Zenon DEF Clean
    <3> QED BY <3>1, <3>2
  <2>3. \A j \in D : UpdatesSignalState(feed[j]) => PayloadOk(feed[j])
    BY <1>10, Zenon DEF Clean
  <2> QED BY <1>7, <2>1, <2>2, <2>3, Zenon DEF Clean
<1> QED BY <1>7, <1>8, <1>11 DEF feed, e

LEMMA MoveSucceeds ==
  ASSUME events \in Seq(Event), Clean(events), NEW i \in DOMAIN events, CanBeOnTime(events[i])
  PROVE  ~MoveFails(events[i])
<1> DEFINE e == events[i]
           L == FullPredictions(events)
           M == FullPredictions(OnTime(e))
<1>1. /\ OnTime(e) \in Seq(Event) /\ Clean(OnTime(e))
      /\ DOMAIN OnTime(e) = DOMAIN events
      /\ \A j \in DOMAIN events : j # i => OnTime(e)[j] = events[j]
  BY MovedRow
<1>2. ~Refused(OnTime(e))
  BY <1>1, RefusedUnlessClean
<1>3. Min(Between(e, L)) \in DOMAIN L
  <2>1. Between(e, L) # {} /\ \A n \in Between(e, L) : n \in DOMAIN L
    BY Zenon DEF CanBeOnTime, Between
  <2>2. \A n \in DOMAIN L : n \in Nat
    BY LogRows
  <2>3. \A n \in Between(e, L) : n \in Nat
    BY <2>1, <2>2
  <2>4. Min(Between(e, L)) \in Between(e, L)
    BY <2>1, <2>3, MinIsMember
  <2> QED BY <2>1, <2>4
<1>4. PICK q \in PredictionsOf(RowsOf(events)) : Target(e) = AnswerTo(events, q)
  <2>1. \E q \in PredictionsOf(RowsOf(events)) : L[Min(Between(e, L))] = AnswerTo(events, q)
    BY <1>3, LogRows
  <2> QED BY <2>1, Zenon DEF Target
<1>5. q \in PredictionsOf(RowsOf(OnTime(e)))
  <2>1. PICK j \in DOMAIN events : q = events[j] /\ IsPrediction(q)
    BY Zenon DEF PredictionsOf, RowsOf
  <2>2. j # i
    <3>1. UpdatesSignalState(e)
      BY Zenon DEF CanBeOnTime
    <3> QED BY <2>1, <3>1 DEF UpdatesSignalState, IsPrediction, FeatureRoles
  <2>3. OnTime(e)[j] = q /\ j \in DOMAIN OnTime(e)
    BY <1>1, <2>1, <2>2
  <2> QED BY <2>1, <2>3, Zenon DEF PredictionsOf, RowsOf
<1>6. PICK n \in DOMAIN M : M[n] = AnswerTo(OnTime(e), q)
  BY <1>1, <1>5, LogRows
<1>7. M[n].symbol = Target(e).symbol /\ M[n].time = Target(e).time
  BY <1>4, <1>6, ToldKeeps
<1>8. n \in MatchingRecords(e)
  <2> HIDE DEF e
  <2> QED BY <1>7, Zenon DEF MatchingRecords
<1> QED BY <1>2, <1>8, Zenon DEF MoveFails

LEMMA ContrastNeverFails ==
  ASSUME events \in Seq(Event), ~Refused(events)
  PROVE  Contrast \in {"pass", "not_applicable"}
<1> DEFINE movable  == { i \in DOMAIN events : CanBeOnTime(events[i]) }
           decisive == { i \in movable : MoveFails(events[i]) \/ MoveChangesValue(events[i]) }
<1>1. Clean(events)
  BY RefusedUnlessClean
<1>2. \A i \in movable : ~MoveFails(events[i])
  BY <1>1, MoveSucceeds
<1>3. ASSUME decisive # {}
      PROVE  ~MoveFails(events[Min(decisive)])
  <2>1. \A i \in decisive : i \in Nat /\ i \in movable
    OBVIOUS
  <2>2. Min(decisive) \in decisive
    <3> HIDE DEF decisive
    <3> QED BY <1>3, <2>1, MinIsMember
  <2> QED BY <1>2, <2>1, <2>2
<1>4. Contrast = IF decisive = {} THEN "not_applicable"
                 ELSE IF MoveFails(events[Min(decisive)]) THEN "fail" ELSE "pass"
  BY Zenon DEF Contrast
<1> HIDE DEF decisive
<1> QED BY <1>3, <1>4
-----------------------------------------------------------------------------
(***************************************************************************)
(* The inductive invariant.  What a family may report depends on the file  *)
(* and the signal alone, so the properties of the finished report are      *)
(* carried by every row of an unfinished one; that a row's name is the     *)
(* family of its place is what lets a finished report be searched by name. *)
(***************************************************************************)
ComparingFamilies == {"prefix_equivalence", "future_mutation", "deterministic_replay"}

Deserved(name, result) ==
  /\ cites = Absent /\ ~Refused(events) => result # "fail"
  /\ Refused(events) => result = "fail"
  /\ cites # Absent /\ ~Refused(events) =>
       /\ name \in ComparingFamilies => result # "fail"
       /\ name = "audit_invariant" => (result = "fail" <=> CitesTheFuture)
       /\ name \in {"late_arrival", "feature_correction_append_only"} /\ result = "fail"
            => CitesTheFuture

TypesOfChecks ==
  /\ events \in Seq(Event)
  /\ max_cutoffs \in Nat \cup {Absent}
  /\ Len(report) \in 0..Len(Families)
  /\ DOMAIN report = 1..Len(report)

RowsAreDeserved ==
  \A n \in DOMAIN report :
    /\ report[n].name = Families[n]
    /\ Deserved(report[n].name, report[n].result)

CInv == TypesOfChecks /\ RowsAreDeserved

\* What is deserved does not change while the file and the signal do not.
LEMMA DeservedStays ==
  ASSUME events' = events, cites' = cites, NEW name, NEW result
  PROVE  Deserved(name, result)' <=> Deserved(name, result)
<1>1. Refused(events)' <=> Refused(events)
  <2>1. Refused(events)' <=> ~Clean(events)'
    BY RefusedUnlessClean
  <2>2. Refused(events) <=> ~Clean(events)
    BY RefusedUnlessClean
  <2> QED BY <2>1, <2>2 DEF Clean
<1>2. CitesTheFuture' <=> CitesTheFuture
  BY DEF CitesTheFuture
<1> QED BY <1>1, <1>2, Zenon DEF Deserved

LEMMA RefusedFileFailsFamilies ==
  ASSUME Refused(events)
  PROVE  /\ ~PrefixEquivalence /\ ~FutureMutation /\ ~LateArrival /\ Contrast = "fail"
         /\ ~FeatureCorrectionAppendOnly /\ ~OutcomeSeparation /\ ~DeterministicReplay
         /\ ~AuditInvariant
BY Zenon DEF PrefixEquivalence, FutureMutation, LateArrival, Contrast,
   FeatureCorrectionAppendOnly, OutcomeSeparation, DeterministicReplay, AuditInvariant

\* Every family reports what is deserved.
LEMMA FamiliesReportWhatIsDeserved ==
  ASSUME TypesOfChecks
  PROVE  /\ Deserved("prefix_equivalence", Verdict(PrefixEquivalence))
         /\ Deserved("future_mutation", Verdict(FutureMutation))
         /\ Deserved("late_arrival", Verdict(LateArrival))
         /\ Deserved("on_time_vs_late_contrast", Contrast)
         /\ Deserved("feature_correction_append_only", Verdict(FeatureCorrectionAppendOnly))
         /\ Deserved("outcome_separation", Verdict(OutcomeSeparation))
         /\ Deserved("deterministic_replay", Verdict(DeterministicReplay))
         /\ Deserved("audit_invariant", Verdict(AuditInvariant))
<1>1. events \in Seq(Event) /\ max_cutoffs \in Nat \cup {Absent}
  BY DEF TypesOfChecks
<1>2. CASE Refused(events)
  BY <1>2, RefusedFileFailsFamilies DEF Deserved, Verdict
<1>3. CASE ~Refused(events)
  <2>1. PrefixEquivalence /\ FutureMutation /\ OutcomeSeparation /\ DeterministicReplay
    BY <1>1, <1>3, ComparingFamiliesPass
  <2>2. Contrast # "fail"
    BY <1>1, <1>3, ContrastNeverFails
  <2>3. CASE cites = Absent
    <3>1. LateArrival /\ FeatureCorrectionAppendOnly /\ AuditInvariant
      BY <1>1, <1>3, <2>3, ProvenanceFamiliesPass
    <3> QED BY <1>3, <2>1, <2>2, <2>3, <3>1 DEF Deserved, Verdict
  <2>4. CASE cites # Absent
    <3>1. /\ AuditInvariant <=> ~CitesTheFuture
          /\ AuditInvariant => LateArrival /\ FeatureCorrectionAppendOnly
      BY <1>1, <1>3, <2>4, AuditOfLies
    <3> QED BY <1>3, <2>1, <2>2, <2>4, <3>1 DEF Deserved, Verdict, ComparingFamilies
  <2> QED BY <2>3, <2>4
<1> QED BY <1>2, <1>3

LEMMA CInvInit == Init => CInv
<1> SUFFICES ASSUME Init PROVE CInv
  OBVIOUS
<1>1. Len(Families) = 8
  BY DEF Families
<1>2. TypesOfChecks
  BY <1>1, ChecksAssumption DEF Init, TypesOfChecks
<1>3. DOMAIN report = {}
  BY DEF Init
<1> QED BY <1>2, <1>3 DEF CInv, RowsAreDeserved

LEMMA ReportKeepsCInv ==
  ASSUME CInv, NEW name, NEW result, Deserved(name, result), Reports(name, result)
  PROVE  CInv'
<1> DEFINE row == [name |-> name, result |-> result]
<1>1. /\ events' = events /\ max_cutoffs' = max_cutoffs /\ cites' = cites
      /\ Len(report) < Len(Families) /\ Families[Len(report) + 1] = name
      /\ report' = Append(report, row)
  BY DEF Reports
<1>2. Len(report) \in Nat /\ DOMAIN report = 1..Len(report) /\ Len(Families) = 8
  BY DEF CInv, TypesOfChecks, Families
<1>3. /\ Len(report') = Len(report) + 1 /\ DOMAIN report' = 1..(Len(report) + 1)
      /\ \A n \in 1..Len(report) : report'[n] = report[n]
      /\ report'[Len(report) + 1] = row
  BY <1>1, <1>2
<1>4. TypesOfChecks'
  BY <1>1, <1>2, <1>3 DEF CInv, TypesOfChecks, Families
<1>5. ASSUME NEW n \in DOMAIN report'
      PROVE  /\ report'[n].name = Families[n]
             /\ Deserved(report'[n].name, report'[n].result)
  <2>1. CASE n \in 1..Len(report)
    BY <1>2, <1>3, <2>1 DEF CInv, RowsAreDeserved
  <2>2. CASE n = Len(report) + 1
    BY <1>1, <1>3, <2>2
  <2> QED BY <1>2, <1>3, <2>1, <2>2
<1>6. RowsAreDeserved'
  <2>1. \A m, r : Deserved(m, r)' <=> Deserved(m, r)
    BY <1>1, DeservedStays
  <2> QED BY <1>5, <2>1, Zenon DEF RowsAreDeserved, Families
<1> QED BY <1>4, <1>6 DEF CInv

LEMMA CInvStep == CInv /\ [Next]_vars => CInv'
<1> SUFFICES ASSUME CInv, [Next]_vars PROVE CInv'
  OBVIOUS
<1>1. ASSUME UNCHANGED vars
      PROVE  CInv'
  <2>1. events' = events /\ max_cutoffs' = max_cutoffs /\ cites' = cites /\ report' = report
    BY <1>1 DEF vars
  <2>2. \A m, r : Deserved(m, r)' <=> Deserved(m, r)
    BY <2>1, DeservedStays
  <2>3. TypesOfChecks'
    BY <2>1 DEF CInv, TypesOfChecks, Families
  <2>4. RowsAreDeserved'
    BY <2>1, <2>2, Zenon DEF CInv, RowsAreDeserved, Families
  <2> QED BY <2>3, <2>4 DEF CInv
<1>2. CASE Next
  <2>1. TypesOfChecks
    BY DEF CInv
  <2>2. CASE \E name, result : Deserved(name, result) /\ Reports(name, result)
    BY <2>2, ReportKeepsCInv
  <2>3. CASE Returned
    BY <1>1, <2>3 DEF Returned
  <2>4. (\E name, result : Deserved(name, result) /\ Reports(name, result)) \/ Returned
    BY <1>2, <2>1, FamiliesReportWhatIsDeserved, Zenon DEF Next
  <2> QED BY <2>2, <2>3, <2>4
<1> QED BY <1>1, <1>2

LEMMA CInvAlways == Spec => []CInv
BY CInvInit, CInvStep, PTL DEF Spec

-----------------------------------------------------------------------------
LEMMA CInvImpliesHonest == CInv => HonestSignalPasses
BY Zenon DEF CInv, RowsAreDeserved, Deserved, HonestSignalPasses

LEMMA CInvImpliesRefusal == CInv => RefusalFailsEveryFamily
BY Zenon DEF CInv, RowsAreDeserved, Deserved, RefusalFailsEveryFamily

LEMMA CInvImpliesLies == CInv => LyingSignalFailsTheAudit
<1> SUFFICES ASSUME CInv, Complete, cites # Absent, ~Refused(events)
             PROVE  /\ Failed("audit_invariant") <=> CitesTheFuture
                    /\ Failed("late_arrival") \/ Failed("feature_correction_append_only")
                         => Failed("audit_invariant")
                    /\ Passed("prefix_equivalence") /\ Passed("future_mutation")
                    /\ Passed("deterministic_replay")
  BY Zenon DEF LyingSignalFailsTheAudit
<1>1. DOMAIN report = 1..8
  BY DEF CInv, TypesOfChecks, Complete, Families
<1>2. /\ report[1].name = "prefix_equivalence" /\ report[2].name = "future_mutation"
      /\ report[7].name = "deterministic_replay" /\ report[8].name = "audit_invariant"
  BY <1>1 DEF CInv, RowsAreDeserved, Families
<1>3. \A n \in DOMAIN report :
        /\ report[n].name \in ComparingFamilies => report[n].result # "fail"
        /\ report[n].name = "audit_invariant" => (report[n].result = "fail" <=> CitesTheFuture)
        /\ report[n].name \in {"late_arrival", "feature_correction_append_only"}
             /\ report[n].result = "fail" => CitesTheFuture
  BY Zenon DEF CInv, RowsAreDeserved, Deserved
<1>4. Passed("prefix_equivalence") /\ Passed("future_mutation") /\ Passed("deterministic_replay")
  BY <1>1, <1>2, <1>3 DEF Passed, ComparingFamilies
<1>5. Failed("audit_invariant") <=> CitesTheFuture
  BY <1>1, <1>2, <1>3 DEF Failed
<1>6. Failed("late_arrival") \/ Failed("feature_correction_append_only") => CitesTheFuture
  BY <1>3 DEF Failed
<1> QED BY <1>4, <1>5, <1>6

LEMMA CInvImpliesSample == CInv => SampleIsFullAndEndsLast
BY SampleIsFull, Zenon DEF CInv, TypesOfChecks

\* No false alarm: on a file that replay accepts, with any number of cutoffs,
\* no family fails the honest signal; in particular every feed the contrast
\* moves a row in is accepted and still answers the prediction it is about
\* (checks.rs:40-60, 276-349).
THEOREM HonestSignalIsCleared == Spec => []HonestSignalPasses
BY CInvImpliesHonest, CInvAlways, PTL

\* A refused file fails every family that has run: none takes a missing log
\* for a clean one (checks.rs:62-75).
THEOREM NoFamilyClearsARefusedFile == Spec => []RefusalFailsEveryFamily
BY CInvImpliesRefusal, CInvAlways, PTL

\* On an accepted file, the audit of a signal that always cites one key fails
\* exactly when some prediction has no row of that key before it; the narrower
\* provenance families fail only when the audit does, and the families that
\* compare logs never notice (checks.rs:227-274, 351-386, 450-495).
THEOREM AuditCatchesExactlyTheLies == Spec => []LyingSignalFailsTheAudit
BY CInvImpliesLies, CInvAlways, PTL

\* The cutoffs a family compares at are prediction times, as many as were
\* asked for and as the summary names, and end at the last one, for every
\* number of predictions and every limit (checks.rs:99-129).
THEOREM SampleNeverShrinks == Spec => []SampleIsFullAndEndsLast
BY CInvImpliesSample, CInvAlways, PTL
=============================================================================
