----------------------------- MODULE Audit_proofs -----------------------------
(***************************************************************************)
(* What the audit command promises, for every file, every invocation and   *)
(* every producer.                                                         *)
(*                                                                         *)
(* The records of an accepted file are told apart by their audit keys, and *)
(* a stored file without a repeated key has one line for each of its keys. *)
(* What a live system logged of a prediction is the record the replay of   *)
(* the whole file has of it, since a record is a function of the rows      *)
(* before the prediction (SignalViews_proofs).                             *)
(***************************************************************************)
EXTENDS Audit, SignalViews_proofs

-----------------------------------------------------------------------------
(***************************************************************************)
(* Lists, and keys that do not repeat.                                     *)
(***************************************************************************)
IsList(s) == Len(s) \in Nat /\ DOMAIN s = 1..Len(s)

LEMMA TypedIsList ==
  ASSUME NEW T, NEW s \in Seq(T)
  PROVE  IsList(s)
BY LenProperties DEF IsList

LEMMA FunctionIsList ==
  ASSUME NEW N \in Nat, NEW s, s = [n \in 1..N |-> s[n]]
  PROVE  IsList(s) /\ Len(s) = N
<1>1. s \in [1..N -> At(s, 1..N)]
  BY DEF At
<1>2. s \in Seq(At(s, 1..N))
  BY <1>1, SeqDef
<1>3. Len(s) \in Nat /\ DOMAIN s = 1..Len(s) /\ DOMAIN s = 1..N
  BY <1>1, <1>2, LenProperties
<1>4. Len(s) = N
  BY <1>3
<1> QED BY <1>3, <1>4 DEF IsList

\* A file of lines repeats no key when, and only when, its lines differ in them.
LEMMA KeysOfLines ==
  ASSUME NEW lines, IsList(lines)
  PROVE  /\ IsFiniteSet(KeysOf(lines)) /\ Cardinality(KeysOf(lines)) \in Nat
         /\ ~Repeats(lines) <=> \A m, n \in DOMAIN lines : lines[m].key = lines[n].key => m = n
         /\ ~Repeats(lines) => Cardinality(KeysOf(lines)) = Len(lines)
<1> DEFINE D == DOMAIN lines
           f == [n \in D |-> lines[n].key]
           K == KeysOf(lines)
<1>1. Len(lines) \in Nat /\ IsFiniteSet(D) /\ Cardinality(D) = Len(lines)
  <2>1. Len(lines) \in Nat /\ D = 1..Len(lines)
    BY DEF IsList
  <2>2. \A k \in Nat : IsFiniteSet(1..k) /\ Cardinality(1..k) = k
    BY FS_Interval
  <2> QED BY <2>1, <2>2, Zenon
<1>2. f \in Surjection(D, K)
  BY Zenon DEF KeysOf, Surjection
<1> HIDE DEF f, K, D
<1>3. /\ IsFiniteSet(K) /\ Cardinality(K) <= Cardinality(D)
      /\ Cardinality(K) = Cardinality(D) <=> f \in Injection(D, K)
  BY <1>1, <1>2, FS_Surjection
<1>4. Cardinality(K) \in Nat
  BY <1>3, FS_CardinalityType
<1>5. f \in Injection(D, K) <=> \A m, n \in D : lines[m].key = lines[n].key => m = n
  <2>1. f \in [D -> K] /\ \A n \in D : f[n] = lines[n].key
    BY <1>2, Zenon DEF Surjection, f
  <2> QED BY <2>1, Zenon DEF Injection, IsInjective
<1>6. ~Repeats(lines) <=> Cardinality(K) = Cardinality(D)
  BY <1>1, <1>3, <1>4 DEF Repeats, K
<1> QED BY <1>1, <1>3, <1>4, <1>5, <1>6 DEF K, D
-----------------------------------------------------------------------------
(***************************************************************************)
(* The records of an accepted file.                                        *)
(***************************************************************************)
RecordOf(p) == RecordBy("ReceivedTime", RowsOf(events), p)

Asked == PredictionsOf(RowsOf(events))

\* What the rows of an accepted file, and the predictions among them, are.
LEMMA AcceptedRows ==
  ASSUME events \in Seq(Event), Clean(events)
  PROVE  /\ Apart(RowsOf(events)) /\ Apart(Asked)
         /\ Cardinality(Asked) \in Nat
         /\ \A p : p \in Asked <=> p \in RowsOf(events) /\ IsPrediction(p)
         /\ \A p \in Asked : p \in Event
<1>1. Apart(RowsOf(events))
  BY CleanRows
<1>2. \A p : p \in Asked <=> p \in RowsOf(events) /\ IsPrediction(p)
  BY Zenon DEF Asked, PredictionsOf
<1>3. Apart(Asked) /\ Cardinality(Asked) \in Nat
  BY <1>1, <1>2, ApartSubset
<1> QED BY <1>1, <1>2, <1>3, Zenon DEF Apart

LEMMA AuditKeyOfRecord ==
  ASSUME NEW p
  PROVE  /\ RecordOf(p).key = EventKey(p)
         /\ AuditKey(RecordOf(p)) = <<SymbolIdOf[p.symbol], p.received_time, p.seq, EventKey(p)>>
BY DEF RecordOf, RecordBy, RecordFrom, AuditKey

\* Records of different predictions have different audit keys.
LEMMA KeysTellRecords ==
  ASSUME events \in Seq(Event), Clean(events)
  PROVE  \A p, q \in Asked : AuditKey(RecordOf(p)) = AuditKey(RecordOf(q)) => p = q
<1> SUFFICES ASSUME NEW p \in Asked, NEW q \in Asked, AuditKey(RecordOf(p)) = AuditKey(RecordOf(q))
             PROVE  p = q
  OBVIOUS
<1>1. EventKey(p) = EventKey(q)
  BY AuditKeyOfRecord
<1>2. p \in RowsOf(events) /\ q \in RowsOf(events)
  BY AcceptedRows
<1>3. \A e, f \in RowsOf(events) : EventKey(e) = EventKey(f) => e = f
  BY CleanRows
<1> QED BY <1>1, <1>2, <1>3

\* The last place of an order is taken by the row that no other one comes after.
LEMMA LastPlace ==
  ASSUME NEW o, NEW S, Apart(S), NEW e \in S
  PROVE  /\ Cardinality(S) \in Nat /\ Cardinality(S) >= 1
         /\ RowsInOrder(o, S)[Cardinality(S)] \in S
         /\ \/ e = RowsInOrder(o, S)[Cardinality(S)]
            \/ EarlierBy(o, e, RowsInOrder(o, S)[Cardinality(S)])
<1> DEFINE N == Cardinality(S)
           C(f) == Cardinality(EarlierRows(o, S, f))
           m == RowsInOrder(o, S)[N]
<1>1. N \in Nat /\ C(e) + 1 \in 1..N
  BY PlacesAreTaken
<1>2. N \in 1..N /\ N >= 1
  BY <1>1
<1>3. m \in S /\ C(m) = N - 1
  BY <1>2, PlacesAreTaken
<1>4. \A f, g \in S : EarlierBy(o, f, g) => C(f) < C(g)
  BY EarlierRowsGrow
<1>5. \A f \in S : C(f) \in 0..(N - 1)
  BY EarlierRowsGrow
<1>6. \A f, g \in S : f # g => EarlierBy(o, f, g) \/ EarlierBy(o, g, f)
  BY EarlierIsOrder, Zenon DEF Apart
<1> HIDE DEF C, m, N
<1>7. ~EarlierBy(o, m, e)
  BY <1>1, <1>3, <1>4, <1>5
<1> QED BY <1>1, <1>2, <1>3, <1>6, <1>7 DEF m, N

\* What a record cites, and its latest input.
LEMMA CitedRows ==
  ASSUME events \in Seq(Event), Clean(events), NEW p \in Asked
  PROVE  \E cited :
           /\ RecordOf(p) = RecordFrom(cited, p)
           /\ \E N \in Nat : DOMAIN cited = 1..N
           /\ \A k \in DOMAIN cited : cited[k] \in RowsOf(events) /\ ReceivedBefore(cited[k], p)
           /\ cited # <<>> => LastOf(cited) \in RowsOf(events) /\ ReceivedBefore(LastOf(cited), p)
<1> DEFINE o == "ReceivedTime"
           V == VisibleBy(o, RowsOf(events), p)
           L == LatestBy(o, { e \in LatestBy(o, V, MaxInputs) : Relevant(e) },
                            Clamp(SignalWindow, 1, MaxInputs))
           cited == CitedFrom(o, V)
<1>1. RecordOf(p) = RecordFrom(cited, p)
  BY Zenon DEF RecordOf, RecordBy
<1>2. \A e : e \in V => e \in RowsOf(events) /\ ReceivedBefore(e, p)
  BY Zenon DEF VisibleBy, EarlierBy, KeyBy, ReceivedBefore
<1>3. Apart(RowsOf(events))
  BY CleanRows
<1>4. \A e \in L : e \in V
  BY Zenon DEF LatestBy
<1>5. cited = RowsInOrder(o, L)
  BY Zenon DEF CitedFrom
<1> HIDE DEF L, V, cited
<1>6. Apart(L) /\ Cardinality(L) \in Nat
  BY <1>2, <1>3, <1>4, ApartSubset
<1>7. DOMAIN cited = 1..Cardinality(L) /\ \A n \in 1..Cardinality(L) : cited[n] \in L
  BY <1>5, <1>6, PlacesAreTaken
<1>8. \A k \in DOMAIN cited : cited[k] \in RowsOf(events) /\ ReceivedBefore(cited[k], p)
  BY <1>2, <1>4, <1>7
<1>9. ASSUME cited # <<>>
      PROVE  LastOf(cited) \in { cited[i] : i \in DOMAIN cited }
  <2> DEFINE m == cited[Cardinality(L)]
  <2>1. L # {}
    <3> SUFFICES ASSUME L = {} PROVE cited = <<>>
      BY <1>9
    <3>1. Cardinality(L) = 0
      BY FS_EmptySet
    <3> QED BY <1>5, <3>1 DEF RowsInOrder
  <2>2. Cardinality(L) >= 1 /\ m \in L /\ \A e \in L : e = m \/ EarlierBy(o, e, m)
    BY <1>5, <1>6, <2>1, LastPlace
  <2>3. \A e \in L : e = m \/ ReceivedBefore(e, m)
    BY <2>2, Zenon DEF EarlierBy, KeyBy, ReceivedBefore
  <2>4. Cardinality(L) \in DOMAIN cited
    BY <1>6, <1>7, <2>2
  <2>5. m \in { cited[i] : i \in DOMAIN cited }
    BY <2>4
  <2>6. \A i \in DOMAIN cited : cited[i] = m \/ ReceivedBefore(cited[i], m)
    BY <1>7, <2>3
  <2> HIDE DEF m
  <2> QED BY <2>5, <2>6, Zenon DEF LastOf
<1>10. cited # <<>> => LastOf(cited) \in RowsOf(events) /\ ReceivedBefore(LastOf(cited), p)
  BY <1>8, <1>9
<1> QED BY <1>1, <1>6, <1>7, <1>8, <1>10

\* No record looks ahead.
LEMMA RecordsAreCausal ==
  ASSUME events \in Seq(Event), Clean(events), NEW p \in Asked
  PROVE  IsCausal(RecordOf(p))
<1>1. PICK cited :
        /\ RecordOf(p) = RecordFrom(cited, p)
        /\ cited # <<>> => LastOf(cited) \in RowsOf(events) /\ ReceivedBefore(LastOf(cited), p)
  BY CitedRows
<1> DEFINE l == LastOf(cited)
           r == RecordOf(p)
<1>2. \A e \in RowsOf(events) : LabelFor(EventKey(e)) = e.id
  <2> TAKE e \in RowsOf(events)
  <2>1. PICK i \in DOMAIN events : e = events[i]
    BY DEF RowsOf
  <2>2. \A j \in DOMAIN events : EventKey(events[j]) = EventKey(events[i]) => j = i
    BY CleanRows
  <2>3. (CHOOSE j \in DOMAIN events : EventKey(events[j]) = EventKey(e)) = i
    BY <2>1, <2>2
  <2> QED BY <2>1, <2>3, Zenon DEF LabelFor
<1>3. r.key = EventKey(p) /\ r.time = p.received_time /\ r.seq = p.seq
  BY <1>1 DEF RecordFrom
<1>4. CASE cited = <<>>
  <2>1. r.max_key = Absent
    BY <1>1, <1>4 DEF RecordFrom
  <2> QED BY <2>1, Zenon DEF IsCausal
<1>5. CASE cited # <<>>
  <2>1. l \in RowsOf(events) /\ ReceivedBefore(l, p) /\ p \in RowsOf(events)
    BY <1>1, <1>5, AcceptedRows
  <2>2. l \in Event /\ p \in Event
    BY <2>1, AcceptedRows, Zenon DEF Apart
  <2>3. /\ r.max_key = EventKey(l) /\ r.max_time = l.received_time /\ r.max_seq = l.seq
    BY <1>1, <1>5 DEF RecordFrom
  <2> HIDE DEF l, r
  <2>4. LabelFor(r.key) = p.id /\ LabelFor(r.max_key) = l.id
    BY <1>2, <1>3, <2>1, <2>3, Zenon
  <2>5. ~ReceivedBefore(p, l)
    BY <2>1, <2>2, EarlierIsOrder, ReceivedInOrder
  <2>6. ~Precedes(<<r.time, r.seq, LabelFor(r.key)>>, <<r.max_time, r.max_seq, LabelFor(r.max_key)>>)
    BY <1>3, <2>3, <2>4, <2>5, Zenon DEF ReceivedBefore, ReplayKey
  <2> QED BY <2>6, Zenon DEF IsCausal, r
<1> QED BY <1>4, <1>5

\* The predictions of the file, in the order of the file.
LEMMA PredictionsAreListed ==
  ASSUME events \in Seq(Event), Clean(events)
  PROVE  /\ IsList(PredictionRows)
         /\ Len(PredictionRows) = Cardinality(Asked)
         /\ \A n \in DOMAIN PredictionRows : PredictionRows[n] \in Asked
         /\ \A p \in Asked : \E n \in DOMAIN PredictionRows : PredictionRows[n] = p
         /\ \A m, n \in DOMAIN PredictionRows : PredictionRows[m] = PredictionRows[n] => m = n
<1> DEFINE P == { i \in DOMAIN events : IsPrediction(events[i]) }
<1>1. PredictionRows = Listed(events, P)
  BY Zenon DEF PredictionRows
<1>2. Len(events) \in Nat /\ DOMAIN events = 1..Len(events)
  BY LenProperties
<1>3. \A i, j \in DOMAIN events : events[i] = events[j] => i = j
  BY CleanRows, Zenon
<1>4. IsFiniteSet(P)
  <2>1. \A k \in Nat : IsFiniteSet(1..k)
    BY FS_Interval
  <2>2. IsFiniteSet(DOMAIN events)
    BY <1>2, <2>1, Zenon
  <2> QED BY <2>2, FS_Subset
<1>5. At(events, P) = Asked
  <2>1. \A e : e \in At(events, P) <=> e \in Asked
    BY Zenon DEF At, Asked, PredictionsOf, RowsOf
  <2> QED BY <2>1, Zenon
<1>6. \A q \in P : q \in DOMAIN events
  OBVIOUS
<1> HIDE DEF P
<1>7. Listed(events, P) \in Seq(Event) /\ Len(Listed(events, P)) = Cardinality(P)
  BY <1>6, ListedType
<1>8. Cardinality(P) = Cardinality(Asked)
  <2>1. \A p, q \in P : events[p] = events[q] => p = q
    BY <1>3, <1>6
  <2> QED BY <1>4, <1>5, <2>1, AtSize
<1>9. { Listed(events, P)[n] : n \in DOMAIN Listed(events, P) } = Asked
  BY <1>2, <1>5, <1>6, ListedRows
<1>10. \A m, n \in DOMAIN Listed(events, P) : m # n =>
         \E p, q \in P : p # q /\ Listed(events, P)[m] = events[p] /\ Listed(events, P)[n] = events[q]
  BY <1>2, <1>6, ListedRows
<1>11. \A m, n \in DOMAIN PredictionRows : PredictionRows[m] = PredictionRows[n] => m = n
  <2> SUFFICES ASSUME NEW m \in DOMAIN PredictionRows, NEW n \in DOMAIN PredictionRows,
                      PredictionRows[m] = PredictionRows[n], m # n
               PROVE  FALSE
    OBVIOUS
  <2>1. PICK p \in P, q \in P : /\ p # q
                               /\ PredictionRows[m] = events[p]
                               /\ PredictionRows[n] = events[q]
    BY <1>1, <1>10
  <2> QED BY <1>3, <1>6, <2>1
<1>12. IsList(PredictionRows)
  BY <1>1, <1>7, TypedIsList
<1> QED BY <1>1, <1>7, <1>8, <1>9, <1>11, <1>12

(***************************************************************************)
(* A list with the record of every prediction, once.                       *)
(***************************************************************************)
Answers(records) ==
  /\ IsList(records)
  /\ Len(records) = Cardinality(Asked)
  /\ \A n \in DOMAIN records : \E p \in Asked : records[n] = RecordOf(p)
  /\ \A p \in Asked : \E n \in DOMAIN records : records[n] = RecordOf(p)
  /\ \A m, n \in DOMAIN records : AuditKey(records[m]) = AuditKey(records[n]) => m = n

LEMMA RecordsInTurn ==
  ASSUME events \in Seq(Event), Clean(events), NEW asked, IsList(asked),
         Len(asked) = Cardinality(Asked),
         \A n \in DOMAIN asked : asked[n] \in Asked,
         \A p \in Asked : \E n \in DOMAIN asked : asked[n] = p,
         \A m, n \in DOMAIN asked : asked[m] = asked[n] => m = n,
         NEW records, records = [n \in DOMAIN asked |-> RecordOf(asked[n])]
  PROVE  Answers(records)
<1>1. /\ DOMAIN records = DOMAIN asked
      /\ \A n \in DOMAIN asked : records[n] = RecordOf(asked[n])
  BY Zenon
<1>2. IsList(records) /\ Len(records) = Len(asked)
  <2>1. Len(asked) \in Nat /\ records = [n \in 1..Len(asked) |-> records[n]]
    BY <1>1, Zenon DEF IsList
  <2> DEFINE N == Len(asked)
  <2> HIDE DEF N
  <2>2. N \in Nat /\ records = [n \in 1..N |-> records[n]]
    BY <2>1, Zenon DEF N
  <2>3. IsList(records) /\ Len(records) = N
    BY <2>2, FunctionIsList
  <2> QED BY <2>3 DEF N
<1>3. \A n \in DOMAIN records : \E p \in Asked : records[n] = RecordOf(p)
  BY <1>1, Zenon
<1>4. \A p \in Asked : \E n \in DOMAIN records : records[n] = RecordOf(p)
  BY <1>1, Zenon
<1>5. \A m, n \in DOMAIN records : AuditKey(records[m]) = AuditKey(records[n]) => m = n
  <2> SUFFICES ASSUME NEW m \in DOMAIN records, NEW n \in DOMAIN records,
                      AuditKey(records[m]) = AuditKey(records[n])
               PROVE  m = n
    OBVIOUS
  <2>1. AuditKey(RecordOf(asked[m])) = AuditKey(RecordOf(asked[n]))
    BY <1>1, Zenon
  <2>2. asked[m] = asked[n]
    BY <1>1, <2>1, KeysTellRecords, Zenon
  <2> QED BY <1>1, <2>2
<1> QED BY <1>2, <1>3, <1>4, <1>5, Zenon DEF Answers

LEMMA LogAnswers ==
  ASSUME events \in Seq(Event), Clean(events)
  PROVE  Answers(LogOf(events, "ReceivedTime"))
<1> DEFINE asked == PredictionsBy("ReceivedTime", events)
           N == Cardinality(Asked)
<1>1. asked = RowsInOrder("ReceivedTime", Asked)
  BY Zenon DEF PredictionsBy, Asked
<1>2. Apart(Asked)
  BY AcceptedRows
<1>3. /\ N \in Nat /\ DOMAIN asked = 1..N
      /\ \A n \in 1..N : /\ asked[n] \in Asked
                         /\ Cardinality(EarlierRows("ReceivedTime", Asked, asked[n])) = n - 1
      /\ \A p \in Asked : \E n \in 1..N : asked[n] = p
  <2>1. \A p \in Asked :
          /\ Cardinality(EarlierRows("ReceivedTime", Asked, p)) + 1 \in 1..N
          /\ asked[Cardinality(EarlierRows("ReceivedTime", Asked, p)) + 1] = p
    BY <1>1, <1>2, PlacesAreTaken
  <2>2. \A p \in Asked : \E n \in 1..N : asked[n] = p
    <3> HIDE DEF asked, N
    <3> QED BY <2>1, Zenon
  <2> QED BY <1>1, <1>2, <2>2, PlacesAreTaken
<1>4. \A m, n \in 1..N : asked[m] = asked[n] => m = n
  <2> HIDE DEF asked, N
  <2> SUFFICES ASSUME NEW m \in 1..N, NEW n \in 1..N, asked[m] = asked[n]
               PROVE  m = n
    OBVIOUS
  <2>1. m - 1 = n - 1
    BY <1>3
  <2> QED BY <2>1, <1>3
<1>5. asked = [n \in 1..N |-> asked[n]]
  BY <1>1, Zenon DEF RowsInOrder
<1>6. LogOf(events, "ReceivedTime") = [n \in DOMAIN asked |-> RecordOf(asked[n])]
  BY LogIs, Zenon DEF RecordOf
<1> HIDE DEF asked
<1>7. IsList(asked) /\ Len(asked) = N
  <2> HIDE DEF N
  <2> QED BY <1>3, <1>5, FunctionIsList
<1> QED BY <1>3, <1>4, <1>6, <1>7, RecordsInTurn

(***************************************************************************)
(* What a live system logs of a prediction, from the rows it had received  *)
(* when it was asked, is what the replay of the whole file says of it.     *)
(***************************************************************************)
LEMMA LiveRecordIsReplayed ==
  ASSUME events \in Seq(Event), Clean(events), NEW p \in Asked
  PROVE  LiveRecord(p) = RecordOf(p)
<1> DEFINE o == "ReceivedTime"
           P == { i \in DOMAIN events : events[i] = p \/ ReceivedBefore(events[i], p) }
           had == ReceivedUpTo(p)
           own == LogOf(had, o)
           S == PredictionsOf(RowsOf(had))
           N == Cardinality(S)
           asked == PredictionsBy(o, had)
<1>1. had = Listed(events, P)
  BY Zenon DEF ReceivedUpTo
<1>2. At(events, P) = { e \in RowsOf(events) : e = p \/ ReceivedBefore(e, p) }
  <2>1. \A e : e \in At(events, P) <=> e \in { f \in RowsOf(events) : f = p \/ ReceivedBefore(f, p) }
    BY Zenon DEF At, RowsOf
  <2> QED BY <2>1, Zenon
<1>3. \A i \in P : i \in DOMAIN events
  OBVIOUS
<1>4. p \in RowsOf(events) /\ IsPrediction(p) /\ p \in Event
  BY AcceptedRows
<1> HIDE DEF P, had
<1>5. had \in Seq(Event) /\ Clean(had) /\ RowsOf(had) = At(events, P)
  BY <1>1, <1>3, ListingIsClean
<1>6. \A e : e \in S <=> e \in RowsOf(events) /\ IsPrediction(e) /\ (e = p \/ ReceivedBefore(e, p))
  BY <1>2, <1>5, Zenon DEF PredictionsOf
<1>7. p \in S
  BY <1>4, <1>6
<1> HIDE DEF S
<1>8. Apart(S)
  BY <1>6, AcceptedRows, ApartSubset
<1>9. /\ N \in Nat /\ N >= 1 /\ RowsInOrder(o, S)[N] \in S
      /\ p = RowsInOrder(o, S)[N] \/ EarlierBy(o, p, RowsInOrder(o, S)[N])
  BY <1>7, <1>8, LastPlace
<1>10. RowsInOrder(o, S)[N] = p
  <2> DEFINE m == RowsInOrder(o, S)[N]
  <2>1. m \in Event /\ (m = p \/ ReceivedBefore(m, p))
    BY <1>6, <1>8, <1>9, Zenon DEF Apart
  <2>2. p = m \/ ReceivedBefore(p, m)
    BY <1>9, Zenon DEF EarlierBy, KeyBy, ReceivedBefore
  <2> HIDE DEF m
  <2>3. ~(ReceivedBefore(p, m) /\ ReceivedBefore(m, p))
    BY <1>4, <2>1, EarlierIsOrder, ReceivedInOrder
  <2> QED BY <2>1, <2>2, <2>3 DEF m
<1>11. DOMAIN asked = 1..N /\ asked[N] = p
  <2>1. asked = RowsInOrder(o, S)
    BY Zenon DEF PredictionsBy, S
  <2>2. DOMAIN RowsInOrder(o, S) = 1..N
    BY <1>8, PlacesAreTaken
  <2> QED BY <1>10, <2>1, <2>2, Zenon
<1>12. own = [n \in DOMAIN asked |-> RecordBy(o, RowsOf(had), asked[n])]
  BY LogIs
<1> HIDE DEF own, asked, N
<1>13. DOMAIN own = 1..N /\ own = [n \in 1..N |-> own[n]]
  BY <1>11, <1>12, Zenon
<1>14. Len(own) = N
  BY <1>9, <1>13, FunctionIsList
<1>15. own[N] = RecordBy(o, RowsOf(had), p)
  BY <1>9, <1>11, <1>12
<1>16. VisibleBy(o, RowsOf(had), p) = VisibleBy(o, RowsOf(events), p)
  <2>1. \A e : EarlierBy(o, e, p) => ReceivedBefore(e, p)
    BY Zenon DEF EarlierBy, KeyBy, ReceivedBefore
  <2>2. \A e : e \in VisibleBy(o, RowsOf(had), p) <=> e \in VisibleBy(o, RowsOf(events), p)
    BY <1>2, <1>5, <2>1, Zenon DEF VisibleBy
  <2> QED BY <2>2, Zenon
<1>17. own[N] = RecordOf(p)
  BY <1>15, <1>16, Zenon DEF RecordBy, RecordOf
<1> QED BY <1>14, <1>17, Zenon DEF LiveRecord, own, had

-----------------------------------------------------------------------------
(***************************************************************************)
(* The files of stored predictions.                                        *)
(***************************************************************************)
LEMMA EditedIsList ==
  ASSUME args.edit \in Edits, NEW N \in Nat, NEW all, all = [n \in 1..N |-> all[n]]
  PROVE  IsList(Edited(all))
<1> DEFINE added == [key |-> Foreign, value |-> 0, hash |-> <<>>]
           torn == [key |-> Foreign, value |-> Malformed, hash |-> Absent]
           T == At(all, 1..N) \cup {added, torn}
           F(n) == [all[n] EXCEPT !.hash = Absent]
           G(n) == IF n = 1 THEN [all[n] EXCEPT !.key[1] = 0] ELSE all[n]
<1>1. DOMAIN all = 1..N
  BY Zenon
<1>2. all \in Seq(T) /\ added \in T /\ torn \in T
  <2>1. all \in [1..N -> T]
    BY DEF At
  <2>2. all \in Seq(T)
    <3> HIDE DEF T
    <3> QED BY <2>1, SeqDef
  <2> QED BY <2>2
<1>3. args.edit = "none" => Edited(all) = all
  BY Zenon DEF Edited
<1>4. args.edit = "no_hashes" => Edited(all) = [n \in 1..N |-> F(n)]
  BY <1>1 DEF Edited
<1>5. args.edit = "line_lost" => Edited(all) = IF all = <<>> THEN all ELSE Tail(all)
  BY DEF Edited
<1>6. args.edit = "line_repeated" => Edited(all) = all \o all
  BY DEF Edited
<1>7. args.edit = "line_added" => Edited(all) = Append(all, added)
  BY DEF Edited
<1>8. args.edit = "symbol_changed" => Edited(all) = [n \in 1..N |-> G(n)]
  BY <1>1 DEF Edited
<1>9. args.edit = "torn" => Edited(all) = Append(all, torn)
  BY DEF Edited
<1> HIDE DEF T, F, G, added, torn
<1>10. CASE args.edit = "none"
  BY <1>2, <1>3, <1>10, TypedIsList
<1>11. CASE args.edit = "no_hashes"
  <2>1. Edited(all) = [n \in 1..N |-> Edited(all)[n]]
    BY <1>4, <1>11
  <2> QED BY <2>1, FunctionIsList
<1>12. CASE args.edit = "line_lost"
  <2>1. Edited(all) \in Seq(T)
    BY <1>2, <1>5, <1>12, HeadTailProperties
  <2> QED BY <2>1, TypedIsList
<1>13. CASE args.edit = "line_repeated"
  <2>1. Edited(all) \in Seq(T)
    BY <1>2, <1>6, <1>13, ConcatProperties
  <2> QED BY <2>1, TypedIsList
<1>14. CASE args.edit \in {"line_added", "torn"}
  <2>1. Edited(all) \in Seq(T)
    BY <1>2, <1>7, <1>9, <1>14, AppendProperties
  <2> QED BY <2>1, TypedIsList
<1>15. CASE args.edit = "symbol_changed"
  <2>1. Edited(all) = [n \in 1..N |-> Edited(all)[n]]
    BY <1>8, <1>15
  <2> QED BY <2>1, FunctionIsList
<1> QED BY <1>10, <1>11, <1>12, <1>13, <1>14, <1>15 DEF Edits

LEMMA StoredIsList ==
  ASSUME events \in Seq(Event), Clean(events), args \in Invocations,
         StoredFile(args.producer) # Absent
  PROVE  IsList(StoredFile(args.producer))
<1> DEFINE all == [ n \in DOMAIN PredictionRows |-> StoredLine(ProducedBy(args.producer)[n]) ]
           N == Len(PredictionRows)
<1>1. N \in Nat /\ DOMAIN PredictionRows = 1..N
  BY PredictionsAreListed DEF IsList
<1>2. StoredFile(args.producer) = Edited(all)
  BY Zenon DEF StoredFile
<1>3. all = [n \in 1..N |-> all[n]]
  BY <1>1
<1>4. args.edit \in Edits
  BY AuditAssumption
<1> HIDE DEF all, N
<1> QED BY <1>1, <1>2, <1>3, <1>4, EditedIsList

\* What an honest producer stores, and nobody edits: a line for every record.
LEMMA HonestStore ==
  ASSUME events \in Seq(Event), Clean(events),
         args.producer \in {"live", "replay"}, args.edit = "none"
  PROVE  LET lines == StoredFile(args.producer) IN
         /\ IsList(lines)
         /\ \A n \in DOMAIN lines : \E p \in Asked : lines[n] = StoredLine(RecordOf(p))
         /\ \A p \in Asked : \E n \in DOMAIN lines : lines[n] = StoredLine(RecordOf(p))
         /\ \A m, n \in DOMAIN lines : lines[m].key = lines[n].key => m = n
<1> DEFINE records == ProducedBy(args.producer)
           lines == StoredFile(args.producer)
           N == Len(PredictionRows)
<1>1. Answers(records)
  <2>1. CASE args.producer = "live"
    <3>1. records = [n \in DOMAIN PredictionRows |-> LiveRecord(PredictionRows[n])]
      BY <2>1, Zenon DEF ProducedBy
    <3>2. \A n \in DOMAIN PredictionRows : LiveRecord(PredictionRows[n]) = RecordOf(PredictionRows[n])
      BY PredictionsAreListed, LiveRecordIsReplayed
    <3> HIDE DEF records
    <3>3. records = [n \in DOMAIN PredictionRows |-> RecordOf(PredictionRows[n])]
      BY <3>1, <3>2
    <3> QED BY <3>3, PredictionsAreListed, RecordsInTurn
  <2>2. CASE args.producer = "replay"
    <3>1. records = LogOf(events, "ReceivedTime")
      BY <2>2, Zenon DEF ProducedBy
    <3> QED BY <3>1, LogAnswers
  <2> QED BY <2>1, <2>2
<1>2. N \in Nat /\ DOMAIN PredictionRows = 1..N /\ N = Cardinality(Asked)
  BY PredictionsAreListed DEF IsList
<1>3. lines = [ n \in DOMAIN PredictionRows |-> StoredLine(records[n]) ]
  BY Zenon DEF StoredFile, Edited
<1> HIDE DEF records, lines, N
<1>4. DOMAIN records = 1..N
  BY <1>1, <1>2 DEF Answers, IsList
<1>5. DOMAIN lines = 1..N /\ \A n \in 1..N : lines[n] = StoredLine(records[n])
  BY <1>2, <1>3, Zenon
<1>6. IsList(lines)
  <2>1. lines = [n \in 1..N |-> lines[n]]
    BY <1>2, <1>3, <1>5, Zenon
  <2> QED BY <1>2, <2>1, FunctionIsList
<1>7. \A n \in DOMAIN lines : \E p \in Asked : lines[n] = StoredLine(RecordOf(p))
  <2> TAKE n \in DOMAIN lines
  <2>1. n \in DOMAIN records /\ lines[n] = StoredLine(records[n])
    BY <1>4, <1>5
  <2>2. PICK p \in Asked : records[n] = RecordOf(p)
    BY <1>1, <2>1 DEF Answers
  <2> QED BY <2>1, <2>2
<1>8. \A p \in Asked : \E n \in DOMAIN lines : lines[n] = StoredLine(RecordOf(p))
  BY <1>1, <1>4, <1>5, Zenon DEF Answers
<1>9. \A m, n \in DOMAIN lines : lines[m].key = lines[n].key => m = n
  <2>1. \A r : StoredLine(r).key = AuditKey(r)
    BY DEF StoredLine
  <2> QED BY <1>1, <1>4, <1>5, <2>1, Zenon DEF Answers
<1> QED BY <1>6, <1>7, <1>8, <1>9 DEF lines

LEMMA RecordTypes ==
  ASSUME events \in Seq(Event), Clean(events), NEW p \in Asked
  PROVE  RecordOf(p).signal_value \in Int /\ RecordOf(p).inputs \in Seq(Nat)
<1>1. PICK cited : /\ RecordOf(p) = RecordFrom(cited, p)
                   /\ \E N \in Nat : DOMAIN cited = 1..N
                   /\ \A k \in DOMAIN cited : cited[k] \in RowsOf(events)
  BY CitedRows
<1>2. PICK N \in Nat : DOMAIN cited = 1..N
  BY <1>1
<1> DEFINE keys == [k \in 1..N |-> EventKey(cited[k])]
<1>3. /\ RecordOf(p).inputs = keys
      /\ RecordOf(p).signal_value = IF cited = <<>> THEN 0 ELSE SignalValue(cited)
  BY <1>1, <1>2 DEF RecordFrom
<1>4. keys \in Seq(Nat)
  <2>1. \A e \in RowsOf(events) : EventKey(e) \in Nat
    <3>1. \A e \in RowsOf(events) : e \in Event
      BY AcceptedRows DEF Apart
    <3> QED BY <3>1, EventsAssumption DEF Event, EventKey
  <2>2. keys \in [1..N -> Nat]
    BY <1>1, <1>2, <2>1
  <2> HIDE DEF keys
  <2> QED BY <2>2, SeqDef
<1>5. SignalValue(cited) \in {-1, 0, 1}
  BY SignalValueType
<1> QED BY <1>3, <1>4, <1>5

-----------------------------------------------------------------------------
(***************************************************************************)
(* The verdict of the audit, without counting.                             *)
(***************************************************************************)
NothingExtra == \A m \in DOMAIN stored : \E n \in DOMAIN log : stored[m].key = AuditKey(log[n])

Green ==
  /\ \A n \in DOMAIN log : IsCausal(log[n])
  /\ stored # Absent => /\ \A n \in DOMAIN log : Certified(log[n])
                        /\ NothingExtra

LEMMA PassesIsGreen ==
  ASSUME IsList(log), stored # Absent => IsList(stored)
  PROVE  Passes <=> Green
<1> DEFINE late == { n \in DOMAIN log : ~IsCausal(log[n]) }
           wrong == { n \in DOMAIN log : ~Certified(log[n]) }
           extra == KeysOf(stored) \ ExpectedKeys
<1>1. \A S : IsFiniteSet(S) => (Cardinality(S) = 0 <=> S = {})
  BY FS_EmptySet
<1>2. IsFiniteSet(DOMAIN log)
  <2>1. \A k \in Nat : IsFiniteSet(1..k)
    BY FS_Interval
  <2> QED BY <2>1, Zenon DEF IsList
<1>3. IsFiniteSet(late) /\ IsFiniteSet(wrong)
  <2>1. late \subseteq DOMAIN log /\ wrong \subseteq DOMAIN log
    OBVIOUS
  <2> HIDE DEF late, wrong
  <2> QED BY <1>2, <2>1, FS_Subset
<1>4. stored # Absent => IsFiniteSet(extra)
  <2> SUFFICES ASSUME stored # Absent PROVE IsFiniteSet(extra)
    OBVIOUS
  <2>1. IsFiniteSet(KeysOf(stored))
    BY KeysOfLines
  <2>2. extra \subseteq KeysOf(stored)
    OBVIOUS
  <2> HIDE DEF extra
  <2> QED BY <2>1, <2>2, FS_Subset
<1>5. late = {} <=> \A n \in DOMAIN log : IsCausal(log[n])
  OBVIOUS
<1>6. wrong = {} <=> \A n \in DOMAIN log : Certified(log[n])
  OBVIOUS
<1>7. extra = {} <=> NothingExtra
  BY DEF KeysOf, ExpectedKeys, NothingExtra
<1>8. /\ Summary.non_causal = Cardinality(late)
      /\ Summary.mismatched = IF stored = Absent THEN 0 ELSE Cardinality(wrong)
      /\ Summary.extra = IF stored = Absent THEN 0 ELSE Cardinality(extra)
  BY DEF Summary
<1> HIDE DEF late, wrong, extra
<1>9. Cardinality(late) = 0 <=> \A n \in DOMAIN log : IsCausal(log[n])
  BY <1>1, <1>3, <1>5, Zenon
<1>10. Cardinality(wrong) = 0 <=> \A n \in DOMAIN log : Certified(log[n])
  BY <1>1, <1>3, <1>6, Zenon
<1>11. stored # Absent => (Cardinality(extra) = 0 <=> NothingExtra)
  BY <1>1, <1>4, <1>7, Zenon
<1>12. Passes <=> /\ Cardinality(late) = 0
                  /\ stored # Absent => Cardinality(wrong) = 0
                  /\ stored # Absent => Cardinality(extra) = 0
  BY <1>8, Zenon DEF Passes
<1> QED BY <1>9, <1>10, <1>11, <1>12, Zenon DEF Green

\* The stored predictions of an honest producer are read, and certified.
LEMMA HonestIsRead ==
  ASSUME events \in Seq(Event), Clean(events),
         args.producer \in {"live", "replay"}, args.edit = "none"
  PROVE  ~StoredIsBad(StoredFile(args.producer))
<1> DEFINE lines == StoredFile(args.producer)
<1>1. /\ IsList(lines)
      /\ \A n \in DOMAIN lines : \E p \in Asked : lines[n] = StoredLine(RecordOf(p))
      /\ \A m, n \in DOMAIN lines : lines[m].key = lines[n].key => m = n
  BY HonestStore
<1> HIDE DEF lines
<1>2. \A n \in DOMAIN lines : lines[n].value # Malformed
  <2> TAKE n \in DOMAIN lines
  <2>1. PICK p \in Asked : lines[n] = StoredLine(RecordOf(p))
    BY <1>1
  <2>2. lines[n].value \in Int
    BY <2>1, RecordTypes DEF StoredLine
  <2> QED BY <2>2, EventsAssumption
<1>3. ~Repeats(lines)
  BY <1>1, KeysOfLines
<1> QED BY <1>2, <1>3, Zenon DEF StoredIsBad, lines

LEMMA HonestPasses ==
  ASSUME events \in Seq(Event), Clean(events),
         args.producer \in {"live", "replay"}, args.edit = "none",
         log = LogOf(events, "ReceivedTime"), stored = StoredFile(args.producer)
  PROVE  Passes
<1>1. Answers(log)
  BY LogAnswers
<1>2. /\ IsList(stored)
      /\ \A n \in DOMAIN stored : \E p \in Asked : stored[n] = StoredLine(RecordOf(p))
      /\ \A p \in Asked : \E n \in DOMAIN stored : stored[n] = StoredLine(RecordOf(p))
  BY HonestStore
<1>3. /\ IsList(log)
      /\ \A n \in DOMAIN log : \E p \in Asked : log[n] = RecordOf(p)
      /\ \A p \in Asked : \E n \in DOMAIN log : log[n] = RecordOf(p)
  BY <1>1, Zenon DEF Answers
<1>4. ASSUME NEW n \in DOMAIN log PROVE IsCausal(log[n]) /\ Certified(log[n])
  <2>1. PICK p \in Asked : log[n] = RecordOf(p)
    BY <1>3
  <2>2. PICK m \in DOMAIN stored : stored[m] = StoredLine(RecordOf(p))
    BY <1>2
  <2>3. /\ stored[m].key = AuditKey(log[n]) /\ stored[m].value = log[n].signal_value
        /\ stored[m].hash = log[n].inputs
    BY <2>1, <2>2 DEF StoredLine
  <2>4. stored[m].hash # Absent
    BY <2>1, <2>3, RecordTypes, AuditAssumption
  <2>5. Matches(stored[m], log[n])
    BY <2>3, <2>4, Zenon DEF Matches
  <2>6. Certified(log[n])
    BY <2>3, <2>5, Zenon DEF Certified
  <2>7. IsCausal(log[n])
    BY <2>1, RecordsAreCausal
  <2> QED BY <2>6, <2>7
<1>5. NothingExtra
  <2> SUFFICES ASSUME NEW m \in DOMAIN stored
               PROVE  \E n \in DOMAIN log : stored[m].key = AuditKey(log[n])
    BY DEF NothingExtra
  <2>1. PICK p \in Asked : stored[m] = StoredLine(RecordOf(p))
    BY <1>2
  <2>2. PICK n \in DOMAIN log : log[n] = RecordOf(p)
    BY <1>3
  <2>3. stored[m].key = AuditKey(log[n])
    BY <2>1, <2>2 DEF StoredLine
  <2> QED BY <2>3
<1>6. Green
  BY <1>4, <1>5, Zenon DEF Green
<1> QED BY <1>2, <1>3, <1>6, PassesIsGreen

(***************************************************************************)
(* What a green audit says of the producer.                                *)
(***************************************************************************)
LEMMA ExpectedKeysCount ==
  ASSUME events \in Seq(Event), Clean(events), log = LogOf(events, "ReceivedTime")
  PROVE  Cardinality(ExpectedKeys) = Len(log) /\ Len(log) = Cardinality(Asked)
<1> DEFINE N == Len(log)
           keyed == [n \in 1..N |-> [key |-> AuditKey(log[n])]]
<1>1. /\ N \in Nat /\ DOMAIN log = 1..N /\ N = Cardinality(Asked)
      /\ \A m, n \in 1..N : AuditKey(log[m]) = AuditKey(log[n]) => m = n
  BY LogAnswers, Zenon DEF Answers, IsList
<1>2. DOMAIN keyed = 1..N /\ \A n \in 1..N : keyed[n].key = AuditKey(log[n])
  OBVIOUS
<1>3. keyed = [n \in 1..N |-> keyed[n]]
  OBVIOUS
<1> HIDE DEF keyed, N
<1>4. IsList(keyed) /\ Len(keyed) = N
  BY <1>1, <1>3, FunctionIsList
<1>5. \A m, n \in DOMAIN keyed : keyed[m].key = keyed[n].key => m = n
  <2> SUFFICES ASSUME NEW m \in 1..N, NEW n \in 1..N, keyed[m].key = keyed[n].key
               PROVE  m = n
    BY <1>2, Zenon
  <2>1. AuditKey(log[m]) = AuditKey(log[n])
    BY <1>2
  <2> QED BY <1>1, <2>1
<1>6. Cardinality(KeysOf(keyed)) = N
  BY <1>4, <1>5, KeysOfLines
<1>7. KeysOf(keyed) = ExpectedKeys
  <2>1. KeysOf(keyed) = { keyed[n].key : n \in 1..N }
    BY <1>2, Zenon DEF KeysOf
  <2>2. ExpectedKeys = { AuditKey(log[n]) : n \in 1..N }
    BY <1>1, Zenon DEF ExpectedKeys
  <2> QED BY <1>2, <2>1, <2>2, SMT
<1> QED BY <1>1, <1>6, <1>7 DEF N

LEMMA RowOfKey ==
  ASSUME events \in Seq(Event), Clean(events), NEW e \in RowsOf(events)
  PROVE  RowWithKey(EventKey(e)) = e
<1>1. PICK i \in DOMAIN events : e = events[i]
  BY DEF RowsOf
<1>2. \A j \in DOMAIN events : EventKey(events[j]) = EventKey(events[i]) => j = i
  BY CleanRows
<1>3. (CHOOSE j \in DOMAIN events : EventKey(events[j]) = EventKey(e)) = i
  BY <1>1, <1>2
<1> QED BY <1>1, <1>3, Zenon DEF RowWithKey

Certifies ==
  /\ Len(stored) = Len(PredictionRows)
  /\ \A i \in DOMAIN PredictionRows : \E n \in DOMAIN stored :
       stored[n].key[4] = EventKey(PredictionRows[i])
  /\ \A n \in DOMAIN stored : stored[n].hash # Absent =>
       \A k \in DOMAIN stored[n].hash :
         ReceivedBefore(RowWithKey(stored[n].hash[k]), RowWithKey(stored[n].key[4]))

LEMMA GreenCertifies ==
  ASSUME events \in Seq(Event), Clean(events), log = LogOf(events, "ReceivedTime"),
         IsList(stored), stored # Absent, ~StoredIsBad(stored), Green
  PROVE  Certifies
<1>1. /\ Answers(log)
      /\ \A n \in DOMAIN log : \E p \in Asked : log[n] = RecordOf(p)
      /\ \A p \in Asked : \E n \in DOMAIN log : log[n] = RecordOf(p)
  BY LogAnswers, Zenon DEF Answers
<1>2. /\ \A n \in DOMAIN log : Certified(log[n])
      /\ \A m \in DOMAIN stored : \E n \in DOMAIN log : stored[m].key = AuditKey(log[n])
  BY Zenon DEF Green, NothingExtra
<1>3. /\ Cardinality(KeysOf(stored)) = Len(stored)
      /\ \A m, n \in DOMAIN stored : stored[m].key = stored[n].key => m = n
  BY KeysOfLines, Zenon DEF StoredIsBad
<1>4. Len(stored) = Len(PredictionRows)
  <2>1. \A n \in DOMAIN log : \E m \in DOMAIN stored : stored[m].key = AuditKey(log[n])
    BY <1>2, Zenon DEF Certified
  <2>2. \A x : x \in KeysOf(stored) => x \in ExpectedKeys
    <3> SUFFICES ASSUME NEW m \in DOMAIN stored PROVE stored[m].key \in ExpectedKeys
      BY Zenon DEF KeysOf
    <3>1. PICK n \in DOMAIN log : stored[m].key = AuditKey(log[n])
      BY <1>2
    <3> QED BY <3>1, Zenon DEF ExpectedKeys
  <2>3. KeysOf(stored) = ExpectedKeys
    <3>1. \A x : x \in ExpectedKeys => x \in KeysOf(stored)
      <4> SUFFICES ASSUME NEW n \in DOMAIN log PROVE AuditKey(log[n]) \in KeysOf(stored)
        BY Zenon DEF ExpectedKeys
      <4>1. PICK m \in DOMAIN stored : stored[m].key = AuditKey(log[n])
        BY <2>1
      <4> QED BY <4>1, Zenon DEF KeysOf
    <3> QED BY <2>2, <3>1, Zenon
  <2>4. Cardinality(ExpectedKeys) = Cardinality(Asked)
    BY ExpectedKeysCount
  <2>5. Len(PredictionRows) = Cardinality(Asked)
    BY PredictionsAreListed
  <2> QED BY <1>3, <2>3, <2>4, <2>5
<1>5. ASSUME NEW i \in DOMAIN PredictionRows
      PROVE  \E n \in DOMAIN stored : stored[n].key[4] = EventKey(PredictionRows[i])
  <2>1. PredictionRows[i] \in Asked
    BY PredictionsAreListed
  <2>2. PICK n \in DOMAIN log : log[n] = RecordOf(PredictionRows[i])
    BY <1>1, <2>1
  <2>3. PICK m \in DOMAIN stored : stored[m].key = AuditKey(log[n])
    BY <1>2, Zenon DEF Certified
  <2>4. stored[m].key[4] = EventKey(PredictionRows[i])
    BY <2>2, <2>3, AuditKeyOfRecord
  <2> QED BY <2>4
<1>6. ASSUME NEW n \in DOMAIN stored, stored[n].hash # Absent, NEW k \in DOMAIN stored[n].hash
      PROVE  ReceivedBefore(RowWithKey(stored[n].hash[k]), RowWithKey(stored[n].key[4]))
  <2>1. PICK m \in DOMAIN log : stored[n].key = AuditKey(log[m])
    BY <1>2
  <2>2. PICK l \in DOMAIN stored : stored[l].key = AuditKey(log[m]) /\ Matches(stored[l], log[m])
    BY <1>2, Zenon DEF Certified
  <2>3. l = n
    BY <1>3, <2>1, <2>2
  <2>4. stored[n].hash = log[m].inputs
    BY <1>6, <2>2, <2>3, Zenon DEF Matches
  <2>5. PICK p \in Asked : log[m] = RecordOf(p)
    BY <1>1
  <2>6. PICK cited :
          /\ RecordOf(p) = RecordFrom(cited, p)
          /\ \A j \in DOMAIN cited : cited[j] \in RowsOf(events) /\ ReceivedBefore(cited[j], p)
    BY CitedRows
  <2>7. log[m].inputs = [j \in DOMAIN cited |-> EventKey(cited[j])]
    BY <2>5, <2>6 DEF RecordFrom
  <2>8. k \in DOMAIN cited /\ stored[n].hash[k] = EventKey(cited[k])
    BY <1>6, <2>4, <2>7
  <2>9. RowWithKey(stored[n].hash[k]) = cited[k] /\ ReceivedBefore(cited[k], p)
    BY <2>6, <2>8, RowOfKey
  <2>10. stored[n].key[4] = EventKey(p)
    BY <2>1, <2>5, AuditKeyOfRecord
  <2>11. RowWithKey(stored[n].key[4]) = p
    BY <2>10, AcceptedRows, RowOfKey
  <2> QED BY <2>9, <2>11
<1> QED BY <1>4, <1>5, <1>6, Zenon DEF Certifies

(***************************************************************************)
(* The lines that are written, and the verdict.                            *)
(***************************************************************************)
LEMMA LinesSayTheVerdict ==
  ASSUME IsList(log), written = AuditLines
  PROVE  /\ Len(written) = Len(log)
         /\ Green <=> /\ \A n \in DOMAIN written : written[n].causal /\ written[n].matched # FALSE
                      /\ stored # Absent =>
                           \A m \in DOMAIN stored : \E n \in DOMAIN written : written[n].key = stored[m].key
<1> DEFINE N == Len(log)
<1>1. N \in Nat /\ DOMAIN log = 1..N
  BY DEF IsList
<1>2. DOMAIN written = 1..N /\ \A n \in 1..N : written[n] = AuditLine(log[n])
  BY <1>1, Zenon DEF AuditLines
<1>3. written = [n \in 1..N |-> written[n]]
  BY <1>1, <1>2, Zenon DEF AuditLines
<1> HIDE DEF N
<1>4. Len(written) = N
  BY <1>1, <1>3, FunctionIsList
<1>5. \A r : /\ AuditLine(r).key = AuditKey(r)
             /\ AuditLine(r).causal <=> IsCausal(r)
             /\ AuditLine(r).matched = IF stored = Absent THEN Absent ELSE Certified(r)
  BY DEF AuditLine
<1>6. \A r : AuditLine(r).matched # FALSE <=> (stored # Absent => Certified(r))
  <2> TAKE r
  <2>1. CASE stored = Absent
    BY <1>5, <2>1, AuditAssumption
  <2>2. CASE stored # Absent
    <3>1. AuditLine(r).matched = Certified(r)
      BY <1>5, <2>2, Zenon
    <3>2. (Certified(r) = FALSE) <=> ~Certified(r)
      BY Zenon DEF Certified
    <3> HIDE DEF Certified
    <3> QED BY <2>2, <3>1, <3>2, Zenon
  <2> QED BY <2>1, <2>2
<1>7. (\A n \in DOMAIN written : written[n].causal /\ written[n].matched # FALSE)
        <=> \A n \in DOMAIN log : IsCausal(log[n]) /\ (stored # Absent => Certified(log[n]))
  <2>1. \A n \in 1..N : /\ written[n].causal <=> IsCausal(log[n])
                       /\ written[n].matched # FALSE <=> (stored # Absent => Certified(log[n]))
    <3> TAKE n \in 1..N
    <3>1. /\ AuditLine(log[n]).causal <=> IsCausal(log[n])
          /\ AuditLine(log[n]).matched # FALSE <=> (stored # Absent => Certified(log[n]))
      BY <1>5, <1>6, Zenon
    <3> QED BY <1>2, <3>1, Zenon
  <2>2. ASSUME \A n \in DOMAIN written : written[n].causal /\ written[n].matched # FALSE,
               NEW n \in DOMAIN log
        PROVE  IsCausal(log[n]) /\ (stored # Absent => Certified(log[n]))
    <3>1. n \in 1..N /\ n \in DOMAIN written
      BY <1>1, <1>2
    <3>2. written[n].causal /\ written[n].matched # FALSE
      BY <2>2, <3>1, Zenon
    <3>3. /\ AuditLine(log[n]).causal <=> IsCausal(log[n])
          /\ AuditLine(log[n]).matched # FALSE <=> (stored # Absent => Certified(log[n]))
      BY <1>5, <1>6, Zenon
    <3>6. written[n] = AuditLine(log[n])
      BY <1>2, <3>1, Zenon
    <3>4. IsCausal(log[n])
      BY <3>2, <3>3, <3>6, Zenon
    <3>5. stored # Absent => Certified(log[n])
      BY <3>2, <3>3, <3>6, Zenon
    <3> QED BY <3>4, <3>5, Zenon
  <2>3. ASSUME \A n \in DOMAIN log : IsCausal(log[n]) /\ (stored # Absent => Certified(log[n])),
               NEW n \in DOMAIN written
        PROVE  written[n].causal /\ written[n].matched # FALSE
    <3>1. n \in 1..N /\ n \in DOMAIN log
      BY <1>1, <1>2
    <3> QED BY <2>1, <2>3, <3>1, Zenon
  <2> QED BY <2>2, <2>3, Zenon
<1>8. ASSUME NEW m \in DOMAIN stored
      PROVE  (\E n \in DOMAIN written : written[n].key = stored[m].key)
               <=> \E n \in DOMAIN log : stored[m].key = AuditKey(log[n])
  <2>1. \A n \in 1..N : written[n].key = AuditKey(log[n])
    BY <1>2, <1>5, Zenon
  <2> QED BY <1>1, <1>2, <2>1, Zenon
<1>9. NothingExtra <=>
        \A m \in DOMAIN stored : \E n \in DOMAIN written : written[n].key = stored[m].key
  BY <1>8, Zenon DEF NothingExtra
<1> QED BY <1>4, <1>7, <1>9, Zenon DEF N, Green

LEMMA AttachedAreCarried ==
  ASSUME events \in Seq(Event), Clean(events), log = LogOf(events, "ReceivedTime"),
         written = AuditLines, \A n \in DOMAIN outcomes : outcomes[n].return_bps # Absent
  PROVE  Summary.attached = Cardinality({ n \in DOMAIN written : written[n].outcome # Absent })
<1> DEFINE k == [n \in DOMAIN log |-> AuditKey(log[n])]
           D == { n \in DOMAIN log : k[n] \in KeysOf(outcomes) }
<1>1. /\ IsList(log)
      /\ \A m, n \in DOMAIN log : AuditKey(log[m]) = AuditKey(log[n]) => m = n
  BY LogAnswers, Zenon DEF Answers
<1>2. IsFiniteSet(D)
  <2>1. \A j \in Nat : IsFiniteSet(1..j)
    BY FS_Interval
  <2>2. IsFiniteSet(DOMAIN log)
    BY <1>1, <2>1, Zenon DEF IsList
  <2> QED BY <2>2, FS_Subset
<1>3. \A n \in DOMAIN log : k[n] = AuditKey(log[n])
  OBVIOUS
<1>4. DOMAIN written = DOMAIN log /\ \A n \in DOMAIN log : written[n] = AuditLine(log[n])
  BY Zenon DEF AuditLines
<1>5. \A r : AuditLine(r).outcome # Absent <=> AuditKey(r) \in KeysOf(outcomes)
  <2> TAKE r
  <2> DEFINE c == CHOOSE n \in DOMAIN outcomes : outcomes[n].key = AuditKey(r)
  <2>1. AuditLine(r).outcome = IF AuditKey(r) \in KeysOf(outcomes)
                               THEN outcomes[c].return_bps ELSE Absent
    BY DEF AuditLine
  <2>2. AuditKey(r) \in KeysOf(outcomes) => c \in DOMAIN outcomes
    BY Zenon DEF KeysOf
  <2> HIDE DEF c
  <2> QED BY <2>1, <2>2
<1> HIDE DEF k
<1>6. { n \in DOMAIN written : written[n].outcome # Absent } = D
  <2>1. \A n \in DOMAIN log : written[n].outcome # Absent <=> k[n] \in KeysOf(outcomes)
    <3> TAKE n \in DOMAIN log
    <3>1. AuditLine(log[n]).outcome # Absent <=> AuditKey(log[n]) \in KeysOf(outcomes)
      BY <1>5
    <3> QED BY <1>3, <1>4, <3>1, Zenon
  <2> QED BY <1>4, <2>1, Zenon
<1>7. At(k, D) = KeysOf(outcomes) \cap ExpectedKeys
  <2>1. \A x : x \in At(k, D) <=> x \in KeysOf(outcomes) /\ x \in ExpectedKeys
    BY <1>3, Zenon DEF At, ExpectedKeys
  <2> QED BY <2>1
<1>8. Cardinality(At(k, D)) = Cardinality(D)
  <2>1. \A m, n \in D : k[m] = k[n] => m = n
    BY <1>1, <1>3
  <2> HIDE DEF D
  <2> QED BY <1>2, <2>1, AtSize
<1>9. Summary.attached = Cardinality(KeysOf(outcomes) \cap ExpectedKeys)
  BY DEF Summary
<1> QED BY <1>6, <1>7, <1>8, <1>9

LEMMA KeptAreAttachable ==
  ASSUME ~OutcomesAreBad(OutcomeRows), outcomes = Kept(OutcomeRows)
  PROVE  \A n \in DOMAIN outcomes : outcomes[n].return_bps # Absent
BY Zenon DEF OutcomesAreBad, Attachable

-----------------------------------------------------------------------------
(***************************************************************************)
(* The inductive invariant.  What a step has read or computed stays a      *)
(* function of the file and the invocation, so a verdict is one about them *)
(* however the audit went on, and an error names the step that failed.     *)
(***************************************************************************)
Phases == {"replay", "stored", "outcomes", "write", "exit", "passed", "failed"}

TypesOfAudit ==
  /\ events \in Feeds
  /\ args \in Invocations
  /\ phase \in Phases
  /\ error # "none" <=> phase = "failed"

Replayed ==
  phase \in {"stored", "outcomes", "write", "exit", "passed"}
    \/ error \in {"stored", "outcomes", "write", "audit"} =>
  /\ ~Refused(events)
  /\ log = LogOf(events, "ReceivedTime")

StoredRead ==
  phase \in {"outcomes", "write", "exit", "passed"} \/ error \in {"outcomes", "write", "audit"} =>
  /\ stored = StoredFile(args.producer)
  /\ stored # Absent => ~StoredIsBad(stored)

StoredRejected == error = "stored" => StoredIsBad(StoredFile(args.producer))

OutcomesRead ==
  phase \in {"write", "exit", "passed"} \/ error \in {"write", "audit"} =>
  /\ ~OutcomesAreBad(OutcomeRows)
  /\ outcomes = Kept(OutcomeRows)

LinesWritten == phase \in {"exit", "passed"} \/ error = "audit" => written = AuditLines

VerdictIsOfLines ==
  /\ phase = "passed" => Passes
  /\ error = "audit" => ~Passes

AInv ==
  /\ TypesOfAudit
  /\ Replayed
  /\ StoredRead
  /\ StoredRejected
  /\ OutcomesRead
  /\ LinesWritten
  /\ VerdictIsOfLines

-----------------------------------------------------------------------------
(***************************************************************************)
(* What a step reads is kept by the steps after it.                        *)
(***************************************************************************)
LEMMA FileStays ==
  ASSUME events' = events
  PROVE  /\ Refused(events)' <=> Refused(events)
         /\ Clean(events)' <=> Clean(events)
         /\ LogOf(events, "ReceivedTime")' = LogOf(events, "ReceivedTime")
         /\ PredictionRows' = PredictionRows
<1>1. Clean(events)' <=> Clean(events)
  BY DEF Clean
<1>2. Refused(events)' <=> Refused(events)
  <2>1. Refused(events)' <=> ~Clean(events)'
    BY RefusedUnlessClean
  <2>2. Refused(events) <=> ~Clean(events)
    BY RefusedUnlessClean
  <2> QED BY <1>1, <2>1, <2>2
<1>3. LogOf(events, "ReceivedTime")' = LogOf(events, "ReceivedTime")
  BY Zenon
<1>4. PredictionRows' = PredictionRows
  BY DEF PredictionRows
<1> QED BY <1>1, <1>2, <1>3, <1>4

LEMMA ProducersStay ==
  ASSUME events' = events, args' = args
  PROVE  StoredFile(args.producer)' = StoredFile(args.producer)
<1>1. PredictionRows' = PredictionRows
  BY FileStays
<1>2. \A p : ReceivedUpTo(p)' = ReceivedUpTo(p)
  BY DEF ReceivedUpTo
<1>3. \A p : LiveRecord(p)' = LiveRecord(p)
  BY <1>2 DEF LiveRecord
<1>4. WithoutFirstFeature' = WithoutFirstFeature
  BY DEF WithoutFirstFeature
<1>5. \A producer : ProducedBy(producer)' = ProducedBy(producer)
  BY <1>1, <1>3, <1>4 DEF ProducedBy
<1>6. \A all : Edited(all)' = Edited(all)
  BY DEF Edited
<1> QED BY <1>1, <1>5, <1>6 DEF StoredFile

LEMMA OutcomesStay ==
  ASSUME args' = args, log' = log
  PROVE  /\ OutcomeRows' = OutcomeRows
         /\ Kept(OutcomeRows)' = Kept(OutcomeRows)
         /\ OutcomesAreBad(OutcomeRows)' <=> OutcomesAreBad(OutcomeRows)
<1>1. OutcomeRows' = OutcomeRows
  BY DEF OutcomeRows
<1>2. Kept(OutcomeRows)' = Kept(OutcomeRows)
  BY <1>1 DEF Kept, AsPipe
<1>3. OutcomesAreBad(OutcomeRows)' <=> OutcomesAreBad(OutcomeRows)
  BY <1>2 DEF OutcomesAreBad
<1> QED BY <1>1, <1>2, <1>3

LEMMA VerdictStays ==
  ASSUME events' = events, args' = args, log' = log, stored' = stored, outcomes' = outcomes
  PROVE  AuditLines' = AuditLines /\ (Passes' <=> Passes)
<1>1. \A r : IsCausal(r)' <=> IsCausal(r)
  BY DEF IsCausal, LabelFor
<1>2. \A r : Certified(r)' <=> Certified(r)
  BY DEF Certified, Matches
<1>3. \A r : AuditLine(r)' = AuditLine(r)
  <2> TAKE r
  <2>1. IsCausal(r)' = IsCausal(r)
    BY Zenon DEF IsCausal, LabelFor
  <2>2. Certified(r)' = Certified(r)
    BY Zenon DEF Certified, Matches
  <2> DEFINE matched == IF stored = Absent THEN Absent ELSE Certified(r)
             outcome == IF AuditKey(r) \in KeysOf(outcomes)
                        THEN outcomes[CHOOSE n \in DOMAIN outcomes :
                                        outcomes[n].key = AuditKey(r)].return_bps
                        ELSE Absent
  <2>3. matched' = matched
    BY <2>2, Zenon
  <2>4. outcome' = outcome
    BY SMT DEF KeysOf
  <2>5. AuditLine(r) = [key |-> AuditKey(r), causal |-> IsCausal(r),
                        matched |-> matched, outcome |-> outcome]
    BY Zenon DEF AuditLine
  <2>6. AuditLine(r)' = [key |-> AuditKey(r), causal |-> IsCausal(r)',
                         matched |-> matched', outcome |-> outcome']
    BY Zenon DEF AuditLine
  <2> HIDE DEF matched, outcome
  <2> QED BY <2>1, <2>3, <2>4, <2>5, <2>6, Zenon
<1>4. AuditLines' = AuditLines
  BY <1>3 DEF AuditLines
<1>5. ExpectedKeys' = ExpectedKeys
  BY DEF ExpectedKeys
<1>6. Summary' = Summary
  BY <1>1, <1>2, <1>5 DEF Summary
<1> QED BY <1>4, <1>6 DEF Passes

-----------------------------------------------------------------------------
(***************************************************************************)
(* Every action keeps the invariant.                                       *)
(***************************************************************************)
LEMMA AInvInit == Init => AInv
<1> SUFFICES ASSUME Init PROVE AInv
  OBVIOUS
<1>1. events \in Feeds /\ args \in Invocations /\ phase = "replay" /\ error = "none"
  BY DEF Init
<1>2. TypesOfAudit
  BY <1>1 DEF TypesOfAudit, Phases
<1> QED BY <1>1, <1>2 DEF AInv, Replayed, StoredRead, StoredRejected, OutcomesRead, LinesWritten,
                          VerdictIsOfLines

LEMMA ReplayKeepsAInv ==
  ASSUME AInv, ReplayEvents
  PROVE  AInv'
<1>1. /\ events \in Feeds /\ args \in Invocations /\ phase = "replay" /\ error = "none"
      /\ events' = events /\ args' = args
  BY Zenon DEF AInv, TypesOfAudit, ReplayEvents, Fail
<1>2. CASE phase' = "failed" /\ error' = "replay"
  <2>1. TypesOfAudit'
    BY <1>1, <1>2 DEF TypesOfAudit, Phases
  <2> QED BY <1>2, <2>1 DEF AInv, Replayed, StoredRead, StoredRejected, OutcomesRead, LinesWritten,
                            VerdictIsOfLines
<1>3. CASE ~Refused(events) /\ log' = LogOf(events, "ReceivedTime") /\ phase' = "stored" /\ error' = error
  <2>1. TypesOfAudit'
    BY <1>1, <1>3 DEF TypesOfAudit, Phases
  <2>2. ~Refused(events)' /\ log' = LogOf(events, "ReceivedTime")'
    BY <1>1, <1>3, FileStays, Zenon
  <2>3. Replayed'
    BY <2>2, Zenon DEF Replayed
  <2> QED BY <1>1, <1>3, <2>1, <2>3 DEF AInv, StoredRead, StoredRejected, OutcomesRead, LinesWritten,
                                        VerdictIsOfLines
<1> QED BY <1>2, <1>3, Zenon DEF ReplayEvents, Fail

LEMMA StoredKeepsAInv ==
  ASSUME AInv, LoadStored
  PROVE  AInv'
<1>1. /\ events \in Feeds /\ args \in Invocations /\ phase = "stored" /\ error = "none"
      /\ events' = events /\ args' = args /\ log' = log
  BY Zenon DEF AInv, TypesOfAudit, LoadStored, Fail
<1>2. Replayed'
  <2>1. ~Refused(events) /\ log = LogOf(events, "ReceivedTime")
    BY <1>1 DEF AInv, Replayed
  <2>2. ~Refused(events)' /\ log' = LogOf(events, "ReceivedTime")'
    BY <1>1, <2>1, FileStays, Zenon
  <2> QED BY <2>2, Zenon DEF Replayed
<1>3. StoredFile(args.producer)' = StoredFile(args.producer)
  BY <1>1, ProducersStay
<1>4. CASE StoredIsBad(StoredFile(args.producer)) /\ phase' = "failed" /\ error' = "stored"
  <2>1. TypesOfAudit'
    BY <1>1, <1>4 DEF TypesOfAudit, Phases
  <2>2. StoredRejected'
    BY <1>3, <1>4, Zenon DEF StoredRejected, StoredIsBad, Repeats, KeysOf
  <2> QED BY <1>2, <1>4, <2>1, <2>2 DEF AInv, StoredRead, OutcomesRead, LinesWritten, VerdictIsOfLines
<1>5. CASE /\ StoredFile(args.producer) # Absent => ~StoredIsBad(StoredFile(args.producer))
           /\ stored' = StoredFile(args.producer) /\ phase' = "outcomes" /\ error' = error
  <2>1. TypesOfAudit'
    BY <1>1, <1>5 DEF TypesOfAudit, Phases
  <2>2. stored' = StoredFile(args.producer)' /\ (stored' # Absent => ~StoredIsBad(stored)')
    BY <1>3, <1>5, Zenon DEF StoredIsBad, Repeats, KeysOf
  <2>3. StoredRead'
    BY <2>2, Zenon DEF StoredRead
  <2> QED BY <1>1, <1>2, <1>5, <2>1, <2>3 DEF AInv, StoredRejected, OutcomesRead, LinesWritten,
                                              VerdictIsOfLines
<1> QED BY <1>4, <1>5, Zenon DEF LoadStored, Fail

\* What was read before the outcomes stays read.
LEMMA ReadStays ==
  ASSUME AInv, events' = events, args' = args, log' = log, stored' = stored,
         phase \in {"outcomes", "write", "exit"}, error' # "stored"
  PROVE  Replayed' /\ StoredRead' /\ StoredRejected'
<1>1. ~Refused(events) /\ log = LogOf(events, "ReceivedTime")
  BY DEF AInv, Replayed
<1>2. stored = StoredFile(args.producer) /\ (stored # Absent => ~StoredIsBad(stored))
  BY DEF AInv, StoredRead
<1>3. ~Refused(events)' /\ log' = LogOf(events, "ReceivedTime")'
  BY <1>1, FileStays, Zenon
<1>4. stored' = StoredFile(args.producer)' /\ (stored' # Absent => ~StoredIsBad(stored)')
  BY <1>2, ProducersStay, Zenon DEF StoredIsBad, Repeats, KeysOf
<1> QED BY <1>3, <1>4, Zenon DEF Replayed, StoredRead, StoredRejected

LEMMA OutcomesKeepAInv ==
  ASSUME AInv, LoadOutcomes
  PROVE  AInv'
<1>1. /\ events \in Feeds /\ args \in Invocations /\ phase = "outcomes" /\ error = "none"
      /\ events' = events /\ args' = args /\ log' = log /\ stored' = stored
  BY Zenon DEF AInv, TypesOfAudit, LoadOutcomes, Fail
<1>2. CASE OutcomesAreBad(OutcomeRows) /\ phase' = "failed" /\ error' = "outcomes"
  <2>1. TypesOfAudit'
    BY <1>1, <1>2 DEF TypesOfAudit, Phases
  <2>2. Replayed' /\ StoredRead' /\ StoredRejected'
    BY <1>1, <1>2, ReadStays
  <2> QED BY <1>2, <2>1, <2>2 DEF AInv, OutcomesRead, LinesWritten, VerdictIsOfLines
<1>3. CASE /\ ~OutcomesAreBad(OutcomeRows) /\ outcomes' = Kept(OutcomeRows)
           /\ phase' = "write" /\ error' = error
  <2>1. TypesOfAudit'
    BY <1>1, <1>3 DEF TypesOfAudit, Phases
  <2>2. Replayed' /\ StoredRead' /\ StoredRejected'
    BY <1>1, <1>3, ReadStays
  <2>3. OutcomesRead'
    BY <1>1, <1>3, OutcomesStay, Zenon DEF OutcomesRead
  <2> QED BY <1>1, <1>3, <2>1, <2>2, <2>3 DEF AInv, LinesWritten, VerdictIsOfLines
<1> QED BY <1>2, <1>3, Zenon DEF LoadOutcomes, Fail

LEMMA WriteKeepsAInv ==
  ASSUME AInv, Write
  PROVE  AInv'
<1>1. /\ events \in Feeds /\ args \in Invocations /\ phase = "write" /\ error = "none"
      /\ events' = events /\ args' = args /\ log' = log /\ stored' = stored /\ outcomes' = outcomes
  BY Zenon DEF AInv, TypesOfAudit, Write, Fail
<1>2. \/ phase' = "failed" /\ error' = "write"
      \/ phase' = "exit" /\ error' = error /\ written' = AuditLines
  BY Zenon DEF Write, Fail
<1>3. Replayed' /\ StoredRead' /\ StoredRejected'
  BY <1>1, <1>2, ReadStays
<1>4. TypesOfAudit'
  BY <1>1, <1>2 DEF TypesOfAudit, Phases
<1>5. OutcomesRead'
  <2>1. ~OutcomesAreBad(OutcomeRows) /\ outcomes = Kept(OutcomeRows)
    BY <1>1 DEF AInv, OutcomesRead
  <2> QED BY <1>1, <2>1, OutcomesStay, Zenon DEF OutcomesRead
<1>6. AuditLines' = AuditLines
  BY <1>1, VerdictStays
<1>7. LinesWritten'
  BY <1>1, <1>2, <1>6 DEF LinesWritten
<1>8. VerdictIsOfLines'
  BY <1>1, <1>2 DEF VerdictIsOfLines
<1> QED BY <1>3, <1>4, <1>5, <1>7, <1>8 DEF AInv

LEMMA ExitKeepsAInv ==
  ASSUME AInv, Exit
  PROVE  AInv'
<1>1. /\ events \in Feeds /\ args \in Invocations /\ phase = "exit" /\ error = "none"
      /\ events' = events /\ args' = args /\ log' = log /\ stored' = stored /\ outcomes' = outcomes
      /\ written' = written
  BY Zenon DEF AInv, TypesOfAudit, Exit, Fail
<1>2. \/ ~Passes /\ phase' = "failed" /\ error' = "audit"
      \/ Passes /\ phase' = "passed" /\ error' = error
  BY Zenon DEF Exit, Fail
<1>3. Replayed' /\ StoredRead' /\ StoredRejected'
  BY <1>1, <1>2, ReadStays
<1>4. TypesOfAudit'
  BY <1>1, <1>2 DEF TypesOfAudit, Phases
<1>5. OutcomesRead'
  <2>1. ~OutcomesAreBad(OutcomeRows) /\ outcomes = Kept(OutcomeRows)
    BY <1>1 DEF AInv, OutcomesRead
  <2> QED BY <1>1, <2>1, OutcomesStay, Zenon DEF OutcomesRead
<1>6. AuditLines' = AuditLines /\ (Passes' <=> Passes)
  BY <1>1, VerdictStays
<1>7. LinesWritten'
  BY <1>1, <1>6 DEF AInv, LinesWritten
<1>8. VerdictIsOfLines'
  BY <1>1, <1>2, <1>6 DEF VerdictIsOfLines
<1> QED BY <1>3, <1>4, <1>5, <1>7, <1>8 DEF AInv

LEMMA AInvStep == AInv /\ [Next]_vars => AInv'
<1> SUFFICES ASSUME AInv, [Next]_vars PROVE AInv'
  OBVIOUS
<1>1. ASSUME UNCHANGED vars
      PROVE  AInv'
  <2>1. /\ events' = events /\ args' = args /\ phase' = phase /\ error' = error /\ log' = log
        /\ stored' = stored /\ outcomes' = outcomes /\ written' = written
    BY <1>1 DEF vars
  <2>2. TypesOfAudit'
    BY <2>1 DEF AInv, TypesOfAudit, Phases
  <2>3. Replayed'
    BY <2>1, FileStays, Zenon DEF AInv, Replayed
  <2>4. StoredRead' /\ StoredRejected'
    BY <2>1, ProducersStay, Zenon DEF AInv, StoredRead, StoredRejected, StoredIsBad, Repeats, KeysOf
  <2>5. OutcomesRead'
    BY <2>1, OutcomesStay, Zenon DEF AInv, OutcomesRead
  <2>6. LinesWritten' /\ VerdictIsOfLines'
    BY <2>1, VerdictStays, Zenon DEF AInv, LinesWritten, VerdictIsOfLines
  <2> QED BY <2>2, <2>3, <2>4, <2>5, <2>6 DEF AInv
<1>2. CASE Returned
  BY <1>1, <1>2 DEF Returned
<1> QED BY <1>1, <1>2, ReplayKeepsAInv, StoredKeepsAInv, OutcomesKeepAInv, WriteKeepsAInv, ExitKeepsAInv,
           Zenon DEF Next

LEMMA AInvAlways == Spec => []AInv
BY AInvInit, AInvStep, PTL DEF Spec

-----------------------------------------------------------------------------
(***************************************************************************)
(* What the invariant says of a verdict.                                   *)
(***************************************************************************)
\* An audit that has read everything has read an accepted file.
LEMMA WhatIsRead ==
  ASSUME AInv, phase = "passed" \/ error = "audit"
  PROVE  /\ events \in Seq(Event) /\ Clean(events)
         /\ log = LogOf(events, "ReceivedTime") /\ IsList(log)
         /\ stored = StoredFile(args.producer)
         /\ stored # Absent => IsList(stored) /\ ~StoredIsBad(stored)
         /\ \A n \in DOMAIN outcomes : outcomes[n].return_bps # Absent
         /\ written = AuditLines
<1>1. ~Refused(events) /\ log = LogOf(events, "ReceivedTime")
  BY DEF AInv, Replayed
<1>2. events \in Seq(Event)
  BY AuditAssumption DEF AInv, TypesOfAudit
<1>3. Clean(events)
  BY <1>1, RefusedUnlessClean
<1>4. IsList(log)
  BY <1>1, <1>2, <1>3, LogAnswers DEF Answers
<1>5. stored = StoredFile(args.producer) /\ (stored # Absent => ~StoredIsBad(stored))
  BY DEF AInv, StoredRead
<1>6. stored # Absent => IsList(stored)
  BY <1>2, <1>3, <1>5, StoredIsList DEF AInv, TypesOfAudit
<1>7. \A n \in DOMAIN outcomes : outcomes[n].return_bps # Absent
  <2>1. ~OutcomesAreBad(OutcomeRows) /\ outcomes = Kept(OutcomeRows)
    BY DEF AInv, OutcomesRead
  <2> QED BY <2>1, KeptAreAttachable
<1>8. written = AuditLines
  BY DEF AInv, LinesWritten
<1> QED BY <1>1, <1>2, <1>3, <1>4, <1>5, <1>6, <1>7, <1>8

LEMMA AInvImpliesHonest == AInv => HonestProducerPasses
<1> SUFFICES ASSUME AInv, args.producer \in {"live", "replay"}, args.edit = "none"
             PROVE  error # "stored" /\ error # "audit"
  BY DEF HonestProducerPasses
<1>1. ASSUME error = "stored" PROVE FALSE
  <2>1. ~Refused(events) /\ StoredIsBad(StoredFile(args.producer))
    BY <1>1 DEF AInv, Replayed, StoredRejected
  <2>2. events \in Seq(Event) /\ Clean(events)
    BY <2>1, RefusedUnlessClean, AuditAssumption DEF AInv, TypesOfAudit
  <2> QED BY <2>1, <2>2, HonestIsRead
<1>2. ASSUME error = "audit" PROVE FALSE
  <2>1. ~Passes
    BY <1>2 DEF AInv, VerdictIsOfLines
  <2>2. /\ events \in Seq(Event) /\ Clean(events)
        /\ log = LogOf(events, "ReceivedTime") /\ stored = StoredFile(args.producer)
    BY <1>2, WhatIsRead
  <2> QED BY <2>1, <2>2, HonestPasses
<1> QED BY <1>1, <1>2

LEMMA AInvImpliesCertified == AInv => GreenCertifiesTheProducer
<1> SUFFICES ASSUME AInv, phase = "passed", stored # Absent PROVE Certifies
  BY Zenon DEF GreenCertifiesTheProducer, Certifies
<1>1. /\ events \in Seq(Event) /\ Clean(events)
      /\ log = LogOf(events, "ReceivedTime") /\ IsList(log)
      /\ IsList(stored) /\ ~StoredIsBad(stored)
  BY WhatIsRead
<1>2. Green
  BY <1>1, PassesIsGreen DEF AInv, VerdictIsOfLines
<1> QED BY <1>1, <1>2, GreenCertifies

LEMMA AInvImpliesAgreement == AInv => ExitAgreesWithLines
<1> SUFFICES ASSUME AInv, phase = "passed" \/ error = "audit" PROVE ExitAgreesWithLines
  BY DEF ExitAgreesWithLines
<1> DEFINE says ==
      /\ \A n \in DOMAIN written : written[n].causal /\ written[n].matched # FALSE
      /\ stored # Absent =>
           \A m \in DOMAIN stored : \E n \in DOMAIN written : written[n].key = stored[m].key
<1>1. /\ events \in Seq(Event) /\ Clean(events)
      /\ log = LogOf(events, "ReceivedTime") /\ IsList(log)
      /\ stored # Absent => IsList(stored)
      /\ \A n \in DOMAIN outcomes : outcomes[n].return_bps # Absent
      /\ written = AuditLines
  BY WhatIsRead
<1>2. Len(written) = Len(log) /\ (Green <=> says)
  BY <1>1, LinesSayTheVerdict
<1>3. Passes <=> Green
  BY <1>1, PassesIsGreen
<1>4. (phase = "passed") <=> Passes
  <2>1. phase = "passed" => error # "audit"
    BY DEF AInv, TypesOfAudit
  <2>2. (phase = "passed" => Passes) /\ (error = "audit" => ~Passes)
    BY DEF AInv, VerdictIsOfLines
  <2> QED BY <2>1, <2>2
<1>5. Summary.attached = Cardinality({ n \in DOMAIN written : written[n].outcome # Absent })
  BY <1>1, AttachedAreCarried
<1>6. (phase = "passed") = says
  BY <1>2, <1>3, <1>4
<1> QED BY <1>2, <1>5, <1>6, Zenon DEF ExitAgreesWithLines

-----------------------------------------------------------------------------
(***************************************************************************)
(* An audit of any file works on the replay of that file and on what the   *)
(* invocation names, and each error names the step that failed             *)
(* (main.rs, audit()).                                                     *)
(***************************************************************************)
THEOREM AuditInvariant == Spec => []AInv
BY AInvAlways

(***************************************************************************)
(* An honest producer is never accused: what it predicted live, from the   *)
(* rows received by then, is what the replay of any longer file certifies  *)
(* (main.rs:1296-1369).                                                    *)
(***************************************************************************)
THEOREM HonestProducersAreCleared == Spec => []HonestProducerPasses
BY AInvAlways, AInvImpliesHonest, PTL

(***************************************************************************)
(* A green audit certifies the producer: a line for each prediction and no *)
(* other, and recipes of rows received before their prediction only        *)
(* (docs/audit-artifacts.md:132-138; main.rs:1167-1172, 1281-1294).        *)
(***************************************************************************)
THEOREM GreenAuditsCertify == Spec => []GreenCertifiesTheProducer
BY AInvAlways, AInvImpliesCertified, PTL

(***************************************************************************)
(* The exit status and the summary, which are counted apart, say what the  *)
(* written lines say (main.rs:113-152, 1228-1369).                         *)
(***************************************************************************)
THEOREM ExitSaysWhatLinesSay == Spec => []ExitAgreesWithLines
BY AInvAlways, AInvImpliesAgreement, PTL
=============================================================================
