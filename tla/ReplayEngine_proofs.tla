------------------------- MODULE ReplayEngine_proofs -------------------------
(***************************************************************************)
(* Replay never looks ahead: the inductive invariant of the engine.  And   *)
(* every replay is the one AsOfReplay promises.                            *)
(***************************************************************************)
EXTENDS ReplayProperties, SignalViews_proofs

CatalogFacts == INSTANCE SymbolCatalog_proofs
                  WITH Labels <- Symbols, LabelHash <- SymbolIdOf, answer <- status

-----------------------------------------------------------------------------
\* What SymbolCatalog_proofs says of the catalog of a replay.
LEMMA InternKeepsSound ==
  ASSUME NEW c, CatalogFacts!Sound(c), NEW label \in Symbols, NEW id \in Nat
  PROVE  /\ CatalogFacts!Sound(Catalog!Interned(c, label, id))
         /\ \A l \in DOMAIN c.slots_by_label :
              l \in DOMAIN Catalog!Interned(c, label, id).slots_by_label
         /\ Catalog!InternResult(c, label, id) = "ok" =>
              Catalog!Knows(Catalog!Interned(c, label, id), label)
<1>1. SymbolIdOf \in [Symbols -> Nat]
  BY EventsAssumption
<1>2. Catalog!Interned(c, label, id) = CatalogFacts!Interned(c, label, id)
  BY DEF Catalog!Interned, CatalogFacts!Interned, Catalog!Knows, CatalogFacts!Knows,
         Catalog!InternResult, CatalogFacts!InternResult, Catalog!Extend, CatalogFacts!Extend
<1>3. Catalog!InternResult(c, label, id) = CatalogFacts!InternResult(c, label, id)
  BY DEF Catalog!Knows, CatalogFacts!Knows, Catalog!InternResult, CatalogFacts!InternResult
<1> QED BY <1>1, <1>2, <1>3, CatalogFacts!InternedSound DEF Catalog!Knows, CatalogFacts!Knows

-----------------------------------------------------------------------------
\* Validation accepts only files whose rows differ pairwise.
Unlike(e, f) == e.id # f.id /\ EventKey(e) # EventKey(f) /\ ~SamePosition(e, f)

Unambiguous(events) == \A i, j \in DOMAIN events : i # j => Unlike(events[i], events[j])

LEMMA AcceptedFileIsUnambiguous ==
  ASSUME NEW events \in Seq(Event), FirstIdentityError(events) = "ok"
  PROVE  Unambiguous(events)
<1> DEFINE bad == { n \in DOMAIN events : IdentityError(events, n) # "ok" }
<1>1. bad = {}
  <2> SUFFICES ASSUME bad # {} PROVE FALSE
    OBVIOUS
  <2>1. \A n \in bad : n \in Nat
    OBVIOUS
  <2>2. FirstIdentityError(events)
          = IdentityError(events, CHOOSE n \in bad : \A m \in bad : n <= m)
    BY Zenon DEF FirstIdentityError
  <2>3. \A n \in bad : IdentityError(events, n) # "ok"
    BY Zenon
  <2> HIDE DEF bad
  <2>4. \E n \in bad : \A m \in bad : n <= m
    BY <2>1, LeastNatural
  <2>5. (CHOOSE n \in bad : \A m \in bad : n <= m) \in bad
    BY <2>4, Zenon
  <2> QED BY <2>2, <2>3, <2>5, Zenon
<1>2. ASSUME NEW n \in DOMAIN events, NEW m \in 1..(n - 1)
      PROVE  Unlike(events[m], events[n])
  <2>1. IdentityError(events, n) = "ok"
    BY <1>1, Zenon
  <2> QED BY <2>1, Zenon DEF IdentityError, Unlike
<1>3. \A i, j \in DOMAIN events : i < j => Unlike(events[i], events[j])
  BY <1>2
<1>4. \A e, f : Unlike(e, f) => Unlike(f, e)
  BY Zenon DEF Unlike, SamePosition
<1>5. \A i, j \in DOMAIN events : i # j => i < j \/ j < i
  OBVIOUS
<1> QED BY <1>3, <1>4, <1>5, Zenon DEF Unambiguous

\* The order of the keys of events with different ids is total and strict.
LEMMA OrderKeysAreOrdered ==
  ASSUME NEW o
  PROVE  /\ \A e \in Event : ~Precedes(OrderKey(o, e), OrderKey(o, e))
         /\ \A e, f, g \in Event :
              Precedes(OrderKey(o, e), OrderKey(o, f)) /\ Precedes(OrderKey(o, f), OrderKey(o, g))
              => Precedes(OrderKey(o, e), OrderKey(o, g))
         /\ \A e, f \in Event : e.id # f.id =>
              \/ Precedes(OrderKey(o, e), OrderKey(o, f))
              \/ Precedes(OrderKey(o, f), OrderKey(o, e))
<1>1. \A e \in Event : e.received_time \in Nat /\ e.observed_time \in Nat
                       /\ e.seq \in Nat /\ e.id \in Nat
  BY EventsAssumption DEF Event
<1>2. CASE o = "ReceivedTime"
  BY <1>1, <1>2 DEF OrderKey, ReplayKey, Precedes
<1>3. CASE o # "ReceivedTime"
  BY <1>1, <1>3 DEF OrderKey, ObservedKey, Precedes
<1> QED BY <1>2, <1>3

\* The sorted copy is a rearrangement in which the keys increase.
LEMMA SortedIsSorted ==
  ASSUME NEW events \in Seq(Event), Unambiguous(events), NEW o
  PROVE  /\ Sorted(events, o) \in Seq(Event)
         /\ Len(Sorted(events, o)) = Len(events)
         /\ \A n \in DOMAIN events : \E i \in DOMAIN events : Sorted(events, o)[n] = events[i]
         /\ \A i \in DOMAIN events : \E n \in DOMAIN events : Sorted(events, o)[n] = events[i]
         /\ \A m, n \in DOMAIN events : m < n =>
              Precedes(OrderKey(o, Sorted(events, o)[m]), OrderKey(o, Sorted(events, o)[n]))
<1> DEFINE N == Len(events)
           Before(i, j) == Precedes(OrderKey(o, events[i]), OrderKey(o, events[j]))
           B(i) == SortedBefore(events, o, i)
           c == [i \in 1..N |-> Cardinality(B(i))]
           at(n) == CHOOSE i \in DOMAIN events : Cardinality(B(i)) = n - 1
<1>1. N \in Nat /\ DOMAIN events = 1..N /\ \A i \in 1..N : events[i] \in Event
  OBVIOUS
<1>d. \A i, j \in 1..N : i # j => events[i].id # events[j].id
  BY <1>1 DEF Unambiguous, Unlike
<1>irr. \A i \in 1..N : ~Before(i, i)
  BY <1>1, OrderKeysAreOrdered, Zenon
<1>trans. \A i, j, k \in 1..N : Before(i, j) /\ Before(j, k) => Before(i, k)
  BY <1>1, OrderKeysAreOrdered, Zenon
<1>total. \A i, j \in 1..N : i # j => Before(i, j) \/ Before(j, i)
  BY <1>1, <1>d, OrderKeysAreOrdered, Zenon
<1>3. \A i \in 1..N : \A j : j \in B(i) <=> j \in 1..N /\ Before(j, i)
  BY <1>1, Zenon DEF SortedBefore
<1> HIDE DEF N, Before, B
<1>4. IsFiniteSet(1..N) /\ Cardinality(1..N) = N /\ IsFiniteSet(0..(N - 1))
      /\ Cardinality(0..(N - 1)) = N
  BY <1>1, FS_Interval
<1>5. ASSUME NEW i \in 1..N
      PROVE  IsFiniteSet(B(i)) /\ Cardinality(B(i)) \in 0..(N - 1)
  <2>1. B(i) \in SUBSET (1..N) /\ i \notin B(i)
    BY <1>irr, <1>3, Zenon
  <2>2. IsFiniteSet(B(i)) /\ Cardinality(B(i)) <= N /\ Cardinality(B(i)) \in Nat
    BY <2>1, <1>4, FS_Subset, FS_CardinalityType
  <2>3. Cardinality(B(i)) # N
    BY <2>1, <1>4, FS_Subset
  <2> QED BY <2>2, <2>3, <1>1
<1>6. ASSUME NEW i \in 1..N, NEW j \in 1..N, Before(i, j)
      PROVE  Cardinality(B(i)) < Cardinality(B(j))
  <2>1. B(i) \in SUBSET B(j) /\ i \in B(j) /\ i \notin B(i)
    BY <1>irr, <1>trans, <1>3, <1>6, Zenon
  <2>2. Cardinality(B(i)) <= Cardinality(B(j)) /\ Cardinality(B(i)) # Cardinality(B(j))
    BY <2>1, <1>5, FS_Subset
  <2> QED BY <2>2, <1>5, <1>1
<1>7. c \in Injection(1..N, 0..(N - 1))
  <2>1. c \in [1..N -> 0..(N - 1)]
    BY <1>5, Zenon
  <2>2. ASSUME NEW i \in 1..N, NEW j \in 1..N, i # j
        PROVE  Cardinality(B(i)) # Cardinality(B(j))
    <3>1. Cardinality(B(i)) \in Nat /\ Cardinality(B(j)) \in Nat
      BY <1>5, <1>1
    <3> QED BY <3>1, <2>2, <1>total, <1>6
  <2> QED BY <2>1, <2>2 DEF Injection, IsInjective
<1>8. \A n \in 1..N : \E i \in 1..N : Cardinality(B(i)) = n - 1
  <2>1. c \in Surjection(1..N, 0..(N - 1))
    BY <1>4, <1>7, FS_Injection
  <2>2. \A k \in 0..(N - 1) : \E i \in 1..N : c[i] = k
    BY <2>1, Zenon DEF Surjection
  <2>3. \A n \in 1..N : n - 1 \in 0..(N - 1)
    BY <1>1
  <2> QED BY <2>2, <2>3, Zenon
<1>9. \A n \in 1..N : at(n) \in 1..N /\ Cardinality(B(at(n))) = n - 1
  BY <1>1, <1>8, Zenon
<1>10. \A n \in 1..N : Sorted(events, o)[n] = events[at(n)]
  BY <1>1, Zenon DEF Sorted, B
<1>11. Sorted(events, o) = [n \in 1..N |-> events[at(n)]]
  BY <1>1, Zenon DEF Sorted, B
<1> HIDE DEF at, c
<1>12. Sorted(events, o) \in [1..N -> Event]
  BY <1>1, <1>9, <1>11, Zenon
<1>13. Sorted(events, o) \in Seq(Event) /\ Len(Sorted(events, o)) = N
  BY <1>1, <1>12
<1>14. \A i \in 1..N : \E n \in 1..N : at(n) = i
  <2> TAKE i \in 1..N
  <2>1. Cardinality(B(i)) + 1 \in 1..N /\ (Cardinality(B(i)) + 1) - 1 = Cardinality(B(i))
    BY <1>5, <1>1
  <2>2. Cardinality(B(at(Cardinality(B(i)) + 1))) = Cardinality(B(i))
        /\ at(Cardinality(B(i)) + 1) \in 1..N
    BY <2>1, <1>9
  <2>3. at(Cardinality(B(i)) + 1) = i
    <3>1. \A j \in 1..N : Cardinality(B(j)) = Cardinality(B(i)) => j = i
      <4> SUFFICES ASSUME NEW j \in 1..N, Cardinality(B(j)) = Cardinality(B(i)), j # i
                   PROVE  FALSE
        OBVIOUS
      <4>1. Cardinality(B(i)) \in Nat
        BY <1>5, <1>1
      <4> QED BY <4>1, <1>total, <1>6
    <3> QED BY <3>1, <2>2
  <2> QED BY <2>1, <2>3
<1>15. ASSUME NEW m \in 1..N, NEW n \in 1..N, m < n
       PROVE  Before(at(m), at(n))
  <2>1. Cardinality(B(at(m))) < Cardinality(B(at(n)))
    BY <1>9, <1>15, <1>1
  <2>2. at(m) \in 1..N /\ at(n) \in 1..N
    BY <1>9
  <2>3. CASE at(m) = at(n)
    BY <2>1, <2>3, <2>2, <1>5, <1>1
  <2>4. CASE Before(at(n), at(m))
    <3>1. Cardinality(B(at(n))) < Cardinality(B(at(m)))
      BY <2>2, <2>4, <1>6
    <3> QED BY <3>1, <2>1, <2>2, <1>5, <1>1
  <2> QED BY <2>2, <2>3, <2>4, <1>total
<1>16. Len(Sorted(events, o)) = Len(events)
  BY <1>13 DEF N
<1>17. \A m, n \in 1..N : m < n =>
         Precedes(OrderKey(o, Sorted(events, o)[m]), OrderKey(o, Sorted(events, o)[n]))
  BY <1>10, <1>15, Zenon DEF Before
<1>18. \A n \in 1..N : \E i \in 1..N : Sorted(events, o)[n] = events[i]
  BY <1>9, <1>10, Zenon
<1>19. \A i \in 1..N : \E n \in 1..N : Sorted(events, o)[n] = events[i]
  BY <1>10, <1>14, Zenon
<1>20. 1..N = DOMAIN events
  BY <1>1
<1> HIDE DEF N
<1> QED BY <1>13, <1>16, <1>17, <1>18, <1>19, <1>20, Zenon

-----------------------------------------------------------------------------
(***************************************************************************)
(* The inductive invariant.  NoLookahead alone is not inductive: that an   *)
(* input was received before the prediction follows from where both stand  *)
(* in the sorted copy, which follows from what every history slot holds.   *)
(***************************************************************************)
\* What each phase has and has not done.
ByPhase ==
  /\ phase \in {"validate", "sort"} => ordered = <<>> /\ next = 1
  /\ phase \in {"validate", "sort", "intern"} => log = <<>> /\ recent = <<>>
  /\ phase \in {"sort", "intern", "replay", "done"} \/ log # <<>> => Unambiguous(file)

\* The sorted copy holds rows of the file, in the order of their keys.
Arranged ==
  /\ \A p \in DOMAIN ordered : \E i \in DOMAIN file : ordered[p] = file[i]
  /\ \A p, q \in DOMAIN ordered :
       p < q => Precedes(OrderKey(order, ordered[p]), OrderKey(order, ordered[q]))

\* Interning keeps the catalog sound and knows the symbols it has walked over.
Known(p) == Catalog!Knows(catalog, ordered[p].symbol)

Interning ==
  /\ CatalogFacts!Sound(catalog)
  /\ phase = "intern" => \A p \in 1..(next - 1) : Known(p)
  /\ phase = "replay" => /\ \A p \in DOMAIN ordered : Known(p)
                         /\ Len(recent) = Len(catalog.labels_by_slot)

\* Histories are bounded.
Bounded == \A slot \in DOMAIN recent : Len(recent[slot]) <= MaxInputs

\* Every record answers a prediction replayed before, from features before it.
CitesFrom(inputs, p) ==
  \A k \in DOMAIN inputs : \E q \in 1..(p - 1) :
    /\ inputs[k] = EventKey(ordered[q])
    /\ UpdatesSignalState(ordered[q])
    /\ ordered[q].symbol = ordered[p].symbol

Answers(r, p) == r.key = EventKey(ordered[p]) /\ CitesFrom(r.inputs, p)

Provenance == \A n \in DOMAIN log : \E p \in 1..(next - 1) : Answers(log[n], p)

IInv ==
  /\ TypeOK
  /\ ByPhase
  /\ Arranged
  /\ Interning
  /\ Bounded
  /\ HistoryIsNewestFeatures
  /\ Provenance

LEMMA InitIInv == Init => IInv
<1> SUFFICES ASSUME Init PROVE IInv
  OBVIOUS
<1> USE DEF Init
<1>1. TypeOK
  BY ReplayAssumption DEF TypeOK, Phases
<1>2. ByPhase /\ Arranged /\ Bounded /\ Provenance
  BY DEF ByPhase, Arranged, Bounded, Provenance
<1>3. Interning
  <2>1. CatalogFacts!Sound(Catalog!Empty)
    BY EventsAssumption, CatalogFacts!EmptySound DEF Catalog!Empty, CatalogFacts!Empty
  <2> QED BY <2>1 DEF Interning
<1>4. HistoryIsNewestFeatures
  BY DEF HistoryIsNewestFeatures
<1> QED BY <1>1, <1>2, <1>3, <1>4 DEF IInv

-----------------------------------------------------------------------------
(***************************************************************************)
(* The steps, one lemma for each action.                                   *)
(***************************************************************************)
\* A step that touches neither the sorted copy nor what was made of it.
LEMMA QuietStep ==
  ASSUME IInv, TypeOK', ByPhase', phase' # "intern", phase' = "replay" => phase = "replay",
         UNCHANGED <<file, order, ordered, catalog, recent, log, next>>
  PROVE  IInv'
<1>1. Arranged' /\ Bounded'
  BY DEF IInv, Arranged, Bounded
<1>2. Interning'
  BY DEF IInv, Interning, Known
<1>3. HistoryIsNewestFeatures'
  BY DEF IInv, HistoryIsNewestFeatures, HoldsNewest, FeatureOf
<1>4. Provenance'
  BY DEF IInv, Provenance, Answers, CitesFrom
<1> QED BY <1>1, <1>2, <1>3, <1>4 DEF IInv

LEMMA ValidateStep == IInv /\ Validate => IInv'
<1> SUFFICES ASSUME IInv, Validate PROVE IInv'
  OBVIOUS
<1>1. status' \in {"ok", "DuplicateEventId", "EventKeyCollision", "DuplicateReceivedSequenceNumber"}
  <2>1. status' = FirstIdentityError(file)
    BY DEF Validate
  <2>2. \A n : IdentityError(file, n) \in {"ok", "DuplicateEventId", "EventKeyCollision",
                                          "DuplicateReceivedSequenceNumber"}
    BY Zenon DEF IdentityError
  <2>3. status' = "ok" \/ \E n : status' = IdentityError(file, n)
    BY <2>1, Zenon DEF FirstIdentityError
  <2> QED BY <2>2, <2>3
<1>2. TypeOK'
  BY <1>1 DEF IInv, TypeOK, Validate, call, Phases
<1>3. ByPhase'
  <2>1. phase' = "sort" => Unambiguous(file)
    BY AcceptedFileIsUnambiguous DEF IInv, TypeOK, Validate
  <2>2. Unambiguous(file)' <=> Unambiguous(file)
    BY Zenon DEF Validate, call, Unambiguous
  <2> QED BY <2>1, <2>2 DEF IInv, ByPhase, Validate, call
<1> QED BY <1>2, <1>3, QuietStep DEF Validate, call

LEMMA SortStep == IInv /\ Sort => IInv'
<1> SUFFICES ASSUME IInv, Sort PROVE IInv'
  OBVIOUS
<1>1. /\ phase = "sort" /\ phase' = "intern" /\ ordered' = Sorted(file, order)
      /\ UNCHANGED <<file, order, outcomes_on, status, next, catalog, recent, log, outcomes_seen>>
  BY DEF Sort, call
<1>2. file \in Seq(Event) /\ Unambiguous(file) /\ next = 1 /\ log = <<>> /\ recent = <<>>
  BY <1>1 DEF IInv, TypeOK, ByPhase
<1>3. /\ ordered' \in Seq(Event)
      /\ Len(ordered') = Len(file)
      /\ \A n \in DOMAIN file : \E i \in DOMAIN file : ordered'[n] = file[i]
      /\ \A m, n \in DOMAIN file : m < n =>
           Precedes(OrderKey(order, ordered'[m]), OrderKey(order, ordered'[n]))
  BY <1>1, <1>2, SortedIsSorted
<1>4. TypeOK'
  BY <1>1, <1>2, <1>3 DEF IInv, TypeOK, Phases
<1>5. ByPhase' /\ Bounded' /\ Provenance' /\ HistoryIsNewestFeatures'
  <2>1. Unambiguous(file)'
    BY <1>1, <1>2, Zenon DEF Unambiguous
  <2> QED BY <1>1, <1>2, <2>1 DEF ByPhase, Bounded, Provenance, HistoryIsNewestFeatures
<1>6. Arranged'
  <2>1. DOMAIN ordered' = DOMAIN file
    BY <1>2, <1>3
  <2> QED BY <1>1, <1>3, <2>1, Zenon DEF Arranged
<1>7. Interning'
  BY <1>1, <1>2 DEF IInv, Interning
<1> QED BY <1>4, <1>5, <1>6, <1>7 DEF IInv

LEMMA InternStep == IInv /\ Intern => IInv'
<1> SUFFICES ASSUME IInv, Intern PROVE IInv'
  OBVIOUS
<1> DEFINE label == ordered[next].symbol
           id == SymbolIdOf[label]
<1>1. /\ phase = "intern" /\ next \in DOMAIN ordered
      /\ status' = Catalog!InternResult(catalog, label, id)
      /\ catalog' = Catalog!Interned(catalog, label, id)
      /\ \/ status' = "ok" /\ next' = next + 1 /\ phase' = "intern"
         \/ status' # "ok" /\ next' = next /\ phase' = "failed"
      /\ UNCHANGED <<file, order, outcomes_on, ordered, recent, log, outcomes_seen>>
  BY DEF Intern, Catalog!Intern, call, IInv, TypeOK
<1>2. ordered[next] \in Event
  BY <1>1 DEF IInv, TypeOK
<1>3. label \in Symbols /\ id \in Nat
  BY <1>2, EventsAssumption DEF Event
<1>4. log = <<>> /\ recent = <<>>
  BY <1>1 DEF IInv, ByPhase
<1> HIDE DEF label, id
<1>5. /\ CatalogFacts!Sound(catalog')
      /\ \A l \in DOMAIN catalog.slots_by_label : l \in DOMAIN catalog'.slots_by_label
      /\ status' = "ok" => Catalog!Knows(catalog', label)
  <2>1. CatalogFacts!Sound(catalog)
    BY DEF IInv, Interning
  <2> QED BY <1>1, <1>3, <2>1, InternKeepsSound
<1>6. TypeOK'
  <2>1. status' \in {"ok", "SymbolIdentityMismatch", "SymbolIdCollision"}
    BY <1>1, Zenon DEF Catalog!InternResult
  <2> QED BY <1>1, <2>1 DEF IInv, TypeOK, Phases
<1>7. ByPhase' /\ Bounded' /\ Provenance' /\ HistoryIsNewestFeatures'
  <2>1. Unambiguous(file)'
    BY <1>1, Zenon DEF IInv, ByPhase, Unambiguous
  <2> QED BY <1>1, <1>4, <2>1 DEF ByPhase, Bounded, Provenance, HistoryIsNewestFeatures
<1>8. Arranged'
  BY <1>1, Zenon DEF IInv, Arranged
<1>9. Interning'
  <2>1. CASE status' = "ok"
    <3>1. \A p \in 1..(next - 1) : Catalog!Knows(catalog', ordered'[p].symbol)
      BY <1>1, <1>5, Zenon DEF IInv, Interning, Known, Catalog!Knows
    <3>2. Catalog!Knows(catalog', ordered'[next].symbol)
      BY <1>1, <1>5, <2>1 DEF label
    <3>3. \A p \in 1..(next' - 1) : p \in 1..(next - 1) \/ p = next
      BY <1>1, <2>1 DEF IInv, TypeOK
    <3>4. \A p \in 1..(next' - 1) : Known(p)'
      BY <3>1, <3>2, <3>3, Zenon DEF Known
    <3> HIDE DEF Known
    <3> QED BY <1>1, <1>5, <2>1, <3>4 DEF Interning
  <2>2. CASE status' # "ok"
    BY <1>1, <1>5, <2>2 DEF Interning
  <2> QED BY <2>1, <2>2
<1> QED BY <1>6, <1>7, <1>8, <1>9 DEF IInv

LEMMA StartReplayStep == IInv /\ StartReplay => IInv'
<1> SUFFICES ASSUME IInv, StartReplay PROVE IInv'
  OBVIOUS
<1> DEFINE slots == 1..Len(catalog.labels_by_slot)
<1>1. /\ phase = "intern" /\ next > Len(ordered) /\ phase' = "replay" /\ next' = 1
      /\ recent' = [slot \in slots |-> <<>>]
      /\ UNCHANGED <<file, order, outcomes_on, status, ordered, catalog, log, outcomes_seen>>
  BY DEF StartReplay, call
<1>2. log = <<>> /\ Unambiguous(file)
  BY <1>1 DEF IInv, ByPhase
<1>3. Len(catalog.labels_by_slot) \in Nat
  BY DEF IInv, Interning, CatalogFacts!Sound, CatalogFacts!CatalogType
<1>4. /\ recent' \in Seq(Seq(Observation))
      /\ Len(recent') = Len(catalog.labels_by_slot)
      /\ DOMAIN recent' = slots
      /\ \A slot \in slots : recent'[slot] = <<>>
  BY <1>1, <1>3
<1>5. TypeOK'
  BY <1>1, <1>4 DEF IInv, TypeOK, Phases
<1>6. ByPhase' /\ Provenance'
  <2>1. Unambiguous(file)'
    BY <1>1, <1>2, Zenon DEF Unambiguous
  <2> QED BY <1>1, <1>2, <2>1 DEF ByPhase, Provenance
<1>7. Bounded'
  BY <1>4, InputsAssumption DEF Bounded
<1>8. Arranged'
  BY <1>1, Zenon DEF IInv, Arranged
<1>9. Interning'
  <2>1. \A p \in DOMAIN ordered : p \in 1..(next - 1)
    BY <1>1 DEF IInv, TypeOK
  <2>2. \A p \in DOMAIN ordered : Known(p)'
    BY <1>1, <2>1, Zenon DEF IInv, Interning, Known
  <2> HIDE DEF Known
  <2> QED BY <1>1, <1>4, <2>2 DEF IInv, Interning
<1>10. HistoryIsNewestFeatures'
  <2> SUFFICES ASSUME NEW slot \in DOMAIN recent'
               PROVE  \E at \in [1..Len(recent'[slot]) -> 1..(next' - 1)] : HoldsNewest(slot, at)'
    BY Zenon DEF HistoryIsNewestFeatures
  <2>1. recent'[slot] = <<>> /\ Len(recent'[slot]) = 0
    BY <1>4
  <2> DEFINE at == [i \in 1..0 |-> i]
  <2>2. at \in [1..Len(recent'[slot]) -> 1..(next' - 1)]
    BY <2>1
  <2>3. HoldsNewest(slot, at)'
    BY <1>1, <2>1 DEF HoldsNewest
  <2> QED BY <2>2, <2>3
<1> QED BY <1>5, <1>6, <1>7, <1>8, <1>9, <1>10 DEF IInv

LEMMA ClosingSteps == IInv /\ (RejectPayload \/ Finish \/ Returned) => IInv'
<1> SUFFICES ASSUME IInv, RejectPayload \/ Finish \/ Returned PROVE IInv'
  OBVIOUS
<1>1. UNCHANGED <<file, order, outcomes_on, ordered, catalog, recent, log, next, outcomes_seen>>
  BY DEF RejectPayload, Finish, Returned, call, vars
<1>2. /\ phase \in {"replay", "done", "failed"} /\ phase' \in {"done", "failed"}
      /\ phase = "failed" => phase' = "failed"
      /\ status' = "PayloadError" \/ status' = status
  BY DEF RejectPayload, Finish, Returned, Replaying, vars
<1>3. TypeOK'
  BY <1>1, <1>2 DEF IInv, TypeOK, Phases
<1>4. ByPhase'
  <2>1. Unambiguous(file)' <=> Unambiguous(file)
    BY <1>1, Zenon DEF Unambiguous
  <2> QED BY <1>1, <1>2, <2>1 DEF IInv, ByPhase
<1> QED BY <1>1, <1>2, <1>3, <1>4, QuietStep

-----------------------------------------------------------------------------
\* A step of the loop that leaves the histories alone.
LEMMA LoopStepKeepsHistory ==
  ASSUME IInv, Replaying, ~UpdatesSignalState(Current), next' = next + 1,
         UNCHANGED <<ordered, catalog, recent>>
  PROVE  HistoryIsNewestFeatures'
<1> SUFFICES ASSUME NEW slot \in DOMAIN recent
             PROVE  \E at \in [1..Len(recent[slot]) -> 1..(next' - 1)] : HoldsNewest(slot, at)'
  BY Zenon DEF HistoryIsNewestFeatures
<1>1. PICK at \in [1..Len(recent[slot]) -> 1..(next - 1)] : HoldsNewest(slot, at)
  BY Zenon DEF IInv, HistoryIsNewestFeatures
<1>2. next \in Nat /\ \A p \in 1..(next' - 1) : p \in 1..(next - 1) \/ p = next
  BY DEF IInv, TypeOK
<1>3. at \in [1..Len(recent[slot]) -> 1..(next' - 1)]
  BY <1>2
<1>4. ~FeatureOf(ordered[next], slot)
  BY Zenon DEF FeatureOf, Current
<1>5. HoldsNewest(slot, at)'
  BY <1>1, <1>2, <1>4, Zenon DEF HoldsNewest, FeatureOf
<1> QED BY <1>3, <1>5, Zenon

\* A step of the loop that leaves the log alone.
LEMMA LoopStepKeepsProvenance ==
  ASSUME IInv, next' = next + 1, UNCHANGED <<ordered, log>>
  PROVE  Provenance'
<1>1. \A p \in 1..(next - 1) : p \in 1..(next' - 1)
  BY DEF IInv, TypeOK
<1> SUFFICES ASSUME NEW n \in DOMAIN log
             PROVE  \E p \in 1..(next' - 1) : Answers(log[n], p)'
  BY Zenon DEF Provenance
<1>2. PICK p \in 1..(next - 1) : Answers(log[n], p)
  BY Zenon DEF IInv, Provenance
<1>3. Answers(log[n], p)'
  BY <1>2, Zenon DEF Answers, CitesFrom
<1> QED BY <1>1, <1>2, <1>3, Zenon

LEMMA ObserveOutcomeStep == IInv /\ ObserveOutcome => IInv'
<1> SUFFICES ASSUME IInv, ObserveOutcome PROVE IInv'
  OBVIOUS
<1>1. /\ Replaying /\ next' = next + 1 /\ Current.role = "outcome"
      /\ outcomes_seen' \in {outcomes_seen, outcomes_seen + 1}
      /\ UNCHANGED <<file, order, outcomes_on, phase, status, ordered, catalog, recent, log>>
  BY DEF ObserveOutcome, call
<1>2. ~UpdatesSignalState(Current)
  BY <1>1 DEF UpdatesSignalState, FeatureRoles
<1>3. TypeOK'
  BY <1>1 DEF IInv, TypeOK, Replaying
<1>4. ByPhase' /\ Interning'
  <2>1. Unambiguous(file)' <=> Unambiguous(file)
    BY <1>1, Zenon DEF Unambiguous
  <2> QED BY <1>1, <2>1 DEF IInv, ByPhase, Interning, Known, Replaying
<1>5. Arranged' /\ Bounded'
  BY <1>1 DEF IInv, Arranged, Bounded
<1> QED BY <1>1, <1>2, <1>3, <1>4, <1>5, LoopStepKeepsHistory, LoopStepKeepsProvenance DEF IInv

\* The slot of the current event belongs to its symbol, and to no other.
LEMMA SlotOfCurrent ==
  ASSUME IInv, Replaying
  PROVE  /\ ordered[next] \in Event
         /\ SlotOf(Current) \in DOMAIN recent
         /\ \A slot \in DOMAIN recent :
              slot = SlotOf(Current) <=> catalog.labels_by_slot[slot] = Current.symbol
<1>1. next \in DOMAIN ordered /\ ordered[next] \in Event
  BY DEF IInv, TypeOK, Replaying
<1>2. Current.symbol \in DOMAIN catalog.slots_by_label
  BY <1>1, Zenon DEF IInv, Interning, Replaying, Known, Current, Catalog!Knows
<1>3. DOMAIN recent = 1..Len(catalog.labels_by_slot)
  BY DEF IInv, TypeOK, Interning, Replaying
<1>4. /\ DOMAIN catalog.slots_by_label
           = { catalog.labels_by_slot[s] : s \in 1..Len(catalog.labels_by_slot) }
      /\ \A s \in 1..Len(catalog.labels_by_slot) :
           catalog.slots_by_label[catalog.labels_by_slot[s]] = s
  BY Zenon DEF IInv, Interning, CatalogFacts!Sound, CatalogFacts!Consistent, CatalogFacts!Slots
<1>5. PICK s \in 1..Len(catalog.labels_by_slot) : catalog.labels_by_slot[s] = Current.symbol
  BY <1>2, <1>4, Zenon
<1>6. SlotOf(Current) = s
  BY <1>4, <1>5, Zenon DEF SlotOf
<1> QED BY <1>1, <1>3, <1>4, <1>5, <1>6, Zenon

LEMMA PredictStep == IInv /\ Predict => IInv'
<1> SUFFICES ASSUME IInv, Predict PROVE IInv'
  OBVIOUS
<1> DEFINE slot == SlotOf(Current)
           snapshot == Evaluate(recent[slot])
           r == RecordOf(Current, snapshot)
<1>1. /\ Replaying /\ next' = next + 1 /\ Current.role = "prediction" /\ log' = Append(log, r)
      /\ UNCHANGED <<file, order, outcomes_on, phase, status, ordered, catalog, recent,
                     outcomes_seen>>
  BY DEF Predict, call, IsPrediction
<1>2. ~UpdatesSignalState(Current)
  BY <1>1 DEF UpdatesSignalState, FeatureRoles
<1>3. /\ ordered[next] \in Event /\ slot \in DOMAIN recent
      /\ catalog.labels_by_slot[slot] = Current.symbol
  BY <1>1, SlotOfCurrent
<1>4. recent[slot] \in Seq(Observation)
  BY <1>3 DEF IInv, TypeOK
<1> HIDE DEF slot
<1>5. /\ snapshot \in Snapshot
      /\ \A k \in DOMAIN snapshot.inputs :
           \E i \in DOMAIN recent[slot] : snapshot.inputs[k] = recent[slot][i].key
  BY <1>4, EvaluateElements
<1> HIDE DEF snapshot
<1>6. r \in Record /\ r.inputs = snapshot.inputs /\ r.key = EventKey(Current)
  <2>1. Current.id \in EventIds /\ Current.received_time \in Nat /\ Current.seq \in Nat
        /\ Current.symbol \in Symbols
    BY <1>3 DEF Current, Event
  <2>2. EventKey(Current) \in Nat /\ SymbolIdOf[Current.symbol] \in Nat
    BY <2>1, EventsAssumption DEF EventKey
  <2> QED BY <1>5, <2>1, <2>2 DEF RecordOf, Record, Snapshot
<1>7. CitesFrom(r.inputs, next)
  <2> SUFFICES ASSUME NEW k \in DOMAIN snapshot.inputs
               PROVE  \E q \in 1..(next - 1) : /\ snapshot.inputs[k] = EventKey(ordered[q])
                                               /\ UpdatesSignalState(ordered[q])
                                               /\ ordered[q].symbol = ordered[next].symbol
    BY <1>6, Zenon DEF CitesFrom
  <2>1. PICK i \in DOMAIN recent[slot] : snapshot.inputs[k] = recent[slot][i].key
    BY <1>5
  <2>2. PICK at \in [1..Len(recent[slot]) -> 1..(next - 1)] : HoldsNewest(slot, at)
    BY <1>3, Zenon DEF IInv, HistoryIsNewestFeatures
  <2>3. i \in 1..Len(recent[slot])
    BY <2>1, <1>4
  <2>4. at[i] \in 1..(next - 1) /\ FeatureOf(ordered[at[i]], slot)
        /\ recent[slot][i] = ObservationOf(ordered[at[i]])
    BY <2>2, <2>3, Zenon DEF HoldsNewest
  <2>5. recent[slot][i].key = EventKey(ordered[at[i]])
    BY <2>4 DEF ObservationOf
  <2> QED BY <2>1, <2>4, <2>5, <1>3, Zenon DEF FeatureOf, Current
<1> HIDE DEF r
<1>8. Provenance'
  <2>1. log \in Seq(Record) /\ next \in Nat
    BY DEF IInv, TypeOK
  <2>2. \A n \in DOMAIN log : \E p \in 1..(next - 1) : Answers(log[n], p)
    BY Zenon DEF IInv, Provenance
  <2>3. Answers(r, next)
    BY <1>6, <1>7, Zenon DEF Answers, Current
  <2>4. \A n \in DOMAIN log' : \/ n \in DOMAIN log /\ log'[n] = log[n]
                              \/ log'[n] = r
    BY <1>1, <1>6, <2>1
  <2>5. next \in 1..next /\ \A p \in 1..(next - 1) : p \in 1..next
    BY <2>1 DEF IInv, TypeOK
  <2>6. next' - 1 = next
    BY <1>1, <2>1
  <2>7. \A n \in DOMAIN log' : \E p \in 1..next : Answers(log'[n], p)
    BY <2>2, <2>3, <2>4, <2>5, Zenon
  <2>8. \A n \in DOMAIN log' : \E p \in 1..(next' - 1) :
          /\ log'[n].key = EventKey(ordered'[p])
          /\ \A k \in DOMAIN log'[n].inputs : \E q \in 1..(p - 1) :
               /\ log'[n].inputs[k] = EventKey(ordered'[q])
               /\ UpdatesSignalState(ordered'[q])
               /\ ordered'[q].symbol = ordered'[p].symbol
    <3>1. ordered' = ordered
      BY <1>1
    <3> QED BY <3>1, <2>6, <2>7 DEF Answers, CitesFrom
  <2> QED BY <2>8, Zenon DEF Provenance, Answers, CitesFrom
<1>9. TypeOK'
  <2>1. log' \in Seq(Record)
    BY <1>1, <1>6 DEF IInv, TypeOK
  <2> QED BY <1>1, <2>1 DEF IInv, TypeOK, Replaying
<1>10. ByPhase' /\ Interning'
  <2>1. Unambiguous(file)' <=> Unambiguous(file)
    BY <1>1, Zenon DEF Unambiguous
  <2> QED BY <1>1, <2>1 DEF IInv, ByPhase, Interning, Known, Replaying
<1>11. Arranged' /\ Bounded'
  BY <1>1 DEF IInv, Arranged, Bounded
<1> QED BY <1>1, <1>2, <1>8, <1>9, <1>10, <1>11, LoopStepKeepsHistory DEF IInv

-----------------------------------------------------------------------------
\* Pushing the next feature keeps a history the newest features.
LEMMA PushKeepsNewest ==
  ASSUME NEW h \in Seq(Observation), Len(h) <= MaxInputs, NEW o \in Observation
  PROVE  /\ Push(h, o) \in Seq(Observation)
         /\ Len(Push(h, o)) <= MaxInputs
         /\ Len(h) < MaxInputs =>
              /\ Len(Push(h, o)) = Len(h) + 1
              /\ \A i \in 1..Len(h) : Push(h, o)[i] = h[i]
              /\ Push(h, o)[Len(h) + 1] = o
         /\ ~(Len(h) < MaxInputs) =>
              /\ Len(h) = MaxInputs
              /\ Len(Push(h, o)) = Len(h)
              /\ \A i \in 1..(Len(h) - 1) : Push(h, o)[i] = h[i + 1]
              /\ Push(h, o)[Len(h)] = o
<1>1. MaxInputs \in Nat /\ MaxInputs # 0 /\ Len(h) \in Nat
  BY InputsAssumption
<1>2. CASE Len(h) < MaxInputs
  BY <1>1, <1>2 DEF Push
<1>3. CASE ~(Len(h) < MaxInputs)
  <2>1. Len(h) = MaxInputs /\ h # <<>>
    BY <1>1, <1>3
  <2>2. /\ Tail(h) \in Seq(Observation) /\ Len(Tail(h)) = Len(h) - 1
        /\ \A i \in 1..(Len(h) - 1) : Tail(h)[i] = h[i + 1]
    BY <1>1, <2>1
  <2>3. Push(h, o) = Append(Tail(h), o)
    BY <1>3 DEF Push
  <2>4. /\ Append(Tail(h), o) \in Seq(Observation)
        /\ Len(Append(Tail(h), o)) = Len(h)
        /\ \A i \in 1..(Len(h) - 1) : Append(Tail(h), o)[i] = Tail(h)[i]
        /\ Append(Tail(h), o)[Len(h)] = o
    BY <1>1, <2>1, <2>2
  <2> QED BY <1>1, <2>1, <2>2, <2>3, <2>4
<1> QED BY <1>2, <1>3

\* Positions of a growing history: the next one is added at the end.
LEMMA PositionsExtended ==
  ASSUME NEW n \in Nat \ {0}, NEW m \in Nat, NEW at \in [1..m -> 1..(n - 1)],
         \A i, j \in 1..m : i < j => at[i] < at[j]
  PROVE  \E to \in [1..(m + 1) -> 1..n] :
           /\ \A i, j \in 1..(m + 1) : i < j => to[i] < to[j]
           /\ \A i \in 1..m : to[i] = at[i]
           /\ to[m + 1] = n
<1> DEFINE to == [i \in 1..(m + 1) |-> IF i = m + 1 THEN n ELSE at[i]]
<1>1. \A i \in 1..(m + 1) : i \in 1..m \/ i = m + 1
  OBVIOUS
<1>2. \A i \in 1..m : at[i] \in 1..n /\ at[i] < n /\ i \in 1..(m + 1) /\ i # m + 1
  OBVIOUS
<1>3. to[m + 1] = n /\ \A i \in 1..m : to[i] = at[i]
  BY <1>2
<1>4. \A i \in 1..(m + 1) : to[i] \in 1..n
  BY <1>1, <1>2, <1>3
<1>5. to \in [1..(m + 1) -> 1..n]
  <2>1. to = [i \in 1..(m + 1) |-> to[i]]
    BY Zenon
  <2> QED BY <1>4, <2>1, Zenon
<1> HIDE DEF to
<1>6. ASSUME NEW i \in 1..(m + 1), NEW j \in 1..(m + 1), i < j
      PROVE  to[i] < to[j]
  BY <1>1, <1>2, <1>3, <1>6
<1> QED BY <1>3, <1>5, <1>6

\* Positions of a full history: the first one goes as the next one comes.
Shifted(at, m, n) == [i \in 1..m |-> IF i = m THEN n ELSE at[i + 1]]

LEMMA PositionsShifted ==
  ASSUME NEW n \in Nat \ {0}, NEW m \in Nat \ {0}, NEW at \in [1..m -> 1..(n - 1)],
         \A i, j \in 1..m : i < j => at[i] < at[j]
  PROVE  /\ Shifted(at, m, n) \in [1..m -> 1..n]
         /\ \A i, j \in 1..m : i < j => Shifted(at, m, n)[i] < Shifted(at, m, n)[j]
         /\ \A i \in 1..(m - 1) : Shifted(at, m, n)[i] = at[i + 1]
         /\ Shifted(at, m, n)[m] = n
         /\ \A i \in 1..m : at[1] < Shifted(at, m, n)[i]
<1> DEFINE to == [i \in 1..m |-> IF i = m THEN n ELSE at[i + 1]]
<1>0. Shifted(at, m, n) = to
  BY DEF Shifted
<1>1. \A i \in 1..m : i \in 1..(m - 1) \/ i = m
  OBVIOUS
<1>2. \A i \in 1..(m - 1) : /\ at[i + 1] \in 1..n /\ at[i + 1] < n
                           /\ i \in 1..m /\ i # m /\ at[1] < at[i + 1]
  OBVIOUS
<1>3. to[m] = n /\ \A i \in 1..(m - 1) : to[i] = at[i + 1]
  BY <1>2
<1>4. \A i \in 1..m : to[i] \in 1..n /\ at[1] < to[i]
  <2>1. at[1] < n /\ n \in 1..n
    OBVIOUS
  <2> QED BY <1>1, <1>2, <1>3, <2>1
<1>5. to \in [1..m -> 1..n]
  <2>1. to = [i \in 1..m |-> to[i]]
    BY Zenon
  <2> QED BY <1>4, <2>1, Zenon
<1> HIDE DEF to
<1>6. ASSUME NEW i \in 1..m, NEW j \in 1..m, i < j
      PROVE  to[i] < to[j]
  <2>1. i \in 1..(m - 1) /\ to[i] = at[i + 1]
    BY <1>3, <1>6
  <2>2. CASE j = m
    BY <2>1, <2>2, <1>2, <1>3
  <2>3. CASE j # m
    <3>1. j \in 1..(m - 1) /\ to[j] = at[j + 1]
      BY <1>1, <1>3, <2>3
    <3>2. i + 1 \in 1..m /\ j + 1 \in 1..m /\ i + 1 < j + 1
      BY <2>1, <3>1, <1>6
    <3> QED BY <2>1, <3>1, <3>2
  <2> QED BY <2>2, <2>3
<1> QED BY <1>0, <1>3, <1>4, <1>5, <1>6

LEMMA ApplyFeatureStep == IInv /\ ApplyFeature => IInv'
<1> SUFFICES ASSUME IInv, ApplyFeature PROVE IInv'
  OBVIOUS
<1> DEFINE here == SlotOf(Current)
           o == ObservationOf(Current)
<1>1. /\ Replaying /\ UpdatesSignalState(Current) /\ PayloadOk(Current) /\ next' = next + 1
      /\ recent' = [recent EXCEPT ![here] = Push(@, o)]
      /\ UNCHANGED <<file, order, outcomes_on, phase, status, ordered, catalog, log, outcomes_seen>>
  BY DEF ApplyFeature, call
<1>2. /\ ordered[next] \in Event /\ here \in DOMAIN recent
      /\ \A slot \in DOMAIN recent :
           slot = here <=> catalog.labels_by_slot[slot] = Current.symbol
  BY <1>1, SlotOfCurrent
<1>3. o \in Observation
  <2>1. /\ Current.sentiment \in Sentiments \cup {Absent}
        /\ Current.score \in Scores \cup {Absent}
        /\ Current.id \in EventIds /\ Current.received_time \in Nat /\ Current.seq \in Nat
    BY <1>1, <1>2 DEF Current, Event, PayloadOk
  <2>2. EventKey(Current) \in Nat
    BY <2>1, EventsAssumption DEF EventKey
  <2> QED BY <2>1, <2>2 DEF ObservationOf, Observation
<1> HIDE DEF here, o
<1>4. /\ recent \in Seq(Seq(Observation)) /\ next \in Nat /\ next # 0
      /\ DOMAIN recent' = DOMAIN recent /\ Len(recent') = Len(recent)
      /\ recent'[here] = Push(recent[here], o)
      /\ \A slot \in DOMAIN recent : slot # here => recent'[slot] = recent[slot]
  BY <1>1, <1>2 DEF IInv, TypeOK
<1> DEFINE h == recent[here]
<1>5. h \in Seq(Observation) /\ Len(h) <= MaxInputs
  BY <1>2, <1>4 DEF IInv, Bounded
<1>6. /\ Push(h, o) \in Seq(Observation)
      /\ Len(Push(h, o)) <= MaxInputs
      /\ Len(h) < MaxInputs =>
           /\ Len(Push(h, o)) = Len(h) + 1
           /\ \A i \in 1..Len(h) : Push(h, o)[i] = h[i]
           /\ Push(h, o)[Len(h) + 1] = o
      /\ ~(Len(h) < MaxInputs) =>
           /\ Len(h) = MaxInputs
           /\ Len(Push(h, o)) = Len(h)
           /\ \A i \in 1..(Len(h) - 1) : Push(h, o)[i] = h[i + 1]
           /\ Push(h, o)[Len(h)] = o
  BY <1>3, <1>5, PushKeepsNewest
<1>7. TypeOK'
  <2>1. \A slot \in DOMAIN recent : recent'[slot] \in Seq(Observation)
    <3>1. \A slot \in DOMAIN recent : recent[slot] \in Seq(Observation)
      BY <1>4
    <3> QED BY <3>1, <1>4, <1>6
  <2>2. recent' \in Seq(Seq(Observation))
    <3>1. recent' \in [DOMAIN recent -> Seq(Observation)]
      BY <1>1, <1>2, <1>4, <1>6
    <3>2. DOMAIN recent = 1..Len(recent) /\ Len(recent) \in Nat
      BY <1>4
    <3> QED BY <3>1, <3>2, SeqDef
  <2> QED BY <1>1, <2>2 DEF IInv, TypeOK, Replaying
<1>8. ByPhase' /\ Interning'
  <2>1. Unambiguous(file)' <=> Unambiguous(file)
    BY <1>1, Zenon DEF Unambiguous
  <2>2. phase = "replay"
    BY <1>1 DEF Replaying
  <2> QED BY <1>1, <1>4, <2>1, <2>2 DEF IInv, ByPhase, Interning, Known
<1>9. Bounded'
  BY <1>4, <1>6 DEF IInv, Bounded
<1>10. Arranged'
  BY <1>1, Zenon DEF IInv, Arranged
<1>11. HistoryIsNewestFeatures'
  <2> SUFFICES ASSUME NEW slot \in DOMAIN recent
               PROVE  \E at \in [1..Len(recent'[slot]) -> 1..next] : HoldsNewest(slot, at)'
    BY <1>1, <1>4 DEF HistoryIsNewestFeatures
  <2>1. PICK at \in [1..Len(recent[slot]) -> 1..(next - 1)] : HoldsNewest(slot, at)
    BY Zenon DEF IInv, HistoryIsNewestFeatures
  <2>2. /\ \A i, j \in DOMAIN at : i < j => at[i] < at[j]
        /\ \A i \in DOMAIN at : /\ FeatureOf(ordered[at[i]], slot)
                                /\ recent[slot][i] = ObservationOf(ordered[at[i]])
        /\ \A p \in 1..(next - 1) :
             FeatureOf(ordered[p], slot) =>
               \/ \E i \in DOMAIN at : at[i] = p
               \/ Len(recent[slot]) = MaxInputs /\ \A i \in DOMAIN at : p < at[i]
    BY <2>1, Zenon DEF HoldsNewest
  <2>3. \A p \in 1..(next' - 1) : p \in 1..(next - 1) \/ p = next
    BY <1>1, <1>4
  <2>4. \A e : FeatureOf(e, slot)' <=> UpdatesSignalState(e) /\ e.symbol = catalog.labels_by_slot[slot]
    BY <1>1, Zenon DEF FeatureOf
  <2>5. CASE slot # here
    <3>1. at \in [1..Len(recent[slot]) -> 1..next]
      BY <2>1, <1>4
    <3>2. ~FeatureOf(ordered[next], slot)
      BY <1>2, <2>5, Zenon DEF FeatureOf, Current
    <3>3. HoldsNewest(slot, at)'
      BY <1>1, <1>4, <2>2, <2>3, <2>5, <3>2, Zenon DEF HoldsNewest, FeatureOf
    <3> QED BY <3>1, <3>3, <1>4, <2>5
  <2>f. \/ FeatureOf(ordered[next], slot) /\ o = ObservationOf(ordered[next])
        \/ slot # here
    BY <1>1, <1>2, Zenon DEF FeatureOf, Current, o
  <2>a. next \in Nat \ {0} /\ Len(recent[slot]) \in Nat /\ DOMAIN at = 1..Len(recent[slot])
    BY <1>4, <2>1 DEF IInv, TypeOK
  <2>6. CASE slot = here /\ Len(h) < MaxInputs
    <3> DEFINE m == Len(recent[slot])
    <3>1. /\ Len(recent'[slot]) = m + 1 /\ m # MaxInputs
          /\ \A i \in 1..m : recent'[slot][i] = recent[slot][i]
          /\ recent'[slot][m + 1] = ObservationOf(ordered[next])
          /\ FeatureOf(ordered[next], slot)
      BY <1>4, <1>6, <2>a, <2>f, <2>6, InputsAssumption
    <3>2. PICK to \in [1..(m + 1) -> 1..next] :
            /\ \A i, j \in 1..(m + 1) : i < j => to[i] < to[j]
            /\ \A i \in 1..m : to[i] = at[i]
            /\ to[m + 1] = next
      BY <2>1, <2>2, <2>a, PositionsExtended
    <3>3. \A i \in 1..(m + 1) : i \in 1..m \/ i = m + 1
      BY <2>a
    <3>4. \A i \in 1..m : i \in 1..(m + 1)
      BY <2>a
    <3>5. m + 1 \in 1..(m + 1)
      BY <2>a
    <3> HIDE DEF m
    <3>6. \A i \in 1..(m + 1) : /\ FeatureOf(ordered[to[i]], slot)
                               /\ recent'[slot][i] = ObservationOf(ordered[to[i]])
      BY <2>2, <2>a, <3>1, <3>2, <3>3, Zenon DEF m
    <3>7. \A p \in 1..(next' - 1) : FeatureOf(ordered[p], slot) => \E i \in 1..(m + 1) : to[i] = p
      BY <2>2, <2>3, <2>a, <3>1, <3>2, <3>4, <3>5, Zenon DEF m
    <3>8. DOMAIN to = 1..(m + 1) /\ ordered' = ordered
      BY <1>1, <3>2
    <3>9. HoldsNewest(slot, to)'
      BY <1>1, <3>2, <3>6, <3>7, <3>8, Zenon DEF HoldsNewest, FeatureOf
    <3> QED BY <3>1, <3>2, <3>9, Zenon DEF m
  <2>7. CASE slot = here /\ ~(Len(h) < MaxInputs)
    <3> DEFINE m == Len(recent[slot])
    <3>1. /\ Len(recent'[slot]) = m /\ m = MaxInputs /\ m # 0
          /\ \A i \in 1..(m - 1) : recent'[slot][i] = recent[slot][i + 1]
          /\ recent'[slot][m] = ObservationOf(ordered[next])
          /\ FeatureOf(ordered[next], slot)
      BY <1>4, <1>6, <2>a, <2>f, <2>7, InputsAssumption
    <3>s. PICK to : to = Shifted(at, m, next)
      OBVIOUS
    <3>2. /\ to \in [1..m -> 1..next]
          /\ \A i, j \in 1..m : i < j => to[i] < to[j]
          /\ \A i \in 1..(m - 1) : to[i] = at[i + 1]
          /\ to[m] = next
          /\ \A i \in 1..m : at[1] < to[i]
      <4>1. m \in Nat \ {0} /\ next \in Nat \ {0}
        BY <2>a, <3>1
      <4>2. at \in [1..m -> 1..(next - 1)] /\ \A i, j \in 1..m : i < j => at[i] < at[j]
        BY <2>1, <2>2, <2>a
      <4> HIDE DEF m
      <4>3. /\ Shifted(at, m, next) \in [1..m -> 1..next]
            /\ \A i, j \in 1..m : i < j => Shifted(at, m, next)[i] < Shifted(at, m, next)[j]
            /\ \A i \in 1..(m - 1) : Shifted(at, m, next)[i] = at[i + 1]
            /\ Shifted(at, m, next)[m] = next
            /\ \A i \in 1..m : at[1] < Shifted(at, m, next)[i]
        BY <4>1, <4>2, PositionsShifted
      <4> QED BY <3>s, <4>3, Zenon
    <3>3. \A i \in 1..m : (i \in 1..(m - 1) /\ i + 1 \in 1..m) \/ i = m
      BY <2>a
    <3>4. /\ \A i \in 1..m : i = 1 \/ \E j \in 1..(m - 1) : i = j + 1
          /\ \A j \in 1..(m - 1) : j \in 1..m
          /\ m \in 1..m /\ 1 \in 1..m
      <4>1. m \in Nat /\ m # 0
        BY <2>a, <3>1
      <4> HIDE DEF m
      <4>2. \A i \in 1..m : i # 1 => i - 1 \in 1..(m - 1) /\ i = (i - 1) + 1
        BY <4>1
      <4>3. \A i \in 1..m : i = 1 \/ \E j \in 1..(m - 1) : i = j + 1
        BY <4>2, Zenon
      <4>4. (\A j \in 1..(m - 1) : j \in 1..m) /\ m \in 1..m /\ 1 \in 1..m
        BY <4>1
      <4> QED BY <4>3, <4>4
    <3> HIDE DEF m
    <3>6. \A i \in 1..m : /\ FeatureOf(ordered[to[i]], slot)
                         /\ recent'[slot][i] = ObservationOf(ordered[to[i]])
      BY <2>2, <2>a, <3>1, <3>2, <3>3, Zenon DEF m
    <3>7. ASSUME NEW p \in 1..(next - 1), FeatureOf(ordered[p], slot)
          PROVE  (\E i \in 1..m : to[i] = p) \/ \A i \in 1..m : p < to[i]
      <4>1. CASE \E i \in 1..m : at[i] = p
        <5>1. PICK i \in 1..m : at[i] = p
          BY <4>1
        <5>2. CASE i = 1
          BY <3>2, <5>1, <5>2
        <5>3. CASE i # 1
          BY <3>2, <3>4, <5>1, <5>3, Zenon
        <5> QED BY <5>2, <5>3
      <4>2. CASE \A i \in 1..m : p < at[i]
        <5>1. p < at[1] /\ at[1] \in Nat
          BY <3>4, <4>2, <2>1, <2>a DEF m
        <5>2. \A i \in 1..m : to[i] \in Nat /\ at[1] < to[i]
          BY <3>2
        <5> QED BY <5>1, <5>2
      <4> QED BY <2>2, <2>a, <3>7, <4>1, <4>2, Zenon DEF m
    <3>8. \A p \in 1..(next' - 1) : FeatureOf(ordered[p], slot) =>
            (\E i \in 1..m : to[i] = p) \/ \A i \in 1..m : p < to[i]
      BY <2>3, <3>2, <3>4, <3>7, Zenon
    <3>9. DOMAIN to = 1..m /\ ordered' = ordered
      BY <1>1, <3>2
    <3>10. HoldsNewest(slot, to)'
      BY <1>1, <3>1, <3>2, <3>6, <3>8, <3>9, Zenon DEF HoldsNewest, FeatureOf
    <3> QED BY <3>1, <3>2, <3>10, Zenon DEF m
  <2> QED BY <2>5, <2>6, <2>7
<1>12. Provenance'
  BY <1>1, LoopStepKeepsProvenance
<1> QED BY <1>7, <1>8, <1>9, <1>10, <1>11, <1>12 DEF IInv

-----------------------------------------------------------------------------
LEMMA NextIInv == IInv /\ [Next]_vars => IInv'
<1> SUFFICES ASSUME IInv, [Next]_vars PROVE IInv'
  OBVIOUS
<1>1. CASE Validate
  BY <1>1, ValidateStep
<1>2. CASE Sort
  BY <1>2, SortStep
<1>3. CASE Intern
  BY <1>3, InternStep
<1>4. CASE StartReplay
  BY <1>4, StartReplayStep
<1>5. CASE ApplyFeature
  BY <1>5, ApplyFeatureStep
<1>6. CASE Predict
  BY <1>6, PredictStep
<1>7. CASE ObserveOutcome
  BY <1>7, ObserveOutcomeStep
<1>8. CASE RejectPayload \/ Finish \/ Returned
  BY <1>8, ClosingSteps
<1>9. CASE UNCHANGED vars
  <2>1. UNCHANGED <<file, order, outcomes_on, phase, status, ordered, next, catalog, recent,
                    log, outcomes_seen>>
    BY <1>9 DEF vars
  <2>2. TypeOK'
    BY <2>1 DEF IInv, TypeOK
  <2>3. ByPhase' /\ Interning'
    BY <2>1 DEF IInv, ByPhase, Unambiguous, Interning, Known
  <2>4. Arranged' /\ Bounded'
    BY <2>1 DEF IInv, Arranged, Bounded
  <2>5. HistoryIsNewestFeatures'
    BY <2>1 DEF IInv, HistoryIsNewestFeatures, HoldsNewest, FeatureOf
  <2>6. Provenance'
    BY <2>1 DEF IInv, Provenance, Answers, CitesFrom
  <2> QED BY <2>2, <2>3, <2>4, <2>5, <2>6 DEF IInv
<1> QED BY <1>1, <1>2, <1>3, <1>4, <1>5, <1>6, <1>7, <1>8, <1>9 DEF Next

LEMMA Invariance == Spec => []IInv
BY InitIInv, NextIInv, PTL DEF Spec

-----------------------------------------------------------------------------
\* The call keeps its types, for every file and every signal configuration
\* (replay.rs:68-153).
THEOREM TypeCorrectness == Spec => []TypeOK
<1>1. IInv => TypeOK
  BY DEF IInv
<1> QED BY <1>1, Invariance, PTL

\* A history slot holds exactly the newest features of its symbol, for every
\* capacity and every interleaving of symbols and roles (state.rs:41-50, 103-121).
THEOREM HistoryCorrectness == Spec => []HistoryIsNewestFeatures
<1>1. IInv => HistoryIsNewestFeatures
  BY DEF IInv
<1> QED BY <1>1, Invariance, PTL

\* No prediction of a received-time replay cites what came after it
\* (replay.rs:108-139).
LEMMA IInvImpliesNoLookahead == IInv => NoLookahead
<1> SUFFICES ASSUME IInv PROVE NoLookahead
  OBVIOUS
<1> SUFFICES ASSUME order = "ReceivedTime",
                    NEW n \in DOMAIN log, NEW k \in DOMAIN log[n].inputs,
                    NEW i \in DOMAIN file, NEW j \in DOMAIN file,
                    EventKey(file[i]) = log[n].inputs[k],
                    EventKey(file[j]) = log[n].key
             PROVE  /\ ReceivedBefore(file[i], file[j])
                    /\ UpdatesSignalState(file[i])
                    /\ file[i].symbol = file[j].symbol
  BY DEF NoLookahead
<1>1. PICK p \in 1..(next - 1) : Answers(log[n], p)
  BY Zenon DEF IInv, Provenance
<1>2. PICK q \in 1..(p - 1) : /\ log[n].inputs[k] = EventKey(ordered[q])
                             /\ UpdatesSignalState(ordered[q])
                             /\ ordered[q].symbol = ordered[p].symbol
  BY <1>1, Zenon DEF Answers, CitesFrom
<1>3. log[n].key = EventKey(ordered[p])
  BY <1>1, Zenon DEF Answers
<1>4. p \in DOMAIN ordered /\ q \in DOMAIN ordered /\ q < p
  BY <1>1, <1>2 DEF IInv, TypeOK
<1>5. Precedes(OrderKey(order, ordered[q]), OrderKey(order, ordered[p]))
  BY <1>4, Zenon DEF IInv, Arranged
<1>6. Unambiguous(file)
  <2>1. log # <<>>
    BY DEF IInv, TypeOK
  <2> QED BY <2>1, Zenon DEF IInv, ByPhase
<1>7. PICK b \in DOMAIN file : ordered[p] = file[b]
  BY <1>4, Zenon DEF IInv, Arranged
<1>8. PICK a \in DOMAIN file : ordered[q] = file[a]
  BY <1>4, Zenon DEF IInv, Arranged
<1>9. a = i /\ b = j
  BY <1>2, <1>3, <1>6, <1>7, <1>8, Zenon DEF Unambiguous, Unlike
<1> QED BY <1>2, <1>5, <1>7, <1>8, <1>9, Zenon DEF OrderKey, ReceivedBefore

THEOREM NeverLooksAhead == Spec => []NoLookahead
BY IInvImpliesNoLookahead, Invariance, PTL

-----------------------------------------------------------------------------
(***************************************************************************)
(* The engine keeps the as-of promise: every call of replay_with_order is  *)
(* a behaviour of AsOfReplay.                                              *)
(*                                                                         *)
(* The promise speaks of sets of rows and of the order between them, the   *)
(* engine of positions in the sorted copy and of a bounded history; the    *)
(* lemmas go from one to the other, the invariant says which record the    *)
(* log holds for which prediction.                                         *)
(***************************************************************************)

-----------------------------------------------------------------------------
(***************************************************************************)
(* The promise computes with its own copies of the operators of Events,    *)
(* SignalMath and SignalViews: they are the same.                          *)
(***************************************************************************)
LEMMA PromisedEvents ==
  /\ \A e : /\ Promise!EventKey(e) = EventKey(e)
            /\ Promise!UpdatesSignalState(e) <=> UpdatesSignalState(e)
            /\ Promise!IsPrediction(e) <=> IsPrediction(e)
            /\ Promise!PayloadOk(e) <=> PayloadOk(e)
  /\ \A e, f : /\ Promise!ReceivedBefore(e, f) <=> ReceivedBefore(e, f)
               /\ Promise!Before(e, f) <=> Precedes(OrderKey(order, e), OrderKey(order, f))
  /\ \A S : Promise!Cardinality(S) = Cardinality(S)
<1>1. \A e : /\ Promise!EventKey(e) = EventKey(e)
             /\ Promise!UpdatesSignalState(e) <=> UpdatesSignalState(e)
             /\ Promise!IsPrediction(e) <=> IsPrediction(e)
             /\ Promise!PayloadOk(e) <=> PayloadOk(e)
  BY Zenon DEF Promise!EventKey, EventKey, Promise!UpdatesSignalState, UpdatesSignalState,
     Promise!FeatureRoles, FeatureRoles, Promise!IsPrediction, IsPrediction,
     Promise!PayloadOk, PayloadOk
<1>2. \A e, f : Promise!ReceivedBefore(e, f) <=> ReceivedBefore(e, f)
  BY Zenon DEF Promise!ReceivedBefore, ReceivedBefore, Promise!Precedes, Precedes,
     Promise!ReplayKey, ReplayKey
<1>3. \A e, f : Promise!Before(e, f) <=> Precedes(OrderKey(order, e), OrderKey(order, f))
  BY Zenon DEF Promise!Before, Promise!Precedes, Promise!Key, Precedes, OrderKey,
     Promise!ReplayKey, ReplayKey, Promise!ObservedKey, ObservedKey
<1>4. \A S : Promise!Cardinality(S) = Cardinality(S)
  BY Zenon DEF Promise!Cardinality, Cardinality
<1> QED BY <1>1, <1>2, <1>3, <1>4

LEMMA PromisedArithmetic ==
  /\ \A s, t : Promise!ZScoreSignal(s, t) = ZScoreSignal(s, t)
  /\ \A s, f, w, m, d : Promise!MomentumSignal(s, f, w, m, d) = MomentumSignal(s, f, w, m, d)
<1>1. \A f : Promise!Total(f) = Total(f)
  BY Zenon DEF Promise!Total, Total
<1>2. \A x, y : /\ Promise!Signum(x) = Signum(x)
                /\ Promise!AbsoluteValue(x) = AbsoluteValue(x)
                /\ Promise!FitsWide(x) = FitsWide(x)
                /\ Promise!Clamped(x) = Clamped(x)
                /\ Promise!Larger(x, y) = Larger(x, y)
                /\ Promise!TruncatedDiv(x, y) = TruncatedDiv(x, y)
  BY Zenon DEF Promise!Signum, Signum, Promise!AbsoluteValue, AbsoluteValue,
     Promise!FitsWide, FitsWide, Promise!Clamped, Clamped, Promise!Larger, Larger,
     Promise!TruncatedDiv, TruncatedDiv
<1>3. \A s, i : Promise!ZDelta(s, i) = ZDelta(s, i)
  BY <1>1, Zenon DEF Promise!ZDelta, ZDelta
<1>4. \A s : Promise!SquaredDeltas(s) = SquaredDeltas(s)
  BY <1>3, SMT DEF Promise!SquaredDeltas, SquaredDeltas
<1>5. \A s : Promise!DeviationsFit(s) = DeviationsFit(s)
  BY <1>1, <1>2, <1>3, <1>4, SMT DEF Promise!DeviationsFit, DeviationsFit
<1>6. \A s : Promise!MeanScore(s) = MeanScore(s)
  BY <1>1, <1>2, SMT DEF Promise!MeanScore, MeanScore
<1>7. \A s, c : Promise!MeanAbsoluteDeviation(s, c) = MeanAbsoluteDeviation(s, c)
  BY <1>1, <1>2, SMT DEF Promise!MeanAbsoluteDeviation, MeanAbsoluteDeviation
<1>8. \A s, t : Promise!ZScoreSignal(s, t) = ZScoreSignal(s, t)
  BY <1>1, <1>2, <1>3, <1>4, <1>5, SMT DEF Promise!ZScoreSignal, ZScoreSignal
<1>9. \A s, f, w, m, d : Promise!MomentumSignal(s, f, w, m, d) = MomentumSignal(s, f, w, m, d)
  BY <1>2, <1>6, <1>7, SMT DEF Promise!MomentumSignal, MomentumSignal
<1> QED BY <1>8, <1>9

LEMMA PromisedSignal ==
  /\ \A e : Promise!Relevant(e) <=> Relevant(e)
  /\ Promise!Clamp(Promise!SignalWindow, 1, MaxInputs) = Clamp(SignalWindow, 1, MaxInputs)
  /\ \A obs : Promise!SignalValue(obs) = SignalValue(obs)
<1>1. \A e : Promise!Relevant(e) <=> Relevant(e)
  BY Zenon DEF Promise!Relevant, Relevant, Promise!HasSentiment, HasSentiment,
     Promise!HasScore, HasScore
<1>2. \A x, y, z : Promise!Clamp(x, y, z) = Clamp(x, y, z)
  BY Zenon DEF Promise!Clamp, Clamp
<1>3. Promise!SlowWindow = SlowWindow
  BY <1>2, Zenon DEF Promise!SlowWindow, SlowWindow
<1>4. Promise!SignalWindow = SignalWindow
  BY Zenon DEF Promise!SignalWindow, SignalWindow, Promise!SlowWindow, SlowWindow,
     Promise!Clamp, Clamp
<1>5. \A obs : Promise!SignalValue(obs) = SignalValue(obs)
  <2> TAKE obs
  <2>1. Promise!ScoresOf(obs) = ScoresOf(obs)
    BY Zenon DEF Promise!ScoresOf, ScoresOf
  <2>2. \A x : Promise!NumberOf(obs, x) = NumberOf(obs, x)
    BY Zenon DEF Promise!NumberOf, NumberOf, Promise!Cardinality, Cardinality
  <2>3. \A x : Promise!Signum(x) = Signum(x)
    BY Zenon DEF Promise!Signum, Signum
  <2>4. Signal.kind \in {"last-feature-sentiment", "windowed-feature-sentiment",
                         "windowed-zscore", "vol-adjusted-momentum"}
    BY ViewAssumption DEF SignalConfigs
  <2>5. CASE Signal.kind \in {"last-feature-sentiment", "windowed-feature-sentiment"}
    BY <2>2, <2>3, <2>5 DEF Promise!SignalValue, SignalValue
  <2>6. CASE Signal.kind = "windowed-zscore"
    BY <2>1, <2>6, PromisedArithmetic DEF Promise!SignalValue, SignalValue
  <2>7. CASE Signal.kind = "vol-adjusted-momentum"
    BY <1>2, <1>3, <2>1, <2>7, PromisedArithmetic DEF Promise!SignalValue, SignalValue
  <2> QED BY <2>4, <2>5, <2>6, <2>7
<1> QED BY <1>1, <1>2, <1>4, <1>5

\* The order of the replay is an order of events.
LEMMA BeforeIsOrder ==
  /\ \A e \in Event : ~Promise!Before(e, e)
  /\ \A e, f \in Event : Promise!Before(e, f) => ~Promise!Before(f, e)
  /\ \A e, f, g \in Event : Promise!Before(e, f) /\ Promise!Before(f, g) => Promise!Before(e, g)
<1>1. \A e, f : Promise!Before(e, f) <=> Precedes(OrderKey(order, e), OrderKey(order, f))
  BY PromisedEvents
<1> QED BY <1>1, OrderKeysAreOrdered, Zenon

-----------------------------------------------------------------------------
(***************************************************************************)
(* Sets of rows against sets of positions.  When the rows of s increase    *)
(* over the positions in P, the newest rows are those at the last          *)
(* positions, and the rows in ascending order are the listed ones.         *)
(***************************************************************************)
Increasing(s, P) ==
  /\ \A p \in P : s[p] \in Event
  /\ \A p, q \in P : p < q => Promise!Before(s[p], s[q])

LEMMA RowsAndPositions ==
  ASSUME NEW s, NEW N \in Nat, NEW P, \A p \in P : p \in 1..N, Increasing(s, P)
  PROVE  /\ \A p, q \in P : Promise!Before(s[p], s[q]) <=> p < q
         /\ \A p, q \in P : s[p] = s[q] => p = q
         /\ IsFiniteSet(At(s, P)) /\ Cardinality(At(s, P)) = Cardinality(P)
<1>1. \A p, q \in P : p \in Nat /\ (p # q => p < q \/ q < p) /\ ~(p < q /\ q < p) /\ ~(p < p)
  OBVIOUS
<1>2. \A p, q \in P : Promise!Before(s[p], s[q]) <=> p < q
  BY <1>1, BeforeIsOrder, Zenon DEF Increasing
<1>3. \A p, q \in P : s[p] = s[q] => p = q
  BY <1>1, BeforeIsOrder, Zenon DEF Increasing
<1>4. IsFiniteSet(P)
  <2>1. IsFiniteSet(1..N) /\ P \subseteq 1..N
    BY FS_Interval
  <2> QED BY <2>1, FS_Subset
<1> QED BY <1>2, <1>3, <1>4, AtSize

LEMMA NewestAreLast ==
  ASSUME NEW s, NEW N \in Nat, NEW P, \A p \in P : p \in 1..N, Increasing(s, P), NEW k
  PROVE  Promise!Newest(At(s, P), k) = At(s, LastPositions(P, k))
<1> DEFINE After(p) == { q \in P : q > p }
           Later(e) == { f \in At(s, P) : Promise!Before(e, f) }
<1>1. ASSUME NEW p \in P
      PROVE  Promise!Cardinality(Later(s[p])) = Cardinality(After(p))
  <2>1. \A q \in P : Promise!Before(s[p], s[q]) <=> q > p
    <3>1. \A q \in P : q > p <=> p < q
      OBVIOUS
    <3> QED BY <3>1, RowsAndPositions
  <2>2. Later(s[p]) = At(s, After(p))
    BY <2>1, Zenon DEF At
  <2>3. \A q \in After(p) : q \in 1..N
    OBVIOUS
  <2>4. Increasing(s, After(p))
    BY Zenon DEF Increasing
  <2> HIDE DEF After, Later
  <2>5. Cardinality(At(s, After(p))) = Cardinality(After(p))
    BY <2>3, <2>4, RowsAndPositions
  <2> QED BY <2>2, <2>5, PromisedEvents
<1>2. \A e : e \in Promise!Newest(At(s, P), k)
               <=> e \in At(s, P) /\ Promise!Cardinality(Later(e)) < k
  BY Zenon DEF Promise!Newest
<1>3. \A p : p \in LastPositions(P, k) <=> p \in P /\ Cardinality(After(p)) < k
  BY Zenon DEF LastPositions
<1> HIDE DEF After, Later
<1>4. \A e : e \in Promise!Newest(At(s, P), k) <=> e \in At(s, LastPositions(P, k))
  BY <1>1, <1>2, <1>3, Zenon DEF At
<1> QED BY <1>4, Zenon

LEMMA AscendingIsListed ==
  ASSUME NEW s, NEW N \in Nat, NEW P, \A p \in P : p \in 1..N, Increasing(s, P)
  PROVE  Promise!Ascending(At(s, P)) = Listed(s, P)
<1> DEFINE Below(p) == { q \in P : q < p }
           Earlier(e) == { f \in At(s, P) : Promise!Before(f, e) }
           Pick(n) == CHOOSE e \in At(s, P) : Promise!Cardinality(Earlier(e)) = n - 1
           place(n) == CHOOSE p \in P : Rank(P, p) = n
<1>1. ASSUME NEW p \in P
      PROVE  Promise!Cardinality(Earlier(s[p])) = Cardinality(Below(p))
  <2>1. \A q \in P : Promise!Before(s[q], s[p]) <=> q < p
    BY RowsAndPositions
  <2>2. Earlier(s[p]) = At(s, Below(p))
    BY <2>1, Zenon DEF At
  <2>3. \A q \in Below(p) : q \in 1..N
    OBVIOUS
  <2>4. Increasing(s, Below(p))
    BY Zenon DEF Increasing
  <2> HIDE DEF Below, Earlier
  <2>5. Cardinality(At(s, Below(p))) = Cardinality(Below(p))
    BY <2>3, <2>4, RowsAndPositions
  <2> QED BY <2>2, <2>5, PromisedEvents
<1>2. \A p \in P : /\ Rank(P, p) \in 1..Cardinality(P)
                   /\ Cardinality(Below(p)) = Rank(P, p) - 1
  BY RankOrder, Zenon
<1>3. \A p, q \in P : Rank(P, p) = Rank(P, q) => p = q
  BY RankOrder
<1>4. Promise!Cardinality(At(s, P)) = Cardinality(P) /\ Cardinality(P) \in Nat
  BY RowsAndPositions, PromisedEvents, ListedElements
<1>5. Promise!Ascending(At(s, P)) = [n \in 1..Cardinality(P) |-> Pick(n)]
  BY <1>4, Zenon DEF Promise!Ascending
<1>6. Listed(s, P) = [n \in 1..Cardinality(P) |-> s[place(n)]]
  BY Zenon DEF Listed
<1> HIDE DEF Below, Earlier
<1>7. ASSUME NEW n \in 1..Cardinality(P)
      PROVE  Pick(n) = s[place(n)]
  <2>1. place(n) \in P /\ Rank(P, place(n)) = n
    <3>1. \E p \in P : Rank(P, p) = n
      BY RankExists
    <3> QED BY <3>1, Zenon
  <2>2. s[place(n)] \in At(s, P) /\ Promise!Cardinality(Earlier(s[place(n)])) = n - 1
    <3> HIDE DEF place
    <3>1. s[place(n)] \in At(s, P)
      BY <2>1, Zenon DEF At
    <3> QED BY <3>1, <2>1, <1>1, <1>2
  <2>3. ASSUME NEW e \in At(s, P), Promise!Cardinality(Earlier(e)) = n - 1
        PROVE  e = s[place(n)]
    <3> HIDE DEF place
    <3>1. PICK p \in P : e = s[p]
      BY Zenon DEF At
    <3>2. Promise!Cardinality(Earlier(e)) = Rank(P, p) - 1 /\ Rank(P, p) \in Nat
      BY <3>1, <1>1, <1>2, <1>4
    <3>3. Rank(P, p) = n
      BY <3>2, <2>3, <1>4
    <3> QED BY <3>1, <3>3, <2>1, <1>3
  <2> HIDE DEF place
  <2> QED BY <2>2, <2>3, Zenon
<1> HIDE DEF Pick, place
<1> QED BY <1>5, <1>6, <1>7

-----------------------------------------------------------------------------
(***************************************************************************)
(* A view and its evaluation, in terms of the rows observed.               *)
(***************************************************************************)
Observed(rows) == [i \in DOMAIN rows |-> ObservationOf(rows[i])]

LEMMA SignalOfObserved ==
  ASSUME NEW rows
  PROVE  SignalValue(Observed(rows)) = SignalValue(rows)
<1>1. DOMAIN Observed(rows) = DOMAIN rows
  BY DEF Observed
<1>2. \A i \in DOMAIN rows : /\ Observed(rows)[i].sentiment = rows[i].sentiment
                             /\ Observed(rows)[i].score = rows[i].score
  BY DEF Observed, ObservationOf
<1>3. \A x : NumberOf(Observed(rows), x) = NumberOf(rows, x)
  <2> TAKE x
  <2>1. { i \in DOMAIN Observed(rows) : Observed(rows)[i].sentiment = x }
          = { i \in DOMAIN rows : rows[i].sentiment = x }
    BY <1>1, <1>2
  <2> QED BY <2>1, Zenon DEF NumberOf
<1>4. ScoresOf(Observed(rows)) = ScoresOf(rows)
  BY <1>1, <1>2 DEF ScoresOf
<1>w. Signal.kind \in {"last-feature-sentiment", "windowed-feature-sentiment",
                       "windowed-zscore", "vol-adjusted-momentum"}
  BY ViewAssumption DEF SignalConfigs
<1>5. CASE Signal.kind \in {"last-feature-sentiment", "windowed-feature-sentiment"}
  BY <1>3, <1>5 DEF SignalValue
<1>6. CASE Signal.kind = "windowed-zscore"
  BY <1>4, <1>6 DEF SignalValue
<1>7. CASE Signal.kind = "vol-adjusted-momentum"
  BY <1>4, <1>7 DEF SignalValue
<1> QED BY <1>w, <1>5, <1>6, <1>7

\* The view of observed rows is what was observed of the relevant last rows.
Window == Clamp(SignalWindow, 1, MaxInputs)

RelevantIn(rows) == { p \in DOMAIN rows : Relevant(rows[p]) }

LEMMA ViewOfObserved ==
  ASSUME NEW N \in Nat, NEW rows, DOMAIN rows = 1..N
  PROVE  RecentMatching(Observed(rows))
           = Observed(Listed(rows, LastPositions(RelevantIn(rows), Window)))
<1> DEFINE P == LastPositions(RelevantIn(rows), Window)
           place(n) == CHOOSE p \in P : Rank(P, p) = n
<1>1. DOMAIN Observed(rows) = 1..N
  BY DEF Observed
<1>2. \A p \in 1..N : /\ Observed(rows)[p] = ObservationOf(rows[p])
                      /\ Relevant(Observed(rows)[p]) <=> Relevant(rows[p])
  <2>1. \A p \in 1..N : Observed(rows)[p] = ObservationOf(rows[p])
    BY DEF Observed
  <2>2. \A e : /\ ObservationOf(e).sentiment = e.sentiment
               /\ ObservationOf(e).score = e.score
    BY DEF ObservationOf
  <2>3. \A e : Relevant(ObservationOf(e)) <=> Relevant(e)
    BY <2>2, Zenon DEF Relevant, HasSentiment, HasScore
  <2> QED BY <2>1, <2>3
<1>3. { p \in DOMAIN Observed(rows) : Relevant(Observed(rows)[p]) } = RelevantIn(rows)
  BY <1>1, <1>2, Zenon DEF RelevantIn
<1>4. RecentMatching(Observed(rows)) = Listed(Observed(rows), P)
  BY <1>3, Zenon DEF RecentMatching, Window
<1>5. \A p \in P : p \in 1..N
  BY DEF LastPositions, RelevantIn
<1> HIDE DEF P
<1>6. \A n \in 1..Cardinality(P) : place(n) \in P
  <2> TAKE n \in 1..Cardinality(P)
  <2>1. \E p \in P : Rank(P, p) = n
    BY <1>5, RankExists
  <2> QED BY <2>1, Zenon
<1>7. /\ Listed(Observed(rows), P) = [n \in 1..Cardinality(P) |-> Observed(rows)[place(n)]]
      /\ Listed(rows, P) = [n \in 1..Cardinality(P) |-> rows[place(n)]]
  BY Zenon DEF Listed
<1> HIDE DEF place
<1>8. \A n \in 1..Cardinality(P) : Observed(rows)[place(n)] = ObservationOf(rows[place(n)])
  BY <1>2, <1>5, <1>6, Zenon
<1>9. Listed(Observed(rows), P)
        = [n \in 1..Cardinality(P) |-> ObservationOf(rows[place(n)])]
  BY <1>7, <1>8
<1>10. Observed(Listed(rows, P))
         = [n \in 1..Cardinality(P) |-> ObservationOf(rows[place(n)])]
  <2>1. DOMAIN Listed(rows, P) = 1..Cardinality(P)
    BY <1>7, Zenon
  <2>2. \A n \in 1..Cardinality(P) : Listed(rows, P)[n] = rows[place(n)]
    BY <1>7, Zenon
  <2> QED BY <2>1, <2>2 DEF Observed
<1> QED BY <1>4, <1>9, <1>10, Zenon DEF P

\* Rows no two of which share an id, a key or a receipt position.
Distinct(rows) == \A i, j \in DOMAIN rows : i # j => Unlike(rows[i], rows[j])

\* The largest observation is that of the row received last.
LEMMA LastReceivedIsLast ==
  ASSUME NEW N \in Nat \ {0}, NEW rows, DOMAIN rows = 1..N,
         \A i \in 1..N : rows[i] \in Event, Distinct(rows)
  PROVE  /\ \E m \in 1..N : /\ Promise!LastReceived(rows) = rows[m]
                            /\ \A i \in 1..N : i # m => ReceivedBefore(rows[i], rows[m])
         /\ MaxObservation(Observed(rows)) = ObservationOf(Promise!LastReceived(rows))
<1> DEFINE obs == Observed(rows)
           Q(e) == \A i \in DOMAIN rows : rows[i] = e \/ ReceivedBefore(rows[i], e)
<1>1. DOMAIN obs = 1..N /\ \A i \in 1..N : obs[i] = ObservationOf(rows[i])
  BY DEF Observed
<1>2. \A i \in 1..N : /\ rows[i].received_time \in Nat /\ rows[i].seq \in Nat
                      /\ rows[i].id \in Nat /\ EventKey(rows[i]) \in Nat
  BY EventsAssumption DEF Event, EventKey
<1>3. \A i \in 1..N : /\ obs[i].received_time = rows[i].received_time
                      /\ obs[i].seq = rows[i].seq
                      /\ obs[i].key = EventKey(rows[i])
  BY <1>1 DEF ObservationOf
<1> HIDE DEF obs
<1>4. \A i \in 1..N : obs[i].received_time \in Nat /\ obs[i].seq \in Nat /\ obs[i].key \in Nat
  BY <1>2, <1>3
<1>5. PICK m \in 1..N : MaxObservation(obs) = obs[m]
  BY <1>1, <1>4, MaxObservationExists
<1>6. \A i \in 1..N : ~Precedes(ObservationKey(obs[m]), ObservationKey(obs[i]))
  BY <1>1, <1>4, <1>5, MaxObservationExists
<1>7. ASSUME NEW i \in 1..N, i # m
      PROVE  ReceivedBefore(rows[i], rows[m]) /\ ~ReceivedBefore(rows[m], rows[i]) /\ rows[i] # rows[m]
  <2>1. Unlike(rows[i], rows[m])
    BY <1>7, Zenon DEF Distinct
  <2>2. ~(/\ rows[i].received_time = rows[m].received_time
          /\ rows[i].seq = rows[m].seq)
    BY <2>1, Zenon DEF Unlike, SamePosition
  <2>3. ~Precedes(<<rows[m].received_time, rows[m].seq, EventKey(rows[m])>>,
                  <<rows[i].received_time, rows[i].seq, EventKey(rows[i])>>)
    BY <1>3, <1>6, Zenon DEF ObservationKey
  <2>4. rows[i] # rows[m]
    BY <2>1, Zenon DEF Unlike
  <2> QED BY <1>2, <2>2, <2>3, <2>4 DEF Precedes, ReceivedBefore, ReplayKey
<1>8. Q(rows[m])
  BY <1>7
<1>9. ASSUME NEW e \in { rows[i] : i \in DOMAIN rows }, Q(e)
      PROVE  e = rows[m]
  BY <1>7, <1>9, Zenon
<1>10. Promise!LastReceived(rows) = CHOOSE e \in { rows[i] : i \in DOMAIN rows } : Q(e)
  BY PromisedEvents, Zenon DEF Promise!LastReceived, Promise!ReceivedBefore, ReceivedBefore,
     Promise!Precedes, Precedes, Promise!ReplayKey, ReplayKey
<1>11. rows[m] \in { rows[i] : i \in DOMAIN rows }
  BY Zenon
<1> HIDE DEF Q
<1>12. Promise!LastReceived(rows) = rows[m]
  BY <1>8, <1>9, <1>10, <1>11, Zenon
<1> QED BY <1>1, <1>5, <1>7, <1>12, Zenon DEF obs

LEMMA SnapshotOfObserved ==
  ASSUME NEW N \in Nat \ {0}, N <= MaxInputs, NEW rows, DOMAIN rows = 1..N,
         \A i \in 1..N : rows[i] \in Event, Distinct(rows)
  PROVE  SnapshotOf(Observed(rows)) =
           [ signal_value |-> SignalValue(rows),
             inputs       |-> [i \in DOMAIN rows |-> EventKey(rows[i])],
             max_time     |-> Promise!LastReceived(rows).received_time,
             max_seq      |-> Promise!LastReceived(rows).seq,
             max_key      |-> EventKey(Promise!LastReceived(rows)) ]
<1> DEFINE keys == [i \in DOMAIN rows |-> EventKey(rows[i])]
           last == Promise!LastReceived(rows)
<1>1. [i \in DOMAIN Observed(rows) |-> Observed(rows)[i].key] = keys
  BY DEF Observed, ObservationOf
<1>2. FromOrderedKeys(keys) = keys
  <2>1. DOMAIN keys = 1..N /\ keys = [i \in 1..N |-> keys[i]]
    OBVIOUS
  <2>2. \A i, j \in 1..N : keys[i] = keys[j] => i = j
    BY DEF Distinct, Unlike
  <2> HIDE DEF keys
  <2> QED BY <2>1, <2>2, FromOrderedKeysKeeps
<1>3. /\ MaxObservation(Observed(rows)).received_time = last.received_time
      /\ MaxObservation(Observed(rows)).seq = last.seq
      /\ MaxObservation(Observed(rows)).key = EventKey(last)
  <2>1. MaxObservation(Observed(rows)) = ObservationOf(last)
    BY LastReceivedIsLast
  <2> HIDE DEF last
  <2> QED BY <2>1 DEF ObservationOf
<1> HIDE DEF keys, last
<1> QED BY <1>1, <1>2, <1>3, SignalOfObserved, Zenon DEF SnapshotOf, keys, last

-----------------------------------------------------------------------------
(***************************************************************************)
(* What the promise reads of the rows, in positions of the sorted copy.    *)
(***************************************************************************)
\* Every row of the file is in the sorted copy.
SortedPhase == phase \in {"intern", "replay", "done"} \/ log # <<>>

Covered ==
  SortedPhase => \A i \in DOMAIN file : \E p \in DOMAIN ordered : ordered[p] = file[i]

Features(p) ==
  { q \in 1..(p - 1) : UpdatesSignalState(ordered[q]) /\ ordered[q].symbol = ordered[p].symbol }

CitedPositions(p) ==
  LastPositions({ q \in LastPositions(Features(p), MaxInputs) : Relevant(ordered[q]) }, Window)

LEMMA OrderedIncreases ==
  ASSUME IInv
  PROVE  /\ Len(ordered) \in Nat /\ DOMAIN ordered = 1..Len(ordered)
         /\ \A p \in DOMAIN ordered : ordered[p] \in Event
         /\ Increasing(ordered, DOMAIN ordered)
         /\ \A p, q \in DOMAIN ordered : Promise!Before(ordered[p], ordered[q]) <=> p < q
         /\ \A p, q \in DOMAIN ordered : ordered[p] = ordered[q] => p = q
<1>1. /\ Len(ordered) \in Nat /\ DOMAIN ordered = 1..Len(ordered)
      /\ \A p \in DOMAIN ordered : ordered[p] \in Event
  BY DEF IInv, TypeOK
<1>2. Increasing(ordered, DOMAIN ordered)
  BY <1>1, PromisedEvents, Zenon DEF Increasing, IInv, Arranged
<1>3. /\ \A p, q \in DOMAIN ordered : Promise!Before(ordered[p], ordered[q]) <=> p < q
      /\ \A p, q \in DOMAIN ordered : ordered[p] = ordered[q] => p = q
  BY <1>1, <1>2, RowsAndPositions
<1> QED BY <1>1, <1>2, <1>3

LEMMA RowsAreOrdered ==
  ASSUME IInv, Covered, SortedPhase
  PROVE  \A e : e \in Promise!Rows <=> \E p \in DOMAIN ordered : e = ordered[p]
<1>1. \A e : e \in Promise!Rows <=> \E i \in DOMAIN file : e = file[i]
  BY Zenon DEF Promise!Rows
<1>2. \A p \in DOMAIN ordered : \E i \in DOMAIN file : ordered[p] = file[i]
  BY Zenon DEF IInv, Arranged
<1>3. \A i \in DOMAIN file : \E p \in DOMAIN ordered : ordered[p] = file[i]
  BY Zenon DEF Covered
<1> QED BY <1>1, <1>2, <1>3

LEMMA OrderedIsDistinct ==
  ASSUME IInv, SortedPhase
  PROVE  Distinct(ordered)
<1>1. Unambiguous(file)
  BY Zenon DEF IInv, ByPhase, SortedPhase
<1> SUFFICES ASSUME NEW p \in DOMAIN ordered, NEW q \in DOMAIN ordered, p # q
             PROVE  Unlike(ordered[p], ordered[q])
  BY Zenon DEF Distinct
<1>2. PICK i \in DOMAIN file : ordered[p] = file[i]
  BY Zenon DEF IInv, Arranged
<1>3. PICK j \in DOMAIN file : ordered[q] = file[j]
  BY Zenon DEF IInv, Arranged
<1>4. i # j
  BY <1>2, <1>3, OrderedIncreases
<1> QED BY <1>1, <1>2, <1>3, <1>4, Zenon DEF Unambiguous

LEMMA CitedIsListed ==
  ASSUME IInv, Covered, SortedPhase, NEW p \in DOMAIN ordered
  PROVE  /\ \A q \in CitedPositions(p) : q \in Features(p) /\ q \in DOMAIN ordered /\ q < p
         /\ Promise!Cited(ordered[p]) = Listed(ordered, CitedPositions(p))
<1> DEFINE F == Features(p)
           L == LastPositions(F, MaxInputs)
           R == { q \in L : Relevant(ordered[q]) }
           C == LastPositions(R, Window)
<1>1. \A q : q \in 1..(p - 1) <=> q \in DOMAIN ordered /\ q < p
  BY OrderedIncreases
<1>2. \A q \in F : q \in DOMAIN ordered /\ q < p
  BY <1>1, Zenon DEF Features
<1>3. /\ \A q \in L : q \in F
      /\ \A q \in R : q \in F
      /\ \A q \in C : q \in F
  BY Zenon DEF LastPositions
<1>4. \A P : (\A q \in P : q \in F) =>
               Increasing(ordered, P) /\ \A q \in P : q \in 1..Len(ordered)
  BY <1>2, OrderedIncreases, Zenon DEF Increasing
<1>5. Promise!Visible(ordered[p]) = At(ordered, F)
  <2>1. \A e : e \in Promise!Visible(ordered[p])
                 <=> /\ e \in Promise!Rows /\ UpdatesSignalState(e)
                     /\ e.symbol = ordered[p].symbol /\ Promise!Before(e, ordered[p])
    BY PromisedEvents, Zenon DEF Promise!Visible
  <2>2. \A q \in DOMAIN ordered : Promise!Before(ordered[q], ordered[p]) <=> q < p
    BY OrderedIncreases
  <2>3. \A e : e \in Promise!Visible(ordered[p]) <=> e \in At(ordered, F)
    BY <1>1, <2>1, <2>2, RowsAreOrdered, Zenon DEF Features, At
  <2> QED BY <2>3, Zenon
<1> HIDE DEF F
<1>6. Promise!Newest(At(ordered, F), MaxInputs) = At(ordered, L)
  BY <1>4, OrderedIncreases, NewestAreLast
<1>7. { e \in At(ordered, L) : Promise!Relevant(e) } = At(ordered, R)
  BY PromisedSignal, Zenon DEF At
<1> HIDE DEF L
<1>8. Promise!Newest(At(ordered, R), Window) = At(ordered, C)
  <2> HIDE DEF R
  <2> QED BY <1>3, <1>4, OrderedIncreases, NewestAreLast
<1> HIDE DEF R
<1>9. Promise!Ascending(At(ordered, C)) = Listed(ordered, C)
  <2> HIDE DEF C
  <2> QED BY <1>3, <1>4, OrderedIncreases, AscendingIsListed
<1>10. Promise!Cited(ordered[p]) = Listed(ordered, C)
  BY <1>5, <1>6, <1>7, <1>8, <1>9, PromisedSignal, Zenon DEF Promise!Cited, Window
<1>11. C = CitedPositions(p)
  BY Zenon DEF CitedPositions, R, L, F
<1> HIDE DEF C
<1> QED BY <1>2, <1>3, <1>10, <1>11, Zenon DEF F

\* The rows a prediction cites are typed, distinct and at most MaxInputs.
LEMMA LastPositionsBound ==
  ASSUME NEW N \in Nat, NEW P, \A q \in P : q \in 1..N, NEW k \in Nat \ {0}
  PROVE  Cardinality(LastPositions(P, k)) <= k
<1> DEFINE L == LastPositions(P, k)
<1>1. \A q \in L : q \in 1..N /\ q \in P
  BY DEF LastPositions
<1>2. Cardinality(L) \in Nat /\ IsFiniteSet(P) /\ Cardinality(P) \in Nat
  <2>1. IsFiniteSet(1..N) /\ P \subseteq 1..N /\ L \subseteq 1..N
    BY <1>1, FS_Interval
  <2> HIDE DEF L
  <2> QED BY <2>1, FS_Subset, FS_CardinalityType
<1>3. L = {} => Cardinality(L) <= k
  BY FS_EmptySet
<1>4. ASSUME L # {}
      PROVE  Cardinality(L) <= k
  <2>1. PICK p \in L : \A x \in L : p <= x
    <3>1. \A x \in L : x \in Nat
      BY <1>1
    <3> HIDE DEF L
    <3> QED BY <1>4, <3>1, LeastNatural
  <2> DEFINE T == { q \in P : q > p }
  <2>2. Cardinality(T) < k
    BY <2>1, Zenon DEF LastPositions
  <2>3. IsFiniteSet(T) /\ Cardinality(T) \in Nat
    BY <1>2, FS_Subset, FS_CardinalityType
  <2>4. L \subseteq T \cup {p}
    BY <1>1, <2>1
  <2>5. p \notin T
    BY <1>1, <2>1
  <2> HIDE DEF T, L
  <2>6. /\ Cardinality(T \cup {p}) = Cardinality(T) + 1 /\ IsFiniteSet(T \cup {p})
        /\ Cardinality(L) <= Cardinality(T \cup {p})
    BY <2>3, <2>4, <2>5, FS_AddElement, FS_Subset
  <2> QED BY <1>2, <2>2, <2>3, <2>6
<1> HIDE DEF L
<1>5. Cardinality(L) <= k
  BY <1>3, <1>4
<1> QED BY <1>5 DEF L

LEMMA WindowBound == Window \in Nat \ {0} /\ Window <= MaxInputs
<1>1. \A x \in Int : Clamp(x, 1, MaxInputs) \in 1..MaxInputs
  BY InputsAssumption DEF Clamp
<1>2. Signal \in SignalConfigs
  BY ViewAssumption
<1>3. SignalWindow \in Int
  <2>1. CASE Signal \in [kind : {"last-feature-sentiment"}]
    BY <2>1 DEF SignalWindow
  <2>2. CASE Signal \in [kind : {"windowed-feature-sentiment"}, window : Nat]
    BY <2>2 DEF SignalWindow
  <2>3. CASE Signal \in [kind : {"windowed-zscore"}, window : Nat, threshold : Int]
    BY <2>3 DEF SignalWindow
  <2>4. CASE Signal \in [kind : {"vol-adjusted-momentum"}, fast : Nat, slow : Nat,
                         min_trend : Int, divisor : Int]
    <3>1. Signal.kind = "vol-adjusted-momentum" /\ Signal.slow \in Nat
      BY <2>4
    <3>2. SlowWindow \in Int
      BY <1>1, <3>1, InputsAssumption DEF SlowWindow
    <3>3. SignalWindow = SlowWindow
      BY <3>1 DEF SignalWindow
    <3> QED BY <3>2, <3>3
  <2> QED BY <1>2, <2>1, <2>2, <2>3, <2>4 DEF SignalConfigs
<1> QED BY <1>1, <1>3, InputsAssumption DEF Window

LEMMA CitedRows ==
  ASSUME IInv, Covered, SortedPhase, NEW p \in DOMAIN ordered
  PROVE  /\ \E N \in Nat : N <= MaxInputs /\ DOMAIN Promise!Cited(ordered[p]) = 1..N
         /\ \A i \in DOMAIN Promise!Cited(ordered[p]) :
              \E q \in Features(p) : Promise!Cited(ordered[p])[i] = ordered[q] /\ q \in DOMAIN ordered
         /\ Distinct(Promise!Cited(ordered[p]))
<1> DEFINE C == CitedPositions(p)
           cited == Promise!Cited(ordered[p])
<1>1. cited = Listed(ordered, C)
  BY CitedIsListed
<1>2. \A q \in C : q \in Features(p) /\ q \in DOMAIN ordered /\ q \in 1..Len(ordered)
  BY CitedIsListed, OrderedIncreases
<1>3. Cardinality(C) <= Window
  <2> DEFINE R == { q \in LastPositions(Features(p), MaxInputs) : Relevant(ordered[q]) }
  <2>1. \A q \in R : q \in 1..(p - 1)
    BY Zenon DEF LastPositions, Features
  <2>2. p - 1 \in Nat
    BY OrderedIncreases
  <2> HIDE DEF R
  <2>3. Cardinality(LastPositions(R, Window)) <= Window
    BY <2>1, <2>2, WindowBound, LastPositionsBound
  <2> QED BY <2>3, Zenon DEF CitedPositions, R
<1> HIDE DEF C, cited
<1>4. /\ Cardinality(C) \in Nat /\ DOMAIN cited = 1..Cardinality(C)
      /\ \A n \in DOMAIN cited : \E q \in C : Rank(C, q) = n /\ cited[n] = ordered[q]
  BY <1>1, <1>2, OrderedIncreases, ListedElements, ListedPlaces
<1>5. Cardinality(C) <= MaxInputs
  BY <1>3, <1>4, WindowBound, InputsAssumption
<1>6. Distinct(cited)
  <2> SUFFICES ASSUME NEW i \in DOMAIN cited, NEW j \in DOMAIN cited, i # j
               PROVE  Unlike(cited[i], cited[j])
    BY Zenon DEF Distinct
  <2>1. PICK q \in C : Rank(C, q) = i /\ cited[i] = ordered[q]
    BY <1>4
  <2>2. PICK r \in C : Rank(C, r) = j /\ cited[j] = ordered[r]
    BY <1>4
  <2> QED BY <1>2, <2>1, <2>2, OrderedIsDistinct, Zenon DEF Distinct
<1> QED BY <1>2, <1>4, <1>5, <1>6, Zenon DEF cited

-----------------------------------------------------------------------------
(***************************************************************************)
(* A prediction records what was promised.                                 *)
(***************************************************************************)
\* A bounded history of newest positions holds exactly the last ones.
FillsHistory(F, n, m, at) ==
  /\ n \in Nat /\ \A q \in F : q \in 1..n
  /\ m \in Nat /\ m <= MaxInputs /\ at \in [1..m -> 1..n]
  /\ \A i, j \in 1..m : i < j => at[i] < at[j]
  /\ \A i \in 1..m : at[i] \in F
  /\ \A q \in F : \/ \E i \in 1..m : at[i] = q
                  \/ m = MaxInputs /\ \A i \in 1..m : q < at[i]

LEMMA HistoryPositions ==
  ASSUME NEW F, NEW n, NEW m, NEW at, FillsHistory(F, n, m, at)
  PROVE  LastPositions(F, MaxInputs) = At(at, 1..m)
<1> USE DEF FillsHistory
<1> DEFINE A == At(at, 1..m)
           After(p) == { q \in F : q > p }
<1>1. \A q : q \in A <=> \E i \in 1..m : at[i] = q
  BY DEF At
<1>2. \A q \in A : q \in F /\ q \in 1..n
  BY <1>1
<1>3. IsFiniteSet(A) /\ Cardinality(A) = m
  <2>1. \A i, j \in 1..m : at[i] = at[j] => i = j
    <3> SUFFICES ASSUME NEW i \in 1..m, NEW j \in 1..m, at[i] = at[j], i # j
                 PROVE  FALSE
      OBVIOUS
    <3> QED OBVIOUS
  <2>2. IsFiniteSet(1..m) /\ Cardinality(1..m) = m
    BY FS_Interval
  <2> QED BY <2>1, <2>2, AtSize
<1>f. IsFiniteSet(F)
  <2>1. IsFiniteSet(1..n) /\ F \subseteq 1..n
    BY FS_Interval
  <2> QED BY <2>1, FS_Subset
<1>4. MaxInputs \in Nat
  BY InputsAssumption
<1> HIDE DEF A
<1>5. ASSUME NEW p \in A
      PROVE  Cardinality(After(p)) < MaxInputs
  <2>1. ASSUME NEW q \in After(p)
        PROVE  q \in A /\ q # p
    <3>1. q \in F /\ q > p /\ q \in Nat /\ p \in Nat
      BY <1>2
    <3>2. PICK i \in 1..m : at[i] = p
      BY <1>1
    <3>3. ~(q < at[i])
      BY <3>1, <3>2
    <3> QED BY <1>1, <3>1, <3>2, <3>3
  <2>2. After(p) \subseteq A \ {p}
    BY <2>1
  <2>3. IsFiniteSet(A \ {p}) /\ Cardinality(A \ {p}) = m - 1
    BY <1>3, FS_RemoveElement
  <2> HIDE DEF After
  <2>4. Cardinality(After(p)) <= m - 1 /\ Cardinality(After(p)) \in Nat
    BY <2>2, <2>3, FS_Subset, FS_CardinalityType
  <2> QED BY <2>4, <1>4
<1>6. ASSUME NEW p \in F, p \notin A
      PROVE  ~(Cardinality(After(p)) < MaxInputs)
  <2>1. m = MaxInputs /\ \A i \in 1..m : p < at[i]
    BY <1>1, <1>6
  <2>2. \A q \in A : q > p
    <3> TAKE q \in A
    <3>1. PICK i \in 1..m : at[i] = q
      BY <1>1
    <3> QED BY <2>1, <3>1, <1>2
  <2>3. A \subseteq After(p)
    BY <1>2, <2>2
  <2>4. IsFiniteSet(After(p))
    BY <1>f, FS_Subset
  <2> HIDE DEF After
  <2>5. m <= Cardinality(After(p)) /\ Cardinality(After(p)) \in Nat
    BY <1>3, <2>3, <2>4, FS_Subset, FS_CardinalityType
  <2> QED BY <2>1, <2>5
<1>7. \A p : p \in LastPositions(F, MaxInputs) <=> p \in F /\ Cardinality(After(p)) < MaxInputs
  BY Zenon DEF LastPositions
<1> HIDE DEF After
<1>8. \A p : p \in LastPositions(F, MaxInputs) <=> p \in A
  BY <1>2, <1>5, <1>6, <1>7, Zenon
<1> QED BY <1>8, Zenon DEF A

LEMMA ViewIsCited ==
  ASSUME IInv, Covered, Replaying
  PROVE  /\ Promise!Cited(Current) \in Seq(Event)
         /\ RecentMatching(recent[SlotOf(Current)]) = Observed(Promise!Cited(Current))
         /\ RecentMatching(recent[SlotOf(Current)]) \in Seq(Observation)
<1> DEFINE slot == SlotOf(Current)
           h == recent[slot]
           m == Len(h)
           F == Features(next)
           L == LastPositions(F, MaxInputs)
           R == { q \in L : Relevant(ordered[q]) }
<1>0. phase = "replay" /\ SortedPhase /\ next \in DOMAIN ordered /\ next \in Nat
  BY DEF Replaying, SortedPhase, IInv, TypeOK
<1>1. /\ slot \in DOMAIN recent
      /\ catalog.labels_by_slot[slot] = ordered[next].symbol
  BY SlotOfCurrent DEF Current
<1>2. h \in Seq(Observation) /\ m <= MaxInputs /\ m \in Nat /\ DOMAIN h = 1..m
  BY <1>1 DEF IInv, TypeOK, Bounded
<1>3. PICK at \in [1..m -> 1..(next - 1)] : HoldsNewest(slot, at)
  BY <1>1, Zenon DEF IInv, HistoryIsNewestFeatures
<1> HIDE DEF slot, h, m
<1>4. /\ DOMAIN at = 1..m
      /\ \A i, j \in 1..m : i < j => at[i] < at[j]
      /\ \A i \in 1..m : /\ FeatureOf(ordered[at[i]], slot)
                         /\ h[i] = ObservationOf(ordered[at[i]])
      /\ \A q \in 1..(next - 1) : FeatureOf(ordered[q], slot) =>
           \/ \E i \in 1..m : at[i] = q
           \/ m = MaxInputs /\ \A i \in 1..m : q < at[i]
  <2>1. DOMAIN at = 1..m
    BY <1>3
  <2> QED BY <2>1, <1>3, Zenon DEF HoldsNewest, h, m
<1>5. \A q : q \in F <=> q \in 1..(next - 1) /\ FeatureOf(ordered[q], slot)
  BY <1>1, Zenon DEF Features, FeatureOf
<1>6. \A i \in 1..m : at[i] \in 1..(next - 1) /\ at[i] \in F /\ at[i] \in DOMAIN ordered
  <2>1. \A q \in 1..(next - 1) : q \in DOMAIN ordered
    BY <1>0, OrderedIncreases
  <2> QED BY <1>3, <1>4, <1>5, <2>1
<1> HIDE DEF F
<1>7. \A q : q \in L <=> \E i \in 1..m : at[i] = q
  <2>1. next - 1 \in Nat
    BY <1>0, OrderedIncreases
  <2>2. \A q \in F : q \in 1..(next - 1)
    BY <1>5
  <2>3. \A q \in F : \/ \E i \in 1..m : at[i] = q
                     \/ m = MaxInputs /\ \A i \in 1..m : q < at[i]
    BY <1>4, <1>5, Zenon
  <2>4. \A i \in 1..m : at[i] \in F
    BY <1>6
  <2>5. \A i, j \in 1..m : i < j => at[i] < at[j]
    BY <1>4
  <2>6. m \in Nat /\ m <= MaxInputs /\ at \in [1..m -> 1..(next - 1)]
    BY <1>2, <1>3
  <2>7. FillsHistory(F, next - 1, m, at)
    BY <2>1, <2>2, <2>3, <2>4, <2>5, <2>6, Zenon DEF FillsHistory
  <2> HIDE DEF L, R
  <2>8. LastPositions(F, MaxInputs) = At(at, 1..m)
    BY <2>7, HistoryPositions
  <2> QED BY <2>8, Zenon DEF L, At
<1> HIDE DEF L
<1> DEFINE g == [i \in 1..m |-> ordered[at[i]]]
<1>8. DOMAIN g = 1..m /\ \A i \in 1..m : g[i] = ordered[at[i]]
  OBVIOUS
<1> HIDE DEF g
<1>9. h = Observed(g)
  <2>1. h = [i \in 1..m |-> h[i]]
    BY <1>2
  <2>2. \A i \in 1..m : h[i] = ObservationOf(g[i])
    BY <1>4, <1>8
  <2> QED BY <1>8, <2>1, <2>2 DEF Observed
<1>10. Increasing(g, 1..m)
  <2>1. \A i \in 1..m : g[i] \in Event
    BY <1>6, <1>8, OrderedIncreases
  <2>2. \A i, j \in 1..m : i < j => Promise!Before(g[i], g[j])
    BY <1>4, <1>6, <1>8, OrderedIncreases
  <2> QED BY <2>1, <2>2, Zenon DEF Increasing
<1>11. At(g, RelevantIn(g)) = At(ordered, R)
  <2>1. \A i : i \in RelevantIn(g) <=> i \in 1..m /\ Relevant(ordered[at[i]])
    BY <1>8, Zenon DEF RelevantIn
  <2>2. \A q : q \in R <=> (\E i \in 1..m : at[i] = q) /\ Relevant(ordered[q])
    BY <1>7, Zenon
  <2> HIDE DEF R
  <2>3. ASSUME NEW e \in At(g, RelevantIn(g))
        PROVE  e \in At(ordered, R)
    <3>1. PICK i \in RelevantIn(g) : e = g[i]
      BY Zenon DEF At
    <3>2. at[i] \in R /\ e = ordered[at[i]]
      BY <1>8, <2>1, <2>2, <3>1, Zenon
    <3> QED BY <3>2, Zenon DEF At
  <2>4. ASSUME NEW e \in At(ordered, R)
        PROVE  e \in At(g, RelevantIn(g))
    <3>1. PICK q \in R : e = ordered[q]
      BY Zenon DEF At
    <3>2. PICK i \in 1..m : at[i] = q
      BY <2>2
    <3>3. i \in RelevantIn(g) /\ e = g[i]
      BY <1>8, <2>1, <2>2, <3>1, <3>2, Zenon
    <3> QED BY <3>3, Zenon DEF At
  <2> QED BY <2>3, <2>4
<1> DEFINE view == Listed(g, LastPositions(RelevantIn(g), Window))
<1>12. view = Listed(ordered, LastPositions(R, Window))
  <2>1. /\ \A i \in RelevantIn(g) : i \in 1..m
        /\ \A i \in LastPositions(RelevantIn(g), Window) : i \in 1..m
    BY <1>8, Zenon DEF RelevantIn, LastPositions
  <2>2. /\ Increasing(g, RelevantIn(g))
        /\ Increasing(g, LastPositions(RelevantIn(g), Window))
    BY <1>10, <2>1, Zenon DEF Increasing
  <2>3. /\ \A q \in R : q \in DOMAIN ordered /\ q \in 1..Len(ordered)
        /\ \A q \in LastPositions(R, Window) : q \in DOMAIN ordered /\ q \in 1..Len(ordered)
    <3>1. \A q \in R : q \in L
      BY Zenon
    <3>2. \A q \in LastPositions(R, Window) : q \in R
      BY Zenon DEF LastPositions
    <3>3. \A q \in L : q \in DOMAIN ordered
      BY <1>6, <1>7, Zenon
    <3> QED BY <3>1, <3>2, <3>3, OrderedIncreases
  <2> HIDE DEF R
  <2>4. Increasing(ordered, R) /\ Increasing(ordered, LastPositions(R, Window))
    BY <2>3, OrderedIncreases, Zenon DEF Increasing
  <2>5. Promise!Newest(At(g, RelevantIn(g)), Window)
          = At(g, LastPositions(RelevantIn(g), Window))
    BY <1>2, <2>1, <2>2, NewestAreLast
  <2>6. Promise!Newest(At(ordered, R), Window) = At(ordered, LastPositions(R, Window))
    BY <2>3, <2>4, OrderedIncreases, NewestAreLast
  <2>7. Promise!Ascending(At(g, LastPositions(RelevantIn(g), Window))) = view
    BY <1>2, <2>1, <2>2, AscendingIsListed
  <2>8. Promise!Ascending(At(ordered, LastPositions(R, Window)))
          = Listed(ordered, LastPositions(R, Window))
    BY <2>3, <2>4, OrderedIncreases, AscendingIsListed
  <2> QED BY <1>11, <2>5, <2>6, <2>7, <2>8, Zenon
<1>13. LastPositions(R, Window) = CitedPositions(next)
  BY Zenon DEF CitedPositions, R, L, F
<1> HIDE DEF R
<1>14. RecentMatching(h) = Observed(view)
  BY <1>2, <1>8, <1>9, ViewOfObserved
<1>15. view = Promise!Cited(ordered[next])
  BY <1>0, <1>12, <1>13, CitedIsListed
<1>16. Promise!Cited(ordered[next]) \in Seq(Event)
  <2>1. \A q \in CitedPositions(next) : q \in DOMAIN ordered
    BY <1>0, CitedIsListed
  <2>2. ordered \in Seq(Event)
    BY DEF IInv, TypeOK
  <2>3. Promise!Cited(ordered[next]) = Listed(ordered, CitedPositions(next))
    BY <1>0, CitedIsListed
  <2> QED BY <2>1, <2>2, <2>3, ListedType
<1>17. RecentMatching(h) \in Seq(Observation)
  BY <1>2, RecentMatchingElements
<1> QED BY <1>14, <1>15, <1>16, <1>17, Zenon DEF Current, h, slot

LEMMA PredictionIsPromised ==
  ASSUME IInv, Covered, Replaying
  PROVE  RecordOf(Current, Evaluate(recent[SlotOf(Current)])) = Promise!Promised(Current)
<1> DEFINE h == recent[SlotOf(Current)]
           cited == Promise!Cited(Current)
<1>0. SortedPhase /\ next \in DOMAIN ordered
  BY DEF Replaying, SortedPhase, IInv, TypeOK
<1>1. cited \in Seq(Event) /\ RecentMatching(h) = Observed(cited) /\ RecentMatching(h) \in Seq(Observation)
  BY ViewIsCited
<1>2. Distinct(cited) /\ Len(cited) <= MaxInputs
  <2>1. \E N \in Nat : N <= MaxInputs /\ DOMAIN cited = 1..N
    BY <1>0, CitedRows, Zenon DEF Current
  <2>2. Distinct(cited)
    BY <1>0, CitedRows, Zenon DEF Current
  <2> HIDE DEF cited
  <2> QED BY <1>1, <2>1, <2>2
<1> HIDE DEF cited, h
<1>3. Len(cited) \in Nat /\ DOMAIN cited = 1..Len(cited) /\ \A i \in DOMAIN cited : cited[i] \in Event
  BY <1>1
<1>4. RecentMatching(h) = <<>> <=> cited = <<>>
  <2>1. DOMAIN RecentMatching(h) = DOMAIN cited
    BY <1>1 DEF Observed
  <2> QED BY <1>1, <2>1
<1>5. \A e : Promise!EventKey(e) = EventKey(e)
  BY PromisedEvents
<1>6. Promise!SignalValue(cited) = SignalValue(cited)
  BY PromisedSignal
<1>7. CASE cited = <<>>
  <2>1. Evaluate(h) = EmptySnapshot
    BY <1>4, <1>7, Zenon DEF Evaluate
  <2>2. [i \in DOMAIN cited |-> Promise!EventKey(cited[i])] = <<>>
    BY <1>7
  <2> QED BY <1>5, <1>7, <2>1, <2>2 DEF RecordOf, EmptySnapshot, Promise!Promised, Promise!RecordCiting, cited, h
<1>8. CASE cited # <<>>
  <2>1. Len(cited) \in Nat \ {0}
    BY <1>1, <1>8
  <2>2. Evaluate(h) = SnapshotOf(Observed(cited))
    BY <1>1, <1>4, <1>8, Zenon DEF Evaluate
  <2>3. SnapshotOf(Observed(cited)) =
           [ signal_value |-> SignalValue(cited),
             inputs       |-> [i \in DOMAIN cited |-> EventKey(cited[i])],
             max_time     |-> Promise!LastReceived(cited).received_time,
             max_seq      |-> Promise!LastReceived(cited).seq,
             max_key      |-> EventKey(Promise!LastReceived(cited)) ]
    BY <1>2, <1>3, <2>1, SnapshotOfObserved
  <2>4. [i \in DOMAIN cited |-> Promise!EventKey(cited[i])] = [i \in DOMAIN cited |-> EventKey(cited[i])]
    BY <1>5
  <2>5. Promise!Promised(Current) =
          [ key |-> EventKey(Current), time |-> Current.received_time, seq |-> Current.seq,
            symbol |-> SymbolIdOf[Current.symbol],
            signal_value |-> SignalValue(cited),
            inputs       |-> [i \in DOMAIN cited |-> EventKey(cited[i])],
            max_time     |-> Promise!LastReceived(cited).received_time,
            max_seq      |-> Promise!LastReceived(cited).seq,
            max_key      |-> EventKey(Promise!LastReceived(cited)) ]
    BY <1>5, <1>6, <1>8, <2>4 DEF Promise!Promised, Promise!RecordCiting, cited
  <2> QED BY <2>2, <2>3, <2>5 DEF RecordOf, h
<1> QED BY <1>7, <1>8

-----------------------------------------------------------------------------
(***************************************************************************)
(* The invariant of the refinement: the sorted copy has every row, the     *)
(* catalog only symbols of rows, the rows replayed were readable, and the  *)
(* n-th record is what was promised for the n-th prediction of the order.  *)
(***************************************************************************)
CatalogOfFile ==
  \A label \in DOMAIN catalog.slots_by_label : \E p \in DOMAIN ordered : ordered[p].symbol = label

PayloadsRead ==
  phase = "replay" =>
    \A p \in 1..(next - 1) : UpdatesSignalState(ordered[p]) => PayloadOk(ordered[p])

PredictionsAt == { p \in DOMAIN ordered : IsPrediction(ordered[p]) }

Answered == { p \in PredictionsAt : p < next }

RecordedFor(n, p) ==
  p < next /\ Rank(PredictionsAt, p) = n /\ log[n] = Promise!Promised(ordered[p])

Recorded ==
  /\ phase = "replay" => Len(log) = Cardinality(Answered)
  /\ \A n \in DOMAIN log : \E p \in PredictionsAt : RecordedFor(n, p)

RInv ==
  /\ IInv
  /\ Covered
  /\ CatalogOfFile
  /\ PayloadsRead
  /\ Recorded

\* The promise reads the file and the order, which a call never changes.
LEMMA PromiseStands ==
  ASSUME UNCHANGED <<file, order>>
  PROVE  \A e : Promise!Promised(e)' = Promise!Promised(e)
<1>1. Promise!Rows' = Promise!Rows
  BY Zenon DEF Promise!Rows
<1>2. \A e, f : Promise!Before(e, f)' <=> Promise!Before(e, f)
  BY Zenon DEF Promise!Before, Promise!Key
<1>3. \A e : Promise!Visible(e)' = Promise!Visible(e)
  BY <1>1 DEF Promise!Visible, Promise!Before, Promise!Key
<1>4. \A S, k : Promise!Newest(S, k)' = Promise!Newest(S, k)
  BY <1>2 DEF Promise!Newest
<1>5. \A S : Promise!Ascending(S)' = Promise!Ascending(S)
  BY <1>2 DEF Promise!Ascending
<1>6. \A e : Promise!Cited(e)' = Promise!Cited(e)
  BY <1>3, <1>4, <1>5, Zenon DEF Promise!Cited
<1> QED BY <1>6 DEF Promise!Promised, Promise!RecordCiting

LEMMA InitRInv == Init => RInv
<1> SUFFICES ASSUME Init PROVE RInv
  OBVIOUS
<1>1. IInv
  BY InitIInv
<1>2. phase = "validate" /\ log = <<>> /\ catalog.slots_by_label = <<>>
  BY DEF Init, Catalog!Empty
<1>3. DOMAIN log = {} /\ DOMAIN catalog.slots_by_label = {}
  BY <1>2
<1> QED BY <1>1, <1>2, <1>3 DEF RInv, Covered, SortedPhase, CatalogOfFile, PayloadsRead, Recorded

\* A step that replays nothing.
LEMMA StillRInv ==
  ASSUME RInv, IInv', UNCHANGED <<file, order, ordered, catalog, log, next>>,
         phase' = "replay" => phase = "replay",
         SortedPhase' => SortedPhase
  PROVE  RInv'
<1>1. Covered' /\ CatalogOfFile' /\ PayloadsRead'
  BY DEF RInv, Covered, CatalogOfFile, PayloadsRead
<1>2. PredictionsAt' = PredictionsAt /\ Answered' = Answered
  BY Zenon DEF PredictionsAt, Answered
<1>3. \A n, p : RecordedFor(n, p) => RecordedFor(n, p)'
  BY <1>2, PromiseStands DEF RecordedFor
<1>4. Recorded'
  BY <1>2, <1>3, Zenon DEF RInv, Recorded
<1> QED BY <1>1, <1>4 DEF RInv

LEMMA SortKeepsRInv == RInv /\ Sort => RInv'
<1> SUFFICES ASSUME RInv, Sort PROVE RInv'
  OBVIOUS
<1>1. IInv /\ IInv'
  BY SortStep DEF RInv
<1>2. /\ phase = "sort" /\ phase' = "intern" /\ ordered' = Sorted(file, order)
      /\ UNCHANGED <<file, order, catalog, log, next>>
  BY DEF Sort, call
<1>3. /\ file \in Seq(Event) /\ Unambiguous(file) /\ log = <<>> /\ ordered = <<>>
  BY <1>1, <1>2 DEF IInv, TypeOK, ByPhase
<1>4. Covered'
  <2>1. /\ Len(Sorted(file, order)) = Len(file) /\ Sorted(file, order) \in Seq(Event)
        /\ \A i \in DOMAIN file : \E n \in DOMAIN file : Sorted(file, order)[n] = file[i]
    BY <1>3, SortedIsSorted
  <2>2. DOMAIN ordered' = DOMAIN file
    BY <1>2, <1>3, <2>1
  <2> QED BY <1>2, <2>1, <2>2, Zenon DEF Covered
<1>5. CatalogOfFile' /\ PayloadsRead' /\ Recorded'
  <2>1. DOMAIN catalog.slots_by_label = {}
    <3>1. DOMAIN ordered = {}
      BY <1>3
    <3> QED BY <3>1 DEF RInv, CatalogOfFile
  <2>2. DOMAIN log = {}
    BY <1>3
  <2> QED BY <1>2, <2>1, <2>2 DEF CatalogOfFile, PayloadsRead, Recorded
<1> QED BY <1>1, <1>4, <1>5 DEF RInv

LEMMA InternKeepsRInv == RInv /\ Intern => RInv'
<1> SUFFICES ASSUME RInv, Intern PROVE RInv'
  OBVIOUS
<1>1. IInv /\ IInv'
  BY InternStep DEF RInv
<1>2. /\ phase = "intern" /\ phase' \in {"intern", "failed"} /\ next \in DOMAIN ordered
      /\ catalog' = Catalog!Interned(catalog, ordered[next].symbol, SymbolIdOf[ordered[next].symbol])
      /\ UNCHANGED <<file, order, ordered, log>>
  BY <1>1 DEF Intern, Catalog!Intern, call, IInv, TypeOK
<1>3. log = <<>>
  BY <1>1, <1>2 DEF IInv, ByPhase
<1>4. Covered'
  BY <1>2 DEF RInv, Covered, SortedPhase
<1>5. CatalogOfFile'
  <2>1. \A label \in DOMAIN catalog'.slots_by_label :
          label \in DOMAIN catalog.slots_by_label \/ label = ordered[next].symbol
    BY <1>2 DEF Catalog!Interned, Catalog!Extend
  <2> QED BY <1>2, <2>1, Zenon DEF RInv, CatalogOfFile
<1>6. PayloadsRead' /\ Recorded'
  <2>1. DOMAIN log = {}
    BY <1>3
  <2> QED BY <1>2, <2>1 DEF PayloadsRead, Recorded
<1> QED BY <1>1, <1>4, <1>5, <1>6 DEF RInv

LEMMA StartReplayKeepsRInv == RInv /\ StartReplay => RInv'
<1> SUFFICES ASSUME RInv, StartReplay PROVE RInv'
  OBVIOUS
<1>1. IInv /\ IInv'
  BY StartReplayStep DEF RInv
<1>2. /\ phase = "intern" /\ phase' = "replay" /\ next' = 1
      /\ UNCHANGED <<file, order, ordered, catalog, log>>
  BY DEF StartReplay, call
<1>3. log = <<>>
  BY <1>1, <1>2 DEF IInv, ByPhase
<1>4. Covered' /\ CatalogOfFile'
  BY <1>2 DEF RInv, Covered, SortedPhase, CatalogOfFile
<1>5. PayloadsRead'
  <2>1. 1..(next' - 1) = {}
    BY <1>2
  <2> QED BY <2>1, Zenon DEF PayloadsRead
<1>6. Recorded'
  <2>1. DOMAIN ordered = 1..Len(ordered)
    BY <1>1, OrderedIncreases
  <2>2. Answered' = {}
    BY <1>2, <2>1 DEF Answered, PredictionsAt
  <2>3. Len(log') = 0 /\ DOMAIN log' = {}
    BY <1>2, <1>3
  <2> QED BY <2>2, <2>3, FS_EmptySet DEF Recorded
<1> QED BY <1>1, <1>4, <1>5, <1>6 DEF RInv

-----------------------------------------------------------------------------
\* A step of the loop moves past one row.
LEMMA LoopAdvances ==
  ASSUME RInv, Replaying, next' = next + 1, UNCHANGED <<file, order, phase, ordered, catalog>>,
         UpdatesSignalState(Current) => PayloadOk(Current)
  PROVE  /\ Covered' /\ CatalogOfFile' /\ PayloadsRead'
         /\ PredictionsAt' = PredictionsAt
         /\ ~IsPrediction(Current) => Answered' = Answered
         /\ IsPrediction(Current) => /\ next \in PredictionsAt
                                     /\ Answered' = Answered \cup {next}
                                     /\ Rank(PredictionsAt, next) = Cardinality(Answered) + 1
                                     /\ Cardinality(Answered') = Cardinality(Answered) + 1
<1>1. /\ IInv /\ next \in DOMAIN ordered /\ next \in Nat /\ DOMAIN ordered = 1..Len(ordered)
      /\ Len(ordered) \in Nat /\ phase = "replay"
  BY OrderedIncreases DEF RInv, Replaying, IInv, TypeOK
<1>2. Covered'
  BY <1>1 DEF RInv, Covered, SortedPhase
<1>3. CatalogOfFile'
  BY DEF RInv, CatalogOfFile
<1>4. PayloadsRead'
  <2>1. \A p \in 1..(next' - 1) : p \in 1..(next - 1) \/ p = next
    BY <1>1
  <2> QED BY <1>1, <2>1, Zenon DEF RInv, PayloadsRead, Current
<1>5. PredictionsAt' = PredictionsAt
  BY Zenon DEF PredictionsAt
<1>6. \A p \in PredictionsAt : p \in 1..Len(ordered) /\ (p < next' <=> p < next \/ p = next)
  BY <1>1 DEF PredictionsAt
<1>7. next \in PredictionsAt <=> IsPrediction(Current)
  BY <1>1, Zenon DEF PredictionsAt, Current
<1>8. \A p : p \in Answered' <=> p \in Answered \/ (p = next /\ IsPrediction(Current))
  BY <1>5, <1>6, <1>7, Zenon DEF Answered
<1>9. ~IsPrediction(Current) => Answered' = Answered
  BY <1>8, Zenon
<1>10. ASSUME IsPrediction(Current)
       PROVE  /\ Answered' = Answered \cup {next}
              /\ Rank(PredictionsAt, next) = Cardinality(Answered) + 1
              /\ Cardinality(Answered') = Cardinality(Answered) + 1
  <2>1. Answered' = Answered \cup {next}
    BY <1>8, <1>10
  <2>2. /\ Cardinality(Answered) = Rank(PredictionsAt, next) - 1
        /\ Rank(PredictionsAt, next) \in Nat
    <3>1. \A p \in PredictionsAt : Rank(PredictionsAt, p) \in 1..Cardinality(PredictionsAt)
                 /\ Cardinality({ q \in PredictionsAt : q < p }) = Rank(PredictionsAt, p) - 1
      BY <1>1, <1>6, RankOrder
    <3>2. Cardinality(Answered) = Rank(PredictionsAt, next) - 1
      BY <1>7, <1>10, <3>1, Zenon DEF Answered
    <3>3. Rank(PredictionsAt, next) \in 1..Cardinality(PredictionsAt)
      BY <1>7, <1>10, <3>1, Zenon
    <3> HIDE DEF PredictionsAt
    <3> QED BY <3>2, <3>3
  <2>3. IsFiniteSet(Answered) /\ next \notin Answered
    <3>1. IsFiniteSet(1..Len(ordered)) /\ Answered \subseteq 1..Len(ordered)
      BY <1>1, <1>6, FS_Interval DEF Answered
    <3>2. next \notin Answered
      BY <1>1 DEF Answered
    <3> QED BY <3>1, <3>2, FS_Subset
  <2>4. Cardinality(Answered \cup {next}) = Cardinality(Answered) + 1
    BY <2>3, FS_AddElement
  <2> QED BY <2>1, <2>2, <2>4
<1> QED BY <1>2, <1>3, <1>4, <1>5, <1>7, <1>9, <1>10

\* A row that is no prediction leaves the log alone.
LEMMA SilentRowKeepsRInv ==
  ASSUME RInv, IInv', Replaying, next' = next + 1,
         UNCHANGED <<file, order, phase, ordered, catalog, log>>,
         UpdatesSignalState(Current) => PayloadOk(Current), ~IsPrediction(Current)
  PROVE  RInv'
<1>1. /\ Covered' /\ CatalogOfFile' /\ PayloadsRead'
      /\ PredictionsAt' = PredictionsAt /\ Answered' = Answered
  BY LoopAdvances
<1>2. \A p \in PredictionsAt : p < next => p < next'
  BY OrderedIncreases DEF RInv, PredictionsAt, IInv, TypeOK
<1>3. \A n, p : p \in PredictionsAt /\ RecordedFor(n, p) => RecordedFor(n, p)'
  BY <1>1, <1>2, PromiseStands DEF RecordedFor
<1>4. Recorded'
  BY <1>1, <1>3, Zenon DEF RInv, Recorded
<1> QED BY <1>1, <1>4 DEF RInv

LEMMA PredictKeepsRInv == RInv /\ Predict => RInv'
<1> SUFFICES ASSUME RInv, Predict PROVE RInv'
  OBVIOUS
<1>1. IInv /\ IInv' /\ Covered /\ log \in Seq(Record) /\ log' \in Seq(Record)
  BY PredictStep DEF RInv, IInv, TypeOK
<1>2. /\ Replaying /\ IsPrediction(Current) /\ next' = next + 1 /\ phase = "replay"
      /\ log' = Append(log, RecordOf(Current, Evaluate(recent[SlotOf(Current)])))
      /\ UNCHANGED <<file, order, phase, ordered, catalog>>
  BY DEF Predict, call, Replaying
<1>3. ~UpdatesSignalState(Current)
  BY <1>2 DEF IsPrediction, UpdatesSignalState, FeatureRoles
<1>4. /\ Covered' /\ CatalogOfFile' /\ PayloadsRead'
      /\ PredictionsAt' = PredictionsAt /\ next \in PredictionsAt
      /\ Rank(PredictionsAt, next) = Cardinality(Answered) + 1
      /\ Cardinality(Answered') = Cardinality(Answered) + 1
  BY <1>2, <1>3, LoopAdvances
<1>5. log' = Append(log, Promise!Promised(Current))
  BY <1>1, <1>2, PredictionIsPromised
<1>6. Len(log) = Cardinality(Answered) /\ \A n \in DOMAIN log : \E p \in PredictionsAt : RecordedFor(n, p)
  BY <1>2, Zenon DEF RInv, Recorded
<1>7. /\ \A n \in DOMAIN log' : (n \in DOMAIN log /\ log'[n] = log[n]) \/ n = Len(log) + 1
      /\ log'[Len(log) + 1] = Promise!Promised(Current)
      /\ Len(log') = Len(log) + 1
  BY <1>1, <1>5
<1>8. /\ \A p \in PredictionsAt : p < next => p < next'
      /\ next < next'
  BY <1>1, <1>2, OrderedIncreases DEF PredictionsAt, IInv, TypeOK
<1>9. ASSUME NEW n \in DOMAIN log'
      PROVE  \E p \in PredictionsAt : RecordedFor(n, p)'
  <2>1. CASE n \in DOMAIN log /\ log'[n] = log[n]
    <3>1. PICK p \in PredictionsAt : RecordedFor(n, p)
      BY <1>6, <2>1, Zenon
    <3>2. RecordedFor(n, p)'
      BY <1>2, <1>4, <1>8, <2>1, <3>1, PromiseStands DEF RecordedFor
    <3> QED BY <3>2, Zenon
  <2>2. CASE n = Len(log) + 1
    <3>1. PICK p \in PredictionsAt : p = next
      BY <1>4
    <3>2. p < next' /\ Rank(PredictionsAt, p) = n
      BY <1>4, <1>6, <1>8, <2>2, <3>1
    <3>3. log'[n] = Promise!Promised(ordered[p])
      BY <1>7, <2>2, <3>1 DEF Current
    <3>4. RecordedFor(n, p)'
      BY <1>2, <1>4, <3>2, <3>3, PromiseStands DEF RecordedFor
    <3> QED BY <3>4, Zenon
  <2> QED BY <1>7, <2>1, <2>2
<1>10. Len(log') = Cardinality(Answered')
  BY <1>4, <1>6, <1>7
<1>11. Recorded'
  BY <1>4, <1>9, <1>10, Zenon DEF Recorded
<1> QED BY <1>1, <1>4, <1>11 DEF RInv

LEMMA NextRInv == RInv /\ [Next]_vars => RInv'
<1> SUFFICES ASSUME RInv, [Next]_vars PROVE RInv'
  OBVIOUS
<1>1. IInv /\ IInv'
  BY NextIInv DEF RInv
<1>2. CASE Validate
  <2>1. log = <<>> /\ ordered = <<>>
    BY <1>1, <1>2 DEF Validate, IInv, ByPhase
  <2> QED BY <1>1, <1>2, <2>1, StillRInv DEF Validate, call, SortedPhase
<1>3. CASE Sort
  BY <1>3, SortKeepsRInv
<1>4. CASE Intern
  BY <1>4, InternKeepsRInv
<1>5. CASE StartReplay
  BY <1>5, StartReplayKeepsRInv
<1>6. CASE ApplyFeature
  <2>1. ~IsPrediction(Current)
    BY <1>6 DEF ApplyFeature, UpdatesSignalState, FeatureRoles, IsPrediction
  <2> QED BY <1>1, <1>6, <2>1, SilentRowKeepsRInv DEF ApplyFeature, call
<1>7. CASE Predict
  BY <1>7, PredictKeepsRInv
<1>8. CASE ObserveOutcome
  <2>1. ~IsPrediction(Current) /\ ~UpdatesSignalState(Current)
    BY <1>8 DEF ObserveOutcome, UpdatesSignalState, FeatureRoles, IsPrediction
  <2> QED BY <1>1, <1>8, <2>1, SilentRowKeepsRInv DEF ObserveOutcome, call
<1>9. CASE RejectPayload \/ Finish \/ Returned
  BY <1>1, <1>9, StillRInv DEF RejectPayload, Finish, Returned, Replaying, call, vars, SortedPhase
<1>10. CASE UNCHANGED vars
  BY <1>1, <1>10, StillRInv DEF vars, SortedPhase
<1> QED BY <1>2, <1>3, <1>4, <1>5, <1>6, <1>7, <1>8, <1>9, <1>10 DEF Next

LEMMA RefinementInvariance == Spec => []RInv
BY InitRInv, NextRInv, PTL DEF Spec

-----------------------------------------------------------------------------
(***************************************************************************)
(* The steps of the engine as steps of the promise: a failing step is      *)
(* Refuse, Predict is Record, Finish is Publish, the rest is internal.     *)
(***************************************************************************)
LEMMA RowsOfOrdered ==
  ASSUME IInv, NEW p \in DOMAIN ordered
  PROVE  ordered[p] \in Promise!Rows
BY Zenon DEF IInv, Arranged, Promise!Rows

\* An unambiguous file has no conflict, a file refused by validation has one.
LEMMA ValidationDecides ==
  ASSUME IInv
  PROVE  /\ Unambiguous(file) => ~Promise!Ambiguous
         /\ FirstIdentityError(file) # "ok" => Promise!Ambiguous
<1>1. \A e : Promise!EventKey(e) = EventKey(e)
  BY PromisedEvents
<1>2. Unambiguous(file) => ~Promise!Ambiguous
  BY <1>1, Zenon DEF Unambiguous, Unlike, SamePosition, Promise!Ambiguous, Promise!Conflict
<1>3. ASSUME FirstIdentityError(file) # "ok"
      PROVE  Promise!Ambiguous
  <2> DEFINE bad == { n \in DOMAIN file : IdentityError(file, n) # "ok" }
  <2>1. PICK n \in DOMAIN file : IdentityError(file, n) # "ok"
    <3>1. bad # {}
      BY <1>3, Zenon DEF FirstIdentityError
    <3> QED BY <3>1, Zenon
  <2>2. PICK m \in 1..(n - 1) : \/ file[m].id = file[n].id
                               \/ EventKey(file[m]) = EventKey(file[n])
                               \/ SamePosition(file[m], file[n])
    BY <2>1, Zenon DEF IdentityError
  <2>3. Promise!Conflict(file[m], file[n])
    BY <1>1, <2>2 DEF EventKey, SamePosition, Promise!Conflict
  <2>4. m \in DOMAIN file /\ m # n
    <3>1. \A k \in DOMAIN file : k \in Int /\ 1..(k - 1) \subseteq DOMAIN file
      BY DEF IInv, TypeOK
    <3> QED BY <3>1, <2>2
  <2> QED BY <2>3, <2>4, Zenon DEF Promise!Ambiguous
<1> QED BY <1>2, <1>3

\* Interning fails only where two symbols of the file share an id.
LEMMA FailedInternIsDefect ==
  ASSUME RInv, Intern, status' # "ok"
  PROVE  Promise!Defective
<1> DEFINE label == ordered[next].symbol
           id == SymbolIdOf[label]
<1>1. /\ IInv /\ next \in DOMAIN ordered
      /\ Catalog!InternResult(catalog, label, id) # "ok"
  BY DEF Intern, Catalog!Intern, RInv, IInv, TypeOK
<1>2. /\ DOMAIN catalog.slots_by_label
           = { catalog.labels_by_slot[s] : s \in 1..Len(catalog.labels_by_slot) }
      /\ DOMAIN catalog.slots_by_id
           = { catalog.ids_by_slot[s] : s \in 1..Len(catalog.labels_by_slot) }
      /\ \A s \in 1..Len(catalog.labels_by_slot) :
           /\ catalog.slots_by_label[catalog.labels_by_slot[s]] = s
           /\ catalog.slots_by_id[catalog.ids_by_slot[s]] = s
           /\ catalog.ids_by_slot[s] = SymbolIdOf[catalog.labels_by_slot[s]]
  BY <1>1, Zenon DEF IInv, Interning, CatalogFacts!Sound, CatalogFacts!Consistent,
     CatalogFacts!Slots
<1> HIDE DEF label
<1>3. label \notin DOMAIN catalog.slots_by_label
  <2> SUFFICES ASSUME label \in DOMAIN catalog.slots_by_label PROVE FALSE
    OBVIOUS
  <2>1. PICK s \in 1..Len(catalog.labels_by_slot) : catalog.labels_by_slot[s] = label
    BY <1>2, Zenon
  <2>2. catalog.ids_by_slot[catalog.slots_by_label[label]] = id
    BY <1>2, <2>1
  <2> QED BY <1>1, <2>2, Zenon DEF Catalog!InternResult, Catalog!Knows
<1>4. id \in DOMAIN catalog.slots_by_id
  BY <1>1, <1>3, Zenon DEF Catalog!InternResult, Catalog!Knows
<1>5. PICK s \in 1..Len(catalog.labels_by_slot) : SymbolIdOf[catalog.labels_by_slot[s]] = id
  BY <1>2, <1>4
<1>6. catalog.labels_by_slot[s] \in DOMAIN catalog.slots_by_label
  BY <1>2, Zenon
<1>7. PICK p \in DOMAIN ordered : ordered[p].symbol = catalog.labels_by_slot[s]
  BY <1>6, Zenon DEF RInv, CatalogOfFile
<1>8. /\ ordered[p].symbol # ordered[next].symbol
      /\ SymbolIdOf[ordered[p].symbol] = SymbolIdOf[ordered[next].symbol]
  BY <1>3, <1>5, <1>6, <1>7, Zenon DEF label
<1>9. ordered[p] \in Promise!Rows /\ ordered[next] \in Promise!Rows
  BY <1>1, <1>7, RowsOfOrdered
<1> QED BY <1>8, <1>9, Zenon DEF Promise!Defective

LEMMA RejectedPayloadIsDefect ==
  ASSUME RInv, RejectPayload
  PROVE  Promise!Defective
<1>1. IInv /\ next \in DOMAIN ordered /\ UpdatesSignalState(Current) /\ ~PayloadOk(Current)
  BY DEF RejectPayload, Replaying, RInv, IInv, TypeOK
<1>2. Current \in Promise!Rows
  BY <1>1, RowsOfOrdered DEF Current
<1> QED BY <1>1, <1>2, PromisedEvents, Zenon DEF Promise!Defective

\* A call that reached the end met no defect.
LEMMA FinishedHasNoDefect ==
  ASSUME RInv, Finish
  PROVE  ~Promise!Defective
<1>1. /\ IInv /\ Covered /\ SortedPhase /\ phase = "replay"
      /\ \A p \in DOMAIN ordered : p \in 1..(next - 1)
  BY OrderedIncreases DEF Finish, RInv, SortedPhase, IInv, TypeOK
<1>2. ~Promise!Ambiguous
  BY <1>1, ValidationDecides DEF IInv, ByPhase
<1>3. ASSUME NEW e \in Promise!Rows, NEW f \in Promise!Rows, e.symbol # f.symbol
      PROVE  SymbolIdOf[e.symbol] # SymbolIdOf[f.symbol]
  <2>1. e.symbol \in DOMAIN catalog.slots_by_label /\ f.symbol \in DOMAIN catalog.slots_by_label
    <3>1. \A p \in DOMAIN ordered : ordered[p].symbol \in DOMAIN catalog.slots_by_label
      BY <1>1, Zenon DEF IInv, Interning, Known, Catalog!Knows
    <3> QED BY <1>1, <3>1, RowsAreOrdered, Zenon
  <2>2. /\ DOMAIN catalog.slots_by_label
             = { catalog.labels_by_slot[s] : s \in 1..Len(catalog.labels_by_slot) }
        /\ \A s \in 1..Len(catalog.labels_by_slot) :
             /\ catalog.slots_by_id[catalog.ids_by_slot[s]] = s
             /\ catalog.ids_by_slot[s] = SymbolIdOf[catalog.labels_by_slot[s]]
    BY <1>1, Zenon DEF IInv, Interning, CatalogFacts!Sound, CatalogFacts!Consistent,
       CatalogFacts!Slots
  <2>3. PICK s \in 1..Len(catalog.labels_by_slot) : catalog.labels_by_slot[s] = e.symbol
    BY <2>1, <2>2, Zenon
  <2>4. PICK t \in 1..Len(catalog.labels_by_slot) : catalog.labels_by_slot[t] = f.symbol
    BY <2>1, <2>2, Zenon
  <2>5. s # t
    BY <1>3, <2>3, <2>4
  <2>6. /\ catalog.slots_by_id[SymbolIdOf[e.symbol]] = s
        /\ catalog.slots_by_id[SymbolIdOf[f.symbol]] = t
    BY <2>2, <2>3, <2>4, Zenon
  <2> QED BY <2>5, <2>6, Zenon
<1>4. \A e \in Promise!Rows : UpdatesSignalState(e) => PayloadOk(e)
  <2>1. \A p \in DOMAIN ordered : UpdatesSignalState(ordered[p]) => PayloadOk(ordered[p])
    BY <1>1, Zenon DEF RInv, PayloadsRead
  <2> QED BY <1>1, <2>1, RowsAreOrdered, Zenon
<1> QED BY <1>2, <1>3, <1>4, PromisedEvents, Zenon DEF Promise!Defective

\* The predictions of the file, in the order in which they are replayed.
LEMMA PredictionsAreListed ==
  ASSUME IInv, Covered, SortedPhase
  PROVE  /\ Promise!Predictions = Listed(ordered, PredictionsAt)
         /\ Len(Promise!Predictions) = Cardinality(PredictionsAt)
         /\ \A p \in PredictionsAt : /\ Rank(PredictionsAt, p) \in 1..Cardinality(PredictionsAt)
                                     /\ Promise!Predictions[Rank(PredictionsAt, p)] = ordered[p]
<1>1. \A p \in PredictionsAt : p \in DOMAIN ordered /\ p \in 1..Len(ordered)
  BY OrderedIncreases DEF PredictionsAt
<1>2. Increasing(ordered, PredictionsAt)
  BY <1>1, OrderedIncreases, Zenon DEF Increasing
<1>3. \A e : e \in Promise!Rows /\ Promise!IsPrediction(e) <=> e \in At(ordered, PredictionsAt)
  BY PromisedEvents, RowsAreOrdered, Zenon DEF At, PredictionsAt
<1>4. { e \in Promise!Rows : Promise!IsPrediction(e) } = At(ordered, PredictionsAt)
  BY <1>3, Zenon
<1> HIDE DEF PredictionsAt
<1>5. Promise!Ascending(At(ordered, PredictionsAt)) = Listed(ordered, PredictionsAt)
  BY <1>1, <1>2, OrderedIncreases, AscendingIsListed
<1>6. Promise!Predictions = Listed(ordered, PredictionsAt)
  BY <1>4, <1>5, Zenon DEF Promise!Predictions
<1>7. ordered \in Seq(Event)
  BY DEF IInv, TypeOK
<1>8. Len(Listed(ordered, PredictionsAt)) = Cardinality(PredictionsAt)
  BY <1>1, <1>7, ListedType
<1>9. \A p \in PredictionsAt : /\ Rank(PredictionsAt, p) \in 1..Cardinality(PredictionsAt)
                               /\ Listed(ordered, PredictionsAt)[Rank(PredictionsAt, p)] = ordered[p]
  BY <1>1, OrderedIncreases, RankOrder, ListedAtRank
<1> QED BY <1>6, <1>8, <1>9

LEMMA PredictIsRecord ==
  ASSUME RInv, Predict
  PROVE  Promise!Record
<1>1. /\ IInv /\ Covered /\ SortedPhase /\ phase = "replay" /\ Replaying
      /\ next \in DOMAIN ordered /\ next \in Nat
  BY DEF Predict, Replaying, RInv, SortedPhase, IInv, TypeOK
<1>2. /\ IsPrediction(Current) /\ next' = next + 1
      /\ log' = Append(log, RecordOf(Current, Evaluate(recent[SlotOf(Current)])))
      /\ UNCHANGED <<file, order, phase, ordered, catalog>>
  BY DEF Predict, call
<1>3. ~UpdatesSignalState(Current)
  BY <1>2 DEF IsPrediction, UpdatesSignalState, FeatureRoles
<1>4. next \in PredictionsAt /\ Rank(PredictionsAt, next) = Cardinality(Answered) + 1
  BY <1>1, <1>2, <1>3, LoopAdvances
<1>5. Len(log) = Cardinality(Answered) /\ Len(log) \in Nat
  BY <1>1 DEF RInv, Recorded, IInv, TypeOK
<1>6. Len(log) + 1 = Rank(PredictionsAt, next)
  BY <1>4, <1>5
<1>7. /\ Promise!Predictions[Len(log) + 1] = Current
      /\ Len(log) + 1 \in 1..Len(Promise!Predictions)
  BY <1>1, <1>4, <1>6, PredictionsAreListed DEF Current
<1>8. Len(log) < Len(Promise!Predictions)
  BY <1>5, <1>7
<1>9. ~Promise!Ambiguous
  BY <1>1, ValidationDecides DEF IInv, ByPhase
<1>10. ~\E e \in Promise!Rows : /\ Promise!UpdatesSignalState(e) /\ ~Promise!PayloadOk(e)
                                /\ Promise!Before(e, Current)
  <2>1. ASSUME NEW e \in Promise!Rows, UpdatesSignalState(e), Promise!Before(e, Current)
        PROVE  PayloadOk(e)
    <3>1. PICK p \in DOMAIN ordered : e = ordered[p]
      BY <1>1, RowsAreOrdered
    <3>2. p < next
      BY <1>1, <2>1, <3>1, OrderedIncreases DEF Current
    <3>3. p \in 1..(next - 1)
      BY <1>1, <3>2, OrderedIncreases
    <3> QED BY <1>1, <2>1, <3>1, <3>3, Zenon DEF RInv, PayloadsRead
  <2> QED BY <2>1, PromisedEvents, Zenon
<1>11. log' = Append(log, Promise!Promised(Current))
  BY <1>1, <1>2, PredictionIsPromised
<1> QED BY <1>1, <1>2, <1>7, <1>8, <1>9, <1>10, <1>11 DEF Promise!Record

LEMMA FinishIsPublish ==
  ASSUME RInv, Finish
  PROVE  Promise!Publish
<1>1. /\ IInv /\ Covered /\ SortedPhase /\ phase = "replay" /\ phase' = "done"
      /\ UNCHANGED <<file, order, log>> /\ next > Len(ordered)
  BY DEF Finish, RInv, SortedPhase, call
<1>2. Answered = PredictionsAt
  BY <1>1, OrderedIncreases DEF Answered, PredictionsAt, IInv, TypeOK
<1>3. Len(log) = Len(Promise!Predictions)
  BY <1>1, <1>2, PredictionsAreListed DEF RInv, Recorded
<1>4. ~Promise!Defective
  BY FinishedHasNoDefect
<1> QED BY <1>1, <1>3, <1>4 DEF Promise!Publish

\* A step that leaves the promise's variables alone.
LEMMA InternalStep ==
  ASSUME UNCHANGED <<file, order, log>>, phase' # "done", phase' # "failed",
         phase # "done", phase # "failed"
  PROVE  UNCHANGED Promise!vars
BY DEF Promise!vars

LEMMA FailureIsRefuse ==
  ASSUME UNCHANGED <<file, order, log>>, phase' = "failed", phase \notin {"done", "failed"},
         Promise!Defective
  PROVE  Promise!Refuse
BY DEF Promise!Refuse

LEMMA StepIsPromised == RInv /\ [Next]_vars => [Promise!Next]_Promise!vars
<1> SUFFICES ASSUME RInv, [Next]_vars PROVE [Promise!Next]_Promise!vars
  OBVIOUS
<1> USE DEF Promise!Next
<1>1. CASE Validate
  <2>1. CASE FirstIdentityError(file) = "ok"
    BY <1>1, <2>1, InternalStep DEF Validate, call
  <2>2. CASE FirstIdentityError(file) # "ok"
    <3>1. Promise!Defective
      BY <2>2, ValidationDecides DEF Promise!Defective, RInv
    <3> QED BY <1>1, <2>2, <3>1, FailureIsRefuse DEF Validate, call
  <2> QED BY <2>1, <2>2
<1>2. CASE Sort \/ StartReplay
  BY <1>2, InternalStep DEF Sort, StartReplay, call
<1>3. CASE Intern
  <2>1. CASE status' = "ok"
    BY <1>3, <2>1, InternalStep DEF Intern, call
  <2>2. CASE status' # "ok"
    <3>1. Promise!Defective
      BY <1>3, <2>2, FailedInternIsDefect
    <3> QED BY <1>3, <2>2, <3>1, FailureIsRefuse DEF Intern, call
  <2> QED BY <2>1, <2>2
<1>4. CASE ApplyFeature \/ ObserveOutcome
  BY <1>4, InternalStep DEF ApplyFeature, ObserveOutcome, Replaying, call
<1>5. CASE RejectPayload
  <2>1. Promise!Defective
    BY <1>5, RejectedPayloadIsDefect
  <2> QED BY <1>5, <2>1, FailureIsRefuse DEF RejectPayload, Replaying, call
<1>6. CASE Predict
  BY <1>6, PredictIsRecord
<1>7. CASE Finish
  BY <1>7, FinishIsPublish
<1>8. CASE Returned
  BY <1>8 DEF Returned, vars, call, Promise!vars
<1>9. CASE UNCHANGED vars
  BY <1>9 DEF vars, call, Promise!vars
<1> QED BY <1>1, <1>2, <1>3, <1>4, <1>5, <1>6, <1>7, <1>8, <1>9 DEF Next

-----------------------------------------------------------------------------
\* Every call of replay_with_order keeps the as-of promise: whatever the
\* arrangement of the file, the capacity of the histories, the signal and the
\* hashes, the n-th record is the function AsOfReplay gives of the rows before
\* the n-th prediction, and a file is refused only for a defect
\* (replay.rs:68-153).
THEOREM KeepsThePromise == Spec => ImplementsAsOf
<1>1. Init => Promise!Init
  BY DEF Init, Promise!Init
<1>2. RInv /\ [Next]_vars => [Promise!Next]_Promise!vars
  BY StepIsPromised
<1> QED BY <1>1, <1>2, RefinementInvariance, PTL DEF Spec, ImplementsAsOf, Promise!Spec

-----------------------------------------------------------------------------
(***************************************************************************)
(* The audit of a record looks at one key, the largest cited.              *)
(***************************************************************************)
\* In an unambiguous file a key names one row.
LEMMA KeysNameRows ==
  ASSUME IInv, SortedPhase, NEW p \in DOMAIN ordered
  PROVE  /\ LabelFor(EventKey(ordered[p])) = ordered[p].id
         /\ \A i \in DOMAIN file : EventKey(file[i]) = EventKey(ordered[p]) => file[i] = ordered[p]
         /\ \E i \in DOMAIN file : file[i] = ordered[p]
<1> DEFINE Named(q) == EventKey(ordered[q]) = EventKey(ordered[p])
           at == CHOOSE q \in DOMAIN ordered : Named(q)
<1>1. \A q \in DOMAIN ordered : Named(q) => q = p
  BY OrderedIsDistinct, Zenon DEF Distinct, Unlike
<1>2. Named(p)
  OBVIOUS
<1>3. LabelFor(EventKey(ordered[p])) = ordered[at].id
  BY Zenon DEF LabelFor
<1> HIDE DEF Named
<1>4. at = p
  BY <1>1, <1>2, Zenon
<1>5. PICK a \in DOMAIN file : ordered[p] = file[a]
  BY Zenon DEF IInv, Arranged
<1>6. Unambiguous(file)
  BY Zenon DEF IInv, ByPhase, SortedPhase
<1>7. \A i \in DOMAIN file : EventKey(file[i]) = EventKey(ordered[p]) => file[i] = ordered[p]
  BY <1>5, <1>6, Zenon DEF Unambiguous, Unlike
<1> HIDE DEF at
<1> QED BY <1>3, <1>4, <1>5, <1>7

\* What was received before an event was received before all that follow it.
LEMMA ReceiptIsTransitive ==
  \A e, f, g \in Event : ReceivedBefore(e, f) /\ ReceivedBefore(f, g) => ReceivedBefore(e, g)
<1>1. \A e : OrderKey("ReceivedTime", e) = ReplayKey(e)
  BY DEF OrderKey
<1>2. \A e, f, g \in Event :
        /\ Precedes(OrderKey("ReceivedTime", e), OrderKey("ReceivedTime", f))
        /\ Precedes(OrderKey("ReceivedTime", f), OrderKey("ReceivedTime", g))
        => Precedes(OrderKey("ReceivedTime", e), OrderKey("ReceivedTime", g))
  BY OrderKeysAreOrdered
<1> QED BY <1>1, <1>2 DEF ReceivedBefore

LEMMA RInvImpliesFlagIsExact == RInv => FlagIsExact
<1> SUFFICES ASSUME RInv, NEW n \in DOMAIN log
             PROVE  ViolatesReplayKeyOrder(log[n]) <=>
                      \E k \in DOMAIN log[n].inputs : \E i, j \in DOMAIN file :
                        /\ EventKey(file[i]) = log[n].inputs[k]
                        /\ EventKey(file[j]) = log[n].key
                        /\ ReceivedBefore(file[j], file[i])
  BY Zenon DEF FlagIsExact, ImpossiblePredictions
<1>1. IInv /\ Covered /\ SortedPhase
  <2>1. log # <<>>
    BY DEF RInv, IInv, TypeOK
  <2> QED BY <2>1 DEF RInv, SortedPhase
<1>2. PICK p \in PredictionsAt : log[n] = Promise!Promised(ordered[p])
  BY Zenon DEF RInv, Recorded, RecordedFor
<1>3. p \in DOMAIN ordered /\ ordered[p] \in Event
  BY <1>1, OrderedIncreases DEF PredictionsAt
<1> DEFINE cited == Promise!Cited(ordered[p])
           last == Promise!LastReceived(cited)
           Late(e) == ReceivedBefore(ordered[p], e)
<1>4. \A e : Promise!EventKey(e) = EventKey(e)
  BY PromisedEvents
<1>5. /\ log[n].key = EventKey(ordered[p])
      /\ log[n].time = ordered[p].received_time
      /\ log[n].seq = ordered[p].seq
      /\ DOMAIN log[n].inputs = DOMAIN cited
      /\ \A k \in DOMAIN cited : log[n].inputs[k] = EventKey(cited[k])
      /\ cited = <<>> => log[n].max_key = Absent
      /\ cited # <<>> => /\ log[n].max_time = last.received_time
                         /\ log[n].max_seq = last.seq
                         /\ log[n].max_key = EventKey(last)
  BY <1>2, <1>4 DEF Promise!Promised, Promise!RecordCiting
<1>6. PICK N \in Nat : DOMAIN cited = 1..N
  BY <1>1, <1>3, CitedRows, Zenon
<1>7. \A k \in DOMAIN cited : \E q \in DOMAIN ordered : cited[k] = ordered[q]
  BY <1>1, <1>3, CitedRows, Zenon
<1>8. Distinct(cited)
  BY <1>1, <1>3, CitedRows, Zenon
<1>9. \A k \in DOMAIN cited : cited[k] \in Event
  BY <1>1, <1>7, OrderedIncreases, Zenon
<1> HIDE DEF cited, last
<1>10. (\E k \in DOMAIN log[n].inputs : \E i, j \in DOMAIN file :
          /\ EventKey(file[i]) = log[n].inputs[k]
          /\ EventKey(file[j]) = log[n].key
          /\ ReceivedBefore(file[j], file[i]))
       <=> \E k \in DOMAIN cited : Late(cited[k])
  <2>1. ASSUME NEW k \in DOMAIN cited, NEW i \in DOMAIN file, NEW j \in DOMAIN file,
               EventKey(file[i]) = EventKey(cited[k]), EventKey(file[j]) = EventKey(ordered[p])
        PROVE  file[i] = cited[k] /\ file[j] = ordered[p]
    <3>1. PICK q \in DOMAIN ordered : cited[k] = ordered[q]
      BY <1>7
    <3>2. file[i] = ordered[q]
      BY <1>1, <2>1, <3>1, KeysNameRows
    <3>3. file[j] = ordered[p]
      BY <1>1, <1>3, <2>1, KeysNameRows
    <3> QED BY <3>1, <3>2, <3>3
  <2>2. ASSUME NEW k \in DOMAIN cited
        PROVE  \E i, j \in DOMAIN file : file[i] = cited[k] /\ file[j] = ordered[p]
    <3>1. PICK q \in DOMAIN ordered : cited[k] = ordered[q]
      BY <1>7
    <3>2. PICK i \in DOMAIN file : file[i] = ordered[q]
      BY <1>1, KeysNameRows
    <3>3. PICK j \in DOMAIN file : file[j] = ordered[p]
      BY <1>1, <1>3, KeysNameRows
    <3> QED BY <3>1, <3>2, <3>3, Zenon
  <2>3. ASSUME NEW k \in DOMAIN log[n].inputs, NEW i \in DOMAIN file, NEW j \in DOMAIN file,
               EventKey(file[i]) = log[n].inputs[k], EventKey(file[j]) = log[n].key,
               ReceivedBefore(file[j], file[i])
        PROVE  \E x \in DOMAIN cited : Late(cited[x])
    <3>1. k \in DOMAIN cited /\ log[n].inputs[k] = EventKey(cited[k])
      BY <1>5
    <3>2. file[i] = cited[k] /\ file[j] = ordered[p]
      BY <1>5, <2>1, <2>3, <3>1
    <3> QED BY <2>3, <3>1, <3>2
  <2>4. ASSUME NEW k \in DOMAIN cited, Late(cited[k])
        PROVE  \E x \in DOMAIN log[n].inputs : \E i, j \in DOMAIN file :
                 /\ EventKey(file[i]) = log[n].inputs[x]
                 /\ EventKey(file[j]) = log[n].key
                 /\ ReceivedBefore(file[j], file[i])
    <3>1. PICK i \in DOMAIN file, j \in DOMAIN file : file[i] = cited[k] /\ file[j] = ordered[p]
      BY <2>2
    <3>2. k \in DOMAIN log[n].inputs /\ log[n].inputs[k] = EventKey(cited[k])
      BY <1>5
    <3>3. /\ EventKey(file[i]) = log[n].inputs[k]
          /\ EventKey(file[j]) = log[n].key
          /\ ReceivedBefore(file[j], file[i])
      BY <1>5, <2>4, <3>1, <3>2
    <3> QED BY <3>2, <3>3, Zenon
  <2> HIDE DEF Late
  <2> QED BY <2>3, <2>4, Zenon
<1>11. CASE cited = <<>>
  <2>1. DOMAIN cited = {}
    BY <1>11
  <2> QED BY <1>5, <1>10, <1>11, <2>1, Zenon DEF ViolatesReplayKeyOrder
<1>12. CASE cited # <<>>
  <2>1. N \in Nat \ {0}
    <3> SUFFICES ASSUME N = 0 PROVE cited = <<>>
      BY <1>6, <1>12
    <3>1. cited = Listed(ordered, CitedPositions(p))
      BY <1>1, <1>3, CitedIsListed DEF cited
    <3>2. \A q \in CitedPositions(p) : q \in DOMAIN ordered
      BY <1>1, <1>3, CitedIsListed
    <3>3. cited \in Seq(Event)
      <4>1. ordered \in Seq(Event)
        BY <1>1 DEF IInv, TypeOK
      <4> QED BY <3>1, <3>2, <4>1, ListedType
    <3> QED BY <3>3, <1>6
  <2>2. PICK m \in 1..N : /\ last = cited[m]
                          /\ \A i \in 1..N : i # m => ReceivedBefore(cited[i], cited[m])
    BY <1>6, <1>8, <1>9, <2>1, LastReceivedIsLast DEF last
  <2>3. PICK q \in DOMAIN ordered : cited[m] = ordered[q]
    BY <1>6, <1>7, <2>2
  <2>4. LabelFor(log[n].key) = ordered[p].id /\ LabelFor(log[n].max_key) = last.id
    BY <1>1, <1>3, <1>5, <1>12, <2>2, <2>3, KeysNameRows
  <2>5. log[n].max_key # Absent
    <3>1. last \in Event
      BY <1>6, <1>9, <2>2
    <3>2. EventKey(last) \in Nat
      BY <3>1, EventsAssumption DEF Event, EventKey
    <3> QED BY <1>5, <1>12, <3>2, EventsAssumption
  <2>6. ViolatesReplayKeyOrder(log[n]) <=> Late(last)
    BY <1>5, <1>12, <2>4, <2>5 DEF ViolatesReplayKeyOrder, ReceivedBefore, ReplayKey
  <2>7. ASSUME NEW k \in DOMAIN cited, Late(cited[k])
        PROVE  Late(last)
    <3>1. CASE k = m
      BY <2>2, <2>7, <3>1
    <3>2. CASE k # m
      BY <1>3, <1>6, <1>9, <2>2, <2>7, <3>2, ReceiptIsTransitive
    <3> QED BY <3>1, <3>2
  <2> HIDE DEF Late
  <2> QED BY <1>6, <1>10, <2>2, <2>6, <2>7
<1> QED BY <1>11, <1>12

\* A record is flagged exactly when it cites something received after the
\* prediction, in both orders and for every hash: the one key the audit
\* compares is enough (log.rs:71-87).
THEOREM AuditIsExact == Spec => []FlagIsExact
BY RInvImpliesFlagIsExact, RefinementInvariance, PTL
=============================================================================
