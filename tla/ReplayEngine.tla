---------------------------- MODULE ReplayEngine ----------------------------
(***************************************************************************)
(* The deterministic as-of replay of one event file                        *)
(* (crates/asof-causality/src/replay.rs, with state.rs, catalog.rs and     *)
(* log.rs below it).                                                       *)
(*                                                                         *)
(* One call of replay_with_order is a behaviour: the file is validated,    *)
(* sorted by the replay key of the requested order, its symbols are        *)
(* interned, and its events are applied one at a time.  A feature changes  *)
(* the history of its symbol, a prediction appends a record, an outcome is *)
(* at most counted.  The first error ends the call without a log.          *)
(***************************************************************************)
EXTENDS SignalViews

CONSTANTS
  Files,            \* the event files to replay, sequences of events in file order
  Orders,           \* the orders to replay them in, a subset of ReplayOrders
  OutcomeOptions    \* the values of ReplayOptions::compute_outcomes to try

ReplayOrders == {"ReceivedTime", "ObservedTimeLeaky"}

ASSUME ReplayAssumption ==
  /\ Files \subseteq Seq(Event)
  /\ Orders \subseteq ReplayOrders
  /\ OutcomeOptions \subseteq BOOLEAN

VARIABLES
  file,          \* the events as the caller passed them
  order,         \* ReplayOrder
  outcomes_on,   \* ReplayOptions::compute_outcomes
  phase,         \* where the call stands
  status,        \* "ok", or the error the call returns
  ordered,       \* the sorted copy of the file
  next,          \* the position in `ordered' of the next event
  catalog,       \* the SymbolCatalog
  recent,        \* StateStore: the history of every symbol slot
  log,           \* PredictionLog::records
  outcomes_seen

call == <<file, order, outcomes_on>>
vars == <<file, order, outcomes_on, phase, status, ordered, next, catalog, recent,
          log, outcomes_seen>>

Catalog == INSTANCE SymbolCatalog
             WITH Labels <- Symbols, LabelHash <- SymbolIdOf, answer <- status

Phases == {"validate", "sort", "intern", "replay", "done", "failed"}

Init ==
  /\ file \in Files
  /\ order \in Orders
  /\ outcomes_on \in OutcomeOptions
  /\ phase = "validate"
  /\ status = "ok"
  /\ ordered = <<>>
  /\ next = 1
  /\ catalog = Catalog!Empty
  /\ recent = <<>>
  /\ log = <<>>
  /\ outcomes_seen = 0

(***************************************************************************)
(* validate_event_identity: in file order, and for every event an id, a    *)
(* key and a receipt position nobody before it has.                        *)
(***************************************************************************)
SamePosition(e, f) == e.received_time = f.received_time /\ e.seq = f.seq

\* Seeded error: event keys are not compared.
IdentityErrorWithoutKeys(events, n) ==
  LET Earlier(Same(_, _)) == \E m \in 1..(n - 1) : Same(events[m], events[n]) IN
  IF Earlier(LAMBDA e, f : e.id = f.id) THEN "DuplicateEventId"
  ELSE IF Earlier(SamePosition) THEN "DuplicateReceivedSequenceNumber"
  ELSE "ok"

IdentityError(events, n) ==
  LET Earlier(Same(_, _)) == \E m \in 1..(n - 1) : Same(events[m], events[n]) IN
  IF Earlier(LAMBDA e, f : e.id = f.id) THEN "DuplicateEventId"
  ELSE IF Earlier(LAMBDA e, f : EventKey(e) = EventKey(f)) THEN "EventKeyCollision"
  ELSE IF Earlier(SamePosition) THEN "DuplicateReceivedSequenceNumber"
  ELSE "ok"

FirstIdentityError(events) ==
  LET bad == { n \in DOMAIN events : IdentityError(events, n) # "ok" }
  IN  IF bad = {} THEN "ok"
      ELSE IdentityError(events, CHOOSE n \in bad : \A m \in bad : n <= m)

Validate ==
  /\ phase = "validate"
  /\ status' = FirstIdentityError(file)
  /\ phase' = IF status' = "ok" THEN "sort" ELSE "failed"
  /\ UNCHANGED <<call, ordered, next, catalog, recent, log, outcomes_seen>>

(***************************************************************************)
(* The sorted copy: the event that n - 1 others come before is the n-th.   *)
(* Ids are unique by now, so the keys of the order are, too.               *)
(***************************************************************************)
\* Seeded error: both orders use the observed key.
AlwaysObservedKey(o, e) == ObservedKey(e)

OrderKey(o, e) == IF o = "ReceivedTime" THEN ReplayKey(e) ELSE ObservedKey(e)

SortedBefore(events, o, i) ==
  { j \in DOMAIN events : Precedes(OrderKey(o, events[j]), OrderKey(o, events[i])) }

Sorted(events, o) ==
  [ n \in DOMAIN events |->
      events[CHOOSE i \in DOMAIN events : Cardinality(SortedBefore(events, o, i)) = n - 1] ]

Sort ==
  /\ phase = "sort"
  /\ ordered' = Sorted(file, order)
  /\ phase' = "intern"
  /\ UNCHANGED <<call, status, next, catalog, recent, log, outcomes_seen>>

(***************************************************************************)
(* Interning walks the sorted events; the state store is then sized for    *)
(* the catalog and replay starts over at the first event.                  *)
(***************************************************************************)
Intern ==
  /\ phase = "intern"
  /\ next <= Len(ordered)
  /\ Catalog!Intern(ordered[next].symbol, SymbolIdOf[ordered[next].symbol])
  /\ IF status' = "ok" THEN next' = next + 1 /\ UNCHANGED phase
                       ELSE phase' = "failed" /\ UNCHANGED next
  /\ UNCHANGED <<call, ordered, recent, log, outcomes_seen>>

StartReplay ==
  /\ phase = "intern"
  /\ next > Len(ordered)
  /\ phase' = "replay"
  /\ next' = 1
  /\ recent' = [slot \in 1..Len(catalog.labels_by_slot) |-> <<>>]
  /\ UNCHANGED <<call, status, ordered, catalog, log, outcomes_seen>>

(***************************************************************************)
(* The replay loop, one action per role of the next event.                 *)
(***************************************************************************)
Current == ordered[next]

SlotOf(e) == catalog.slots_by_label[e.symbol]

Replaying == phase = "replay" /\ next <= Len(ordered)

ApplyFeature ==
  /\ Replaying
  /\ UpdatesSignalState(Current)
  /\ PayloadOk(Current)
  /\ recent' = [recent EXCEPT ![SlotOf(Current)] = Push(@, ObservationOf(Current))]
  /\ next' = next + 1
  /\ UNCHANGED <<call, phase, status, ordered, catalog, log, outcomes_seen>>

RejectPayload ==
  /\ Replaying
  /\ UpdatesSignalState(Current)
  /\ ~PayloadOk(Current)
  /\ status' = "PayloadError"
  /\ phase' = "failed"
  /\ UNCHANGED <<call, ordered, next, catalog, recent, log, outcomes_seen>>

RecordOf(e, snapshot) ==
  [ key          |-> EventKey(e),
    time         |-> e.received_time,
    seq          |-> e.seq,
    symbol       |-> SymbolIdOf[e.symbol],
    signal_value |-> snapshot.signal_value,
    inputs       |-> snapshot.inputs,
    max_time     |-> snapshot.max_time,
    max_seq      |-> snapshot.max_seq,
    max_key      |-> snapshot.max_key ]

Predict ==
  /\ Replaying
  /\ IsPrediction(Current)
  /\ log' = Append(log, RecordOf(Current, Evaluate(recent[SlotOf(Current)])))
  /\ next' = next + 1
  /\ UNCHANGED <<call, phase, status, ordered, catalog, recent, outcomes_seen>>

ObserveOutcome ==
  /\ Replaying
  /\ Current.role = "outcome"
  /\ outcomes_seen' = IF outcomes_on THEN outcomes_seen + 1 ELSE outcomes_seen
  /\ next' = next + 1
  /\ UNCHANGED <<call, phase, status, ordered, catalog, recent, log>>

Finish ==
  /\ phase = "replay"
  /\ next > Len(ordered)
  /\ phase' = "done"
  /\ UNCHANGED <<call, status, ordered, next, catalog, recent, log, outcomes_seen>>

(***************************************************************************)
(* The call has returned: nothing changes any more.                        *)
(***************************************************************************)
Returned ==
  /\ phase \in {"done", "failed"}
  /\ UNCHANGED vars

Next ==
  \/ Validate \/ Sort \/ Intern \/ StartReplay
  \/ ApplyFeature \/ RejectPayload \/ Predict \/ ObserveOutcome
  \/ Finish \/ Returned

Spec == Init /\ [][Next]_vars

-----------------------------------------------------------------------------
(***************************************************************************)
(* The audit of a record (log.rs): the largest cited replay key against    *)
(* the prediction's, both with the labels collected from the events.       *)
(***************************************************************************)
LabelFor(key) == ordered[CHOOSE i \in DOMAIN ordered : EventKey(ordered[i]) = key].id

ViolatesReplayKeyOrder(r) ==
  /\ r.max_key # Absent
  /\ Precedes(<<r.time, r.seq, LabelFor(r.key)>>,
              <<r.max_time, r.max_seq, LabelFor(r.max_key)>>)

ImpossiblePredictions == { i \in DOMAIN log : ViolatesReplayKeyOrder(log[i]) }
=============================================================================
