-------------------------- MODULE ReplayProperties --------------------------
(***************************************************************************)
(* What a replay must satisfy.                                             *)
(***************************************************************************)
EXTENDS ReplayEngine

(***************************************************************************)
(* Every variable of the call has its type; a log record cites at most     *)
(* MaxInputs inputs, and a symbol slot exists for every interned label     *)
(* (replay.rs:68-153).                                                     *)
(***************************************************************************)
Record ==
  [ key : Nat, time : Nat, seq : Nat, symbol : Nat, signal_value : {-1, 0, 1},
    inputs : Seq(Nat), max_time : Nat, max_seq : Nat, max_key : Nat \cup {Absent} ]

TypeOK ==
  /\ file \in Seq(Event)
  /\ order \in Orders
  /\ outcomes_on \in OutcomeOptions
  /\ phase \in Phases
  /\ status \in {"ok", "DuplicateEventId", "EventKeyCollision",
                 "DuplicateReceivedSequenceNumber", "SymbolIdentityMismatch",
                 "SymbolIdCollision", "PayloadError"}
  /\ ordered \in Seq(Event)
  /\ next \in 1..(Len(ordered) + 1)
  /\ recent \in Seq(Seq(Observation))
  /\ log \in Seq(Record)
  /\ outcomes_seen \in Nat

(***************************************************************************)
(* Received-time replay never lets a prediction cite what it could not     *)
(* have had: every input of every record is a feature row of the same      *)
(* symbol that was received before the prediction, by (time, sequence      *)
(* number, id) (replay.rs:108-139 with state.rs:103-121).                  *)
(***************************************************************************)
NoLookahead ==
  order = "ReceivedTime" =>
    \A n \in DOMAIN log : \A k \in DOMAIN log[n].inputs : \A i, j \in DOMAIN file :
      /\ EventKey(file[i]) = log[n].inputs[k]
      /\ EventKey(file[j]) = log[n].key
      => /\ ReceivedBefore(file[i], file[j])
         /\ UpdatesSignalState(file[i])
         /\ file[i].symbol = file[j].symbol

(***************************************************************************)
(* The history of a slot is exactly the last MaxInputs feature rows        *)
(* applied for its symbol, whatever the order and however many were        *)
(* evicted (state.rs:41-50).                                               *)
(***************************************************************************)
FeatureOf(e, slot) ==
  UpdatesSignalState(e) /\ e.symbol = catalog.labels_by_slot[slot]

HoldsNewest(slot, at) ==
  /\ \A i, j \in DOMAIN at : i < j => at[i] < at[j]
  /\ \A i \in DOMAIN at : /\ FeatureOf(ordered[at[i]], slot)
                          /\ recent[slot][i] = ObservationOf(ordered[at[i]])
  /\ \A p \in 1..(next - 1) :
       FeatureOf(ordered[p], slot) =>
         \/ \E i \in DOMAIN at : at[i] = p
         \/ Len(recent[slot]) = MaxInputs /\ \A i \in DOMAIN at : p < at[i]

HistoryIsNewestFeatures ==
  \A slot \in DOMAIN recent :
    \E at \in [1..Len(recent[slot]) -> 1..(next - 1)] : HoldsNewest(slot, at)

(***************************************************************************)
(* The audit flag compares one replay key per record, the largest cited.   *)
(* That is enough in both orders: a record is flagged exactly when some    *)
(* input it cites was received after the prediction (log.rs:71-87).        *)
(***************************************************************************)
FlagIsExact ==
  \A n \in DOMAIN log :
    n \in ImpossiblePredictions <=>
      \E k \in DOMAIN log[n].inputs : \E i, j \in DOMAIN file :
        /\ EventKey(file[i]) = log[n].inputs[k]
        /\ EventKey(file[j]) = log[n].key
        /\ ReceivedBefore(file[j], file[i])

(***************************************************************************)
(* The call implements the as-of promise: a function of the set of events  *)
(* before each prediction, the same for every file arrangement and every   *)
(* outcome option, and refused only for a defect of the file               *)
(* (docs/success-criteria.md: identical received-event prefixes produce    *)
(* identical transcripts).                                                 *)
(***************************************************************************)
Promise == INSTANCE AsOfReplay WITH
  verdict <- IF phase = "done" THEN "published"
             ELSE IF phase = "failed" THEN "refused" ELSE "open"

ImplementsAsOf == Promise!Spec
=============================================================================
