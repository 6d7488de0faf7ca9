----------------------------- MODULE AsOfReplay -----------------------------
(***************************************************************************)
(* What an as-of replay promises, with no state store, no sorting and no   *)
(* catalog: the n-th record answers the n-th prediction of the order, and  *)
(* is a function of the events that come before that prediction.  Neither  *)
(* the arrangement of the file nor its outcomes nor anything later has a   *)
(* say.  A file is refused when, and only when, it has a defect, and only  *)
(* a complete log is published.                                            *)
(***************************************************************************)
EXTENDS SignalViews

VARIABLES
  file,      \* the events, in an arrangement the log does not depend on
  order,     \* the order that defines "before"
  log,
  verdict    \* "open", "published" or "refused"

vars == <<file, order, log, verdict>>

Rows == { file[i] : i \in DOMAIN file }

Key(e) == IF order = "ReceivedTime" THEN ReplayKey(e) ELSE ObservedKey(e)

Before(e, f) == Precedes(Key(e), Key(f))

(***************************************************************************)
(* The defects for which a replay is refused.                              *)
(***************************************************************************)
Conflict(e, f) ==
  \/ EventKey(e) = EventKey(f)
  \/ e.received_time = f.received_time /\ e.seq = f.seq

Ambiguous == \E i, j \in DOMAIN file : i # j /\ Conflict(file[i], file[j])

Defective ==
  \/ Ambiguous
  \/ \E e, f \in Rows : e.symbol # f.symbol /\ SymbolIdOf[e.symbol] = SymbolIdOf[f.symbol]
  \/ \E e \in Rows : UpdatesSignalState(e) /\ ~PayloadOk(e)

(***************************************************************************)
(* The record of a prediction, from the set of rows before it.             *)
(***************************************************************************)
Newest(rows, n) == { e \in rows : Cardinality({ f \in rows : Before(e, f) }) < n }

Ascending(rows) ==
  [ n \in 1..Cardinality(rows) |->
      CHOOSE e \in rows : Cardinality({ f \in rows : Before(f, e) }) = n - 1 ]

Visible(p) ==
  { e \in Rows : UpdatesSignalState(e) /\ e.symbol = p.symbol /\ Before(e, p) }

Cited(p) ==
  LET relevant == { e \in Newest(Visible(p), MaxInputs) : Relevant(e) }
  IN  Ascending(Newest(relevant, Clamp(SignalWindow, 1, MaxInputs)))

LastReceived(cited) ==
  CHOOSE e \in { cited[i] : i \in DOMAIN cited } :
    \A i \in DOMAIN cited : cited[i] = e \/ ReceivedBefore(cited[i], e)

RecordCiting(cited, p) ==
  [ key          |-> EventKey(p),
    time         |-> p.received_time,
    seq          |-> p.seq,
    symbol       |-> SymbolIdOf[p.symbol],
    signal_value |-> IF cited = <<>> THEN 0 ELSE SignalValue(cited),
    inputs       |-> [i \in DOMAIN cited |-> EventKey(cited[i])],
    max_time     |-> IF cited = <<>> THEN 0 ELSE LastReceived(cited).received_time,
    max_seq      |-> IF cited = <<>> THEN 0 ELSE LastReceived(cited).seq,
    max_key      |-> IF cited = <<>> THEN Absent ELSE EventKey(LastReceived(cited)) ]

Promised(p) == RecordCiting(Cited(p), p)

Predictions == Ascending({ e \in Rows : IsPrediction(e) })

Init ==
  /\ log = <<>>
  /\ verdict = "open"

Record ==
  /\ verdict = "open"
  /\ ~Ambiguous
  /\ Len(log) < Len(Predictions)
  /\ ~\E e \in Rows : /\ UpdatesSignalState(e) /\ ~PayloadOk(e)
                      /\ Before(e, Predictions[Len(log) + 1])
  /\ log' = Append(log, Promised(Predictions[Len(log) + 1]))
  /\ UNCHANGED <<file, order, verdict>>

Publish ==
  /\ verdict = "open"
  /\ ~Defective
  /\ Len(log) = Len(Predictions)
  /\ verdict' = "published"
  /\ UNCHANGED <<file, order, log>>

Refuse ==
  /\ verdict = "open"
  /\ Defective
  /\ verdict' = "refused"
  /\ UNCHANGED <<file, order, log>>

Next == Record \/ Publish \/ Refuse

Spec == Init /\ [][Next]_vars
=============================================================================
