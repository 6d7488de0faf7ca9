----------------------------- MODULE PromisedLog -----------------------------
(***************************************************************************)
(* A call of replay from another part of the program                       *)
(* (ReplayEngine::replay_with_order() of crates/asof-causality/src/        *)
(* replay.rs): a feed and an order in, a log or a refusal out.  The call   *)
(* is taken for what AsOfReplay promises of it.                            *)
(***************************************************************************)
EXTENDS SignalViews

Replay(feed, by) == INSTANCE AsOfReplay
  WITH file <- feed, order <- by, log <- <<>>, verdict <- "open"

\* A refusal does not depend on the order.
Refused(feed) == Replay(feed, "ReceivedTime")!Defective

PromisedRecords(feed, by, predictions) ==
  [ n \in DOMAIN predictions |-> Replay(feed, by)!Promised(predictions[n]) ]

LogOf(feed, by) == PromisedRecords(feed, by, Replay(feed, by)!Predictions)
=============================================================================
