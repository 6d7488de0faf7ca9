--------------------------- MODULE MCRunDirectory ---------------------------
(***************************************************************************)
(* Four invocations that share a directory: the suite, the suite with      *)
(* another signal, which reads the same feed and gets the same verdicts of *)
(* the checks; a sweep without optional artifacts, and one with details    *)
(* and a curve.                                                            *)
(***************************************************************************)
EXTENDS RunDirectory

CONSTANTS Suite, SuiteOfOtherSignal, Sweep, SweepWithDetails

MCJobs == {Suite, SuiteOfOtherSignal, Sweep, SweepWithDetails}

SuiteWrites == <<"events.pipe", "predictions.pipe", "checks.txt", "summary.md">>

MCWritesOf ==
  [ j \in MCJobs |->
      CASE j \in {Suite, SuiteOfOtherSignal} -> SuiteWrites
        [] j = Sweep -> <<"summary.jsonl", "flip-rate.svg", "input-change.svg">>
        [] j = SweepWithDetails ->
             <<"summary.jsonl", "sensitivity-curve.svg", "flip-rate.svg", "input-change.svg",
               "details.jsonl">> ]

MCFiles == { MCWritesOf[j][n] : j \in {Suite}, n \in 1..4 }
             \cup { MCWritesOf[j][n] : j \in {SweepWithDetails}, n \in 1..5 }

MCHashed == MCFiles \ {"summary.md"}

MCTextOf ==
  [ x \in MCJobs \X MCFiles |->
      IF x[1] = SuiteOfOtherSignal /\ x[2] \in {"events.pipe", "checks.txt"}
      THEN <<Suite, x[2]>> ELSE x ]
=============================================================================
