----------------------------- MODULE SignalMath -----------------------------
(***************************************************************************)
(* Fixed-point arithmetic of the numeric signals                           *)
(* (crates/asof-causality/src/state.rs, lines 219-391).                    *)
(*                                                                         *)
(* Scores are i64 numbers of units, intermediate values are i128.  Both    *)
(* widths are constants, so that small instances reach the overflow paths. *)
(* The z-score uses checked arithmetic and answers 0 on any overflow; the  *)
(* momentum clamps its means to the i64 range.                             *)
(***************************************************************************)
EXTENDS Integers, Sequences

CONSTANTS
  FixedScale,   \* FIXED_DECIMAL_SCALE
  WideMax,      \* i128::MAX
  NarrowMax     \* i64::MAX

ASSUME WidthAssumption ==
  /\ FixedScale \in Nat \ {0}
  /\ WideMax \in Nat \ {0}
  /\ NarrowMax \in Nat \ {0}

AbsoluteValue(x) == IF x < 0 THEN -x ELSE x

Larger(x, y) == IF x < y THEN y ELSE x

Signum(x) == IF x > 0 THEN 1 ELSE IF x < 0 THEN -1 ELSE 0

Total(s) ==
  LET sum[n \in 0..Len(s)] == IF n = 0 THEN 0 ELSE sum[n - 1] + s[n] IN sum[Len(s)]

(***************************************************************************)
(* checked_mul, checked_add and checked_sub answer None outside i128.      *)
(***************************************************************************)
FitsWide(x) == -WideMax - 1 <= x /\ x <= WideMax

(***************************************************************************)
(* zscore_signal_value(): n*x - sum is n times the deviation from the mean.*)
(* The signal fires when (delta^2 * n * scale^2) reaches                   *)
(* (threshold^2 * the sum of squared deltas), all in i128.                 *)
(***************************************************************************)
\* Seeded error: the score is not multiplied by the count.
ZDeltaUnscaled(scores, i) == scores[i] - Total(scores)

ZDelta(scores, i) == scores[i] * Len(scores) - Total(scores)

SquaredDeltas(scores) == [i \in DOMAIN scores |-> ZDelta(scores, i) * ZDelta(scores, i)]

DeviationsFit(scores) ==
  /\ \A i \in DOMAIN scores : /\ FitsWide(scores[i] * Len(scores))
                              /\ FitsWide(ZDelta(scores, i))
                              /\ FitsWide(SquaredDeltas(scores)[i])
  /\ \A n \in DOMAIN scores : FitsWide(Total(SubSeq(SquaredDeltas(scores), 1, n)))

ZScoreSignal(scores, threshold) ==
  LET n      == Len(scores)
      spread == Total(SquaredDeltas(scores))
      latest == ZDelta(scores, n)
      lhs    == latest * latest * n * FixedScale * FixedScale
      limit  == AbsoluteValue(threshold) * AbsoluteValue(threshold)
  IN  IF \/ n < 2
         \/ ~DeviationsFit(scores)
         \/ spread = 0
         \/ latest = 0
         \/ ~FitsWide(lhs)
         \/ ~FitsWide(limit)
         \/ ~FitsWide(limit * spread)
         \/ lhs < limit * spread
      THEN 0
      ELSE Signum(latest)

(***************************************************************************)
(* Integer division truncates toward zero, and a result is clamped to i64. *)
(***************************************************************************)
\* Seeded error: division rounds down.
FlooredDiv(x, n) == x \div n

TruncatedDiv(x, n) == IF x < 0 THEN -((-x) \div n) ELSE x \div n

Clamped(x) ==
  IF x > NarrowMax THEN NarrowMax
  ELSE IF x < -NarrowMax - 1 THEN -NarrowMax - 1 ELSE x

MeanScore(scores) == Clamped(TruncatedDiv(Total(scores), Len(scores)))

MeanAbsoluteDeviation(scores, center) ==
  Clamped(TruncatedDiv(
    Total([i \in DOMAIN scores |-> AbsoluteValue(scores[i] - center)]), Len(scores)))

(***************************************************************************)
(* score_momentum_snapshot(): the fast mean against the slow mean, gated   *)
(* by the larger of the configured trend and a share of the volatility.    *)
(* `scores' holds the last `slow' scores; with fewer the value is neutral. *)
(***************************************************************************)
MomentumSignal(scores, fast, slow, min_trend, divisor) ==
  LET slow_mean  == MeanScore(scores)
      fast_mean  == MeanScore(SubSeq(scores, Len(scores) - fast + 1, Len(scores)))
      trend      == fast_mean - slow_mean
      volatility == MeanAbsoluteDeviation(scores, slow_mean)
      gate       == TruncatedDiv(volatility, Larger(divisor, 1))
      threshold  == Larger(AbsoluteValue(min_trend), gate)
  IN  IF Len(scores) < slow THEN 0
      ELSE IF trend > 0 /\ trend >= threshold THEN 1
      ELSE IF trend < 0 /\ trend <= -threshold THEN -1
      ELSE 0
=============================================================================
