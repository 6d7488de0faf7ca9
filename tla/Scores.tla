-------------------------------- MODULE Scores --------------------------------
(***************************************************************************)
(* From the text of a score to a numeric signal: parse_fixed_decimal() and *)
(* Display for FixedDecimal (crates/asof-causality/src/event.rs), and the  *)
(* signals of SignalMath on the scores of one symbol, at the widths of     *)
(* i64 and i128 the constants stand for.                                   *)
(*                                                                         *)
(* A text is its sign and the digits before and after the point, already   *)
(* trimmed; any other character is NonDigit.                               *)
(***************************************************************************)
EXTENDS SignalMath, SequencesExt

CONSTANTS
  ScaleDigits,  \* FIXED_DECIMAL_SCALE_DIGITS
  NonDigit,     \* a character that is no digit
  Feeds,        \* sequences of texts, the scores of one symbol as they arrive
  Threshold,    \* threshold_scaled of the z-score signal
  Fast, Slow,   \* windows of the momentum signal
  MinTrend,     \* min_trend of the momentum signal, in units
  Divisor       \* volatility_divisor of the momentum signal

Digits == 0..9

TenTo(n) == LET power[k \in 0..n] == IF k = 0 THEN 1 ELSE 10 * power[k - 1] IN power[n]

ScoreTexts ==
  [ negative : BOOLEAN,
    whole    : Seq(Digits \cup {NonDigit}),
    fraction : Seq(Digits \cup {NonDigit}) ]

ASSUME ScaleAssumption ==
  /\ ScaleDigits \in Nat
  /\ FixedScale = TenTo(ScaleDigits)
  /\ NarrowMax < WideMax

ASSUME FeedAssumption ==
  /\ NonDigit \notin Digits
  /\ \A feed \in Feeds : feed \in Seq(ScoreTexts)

ASSUME SignalAssumption ==
  /\ Fast \in Nat \ {0} /\ Slow \in Nat /\ Fast <= Slow
  /\ Threshold \in Int /\ MinTrend \in Int /\ Divisor \in Int

VARIABLES
  texts,   \* the feed
  scores,  \* the scores read so far
  refused  \* a text was refused

reading == <<texts, scores, refused>>

DigitsValue(digits) ==
  LET value[n \in 0..Len(digits)] == IF n = 0 THEN 0 ELSE 10 * value[n - 1] + digits[n]
  IN  value[Len(digits)]

IsNumber(text) ==
  /\ text.whole # <<>> \/ text.fraction # <<>>
  /\ \A n \in DOMAIN text.whole : text.whole[n] \in Digits
  /\ \A n \in DOMAIN text.fraction : text.fraction[n] \in Digits

\* The digits of the scale, padded with zeros.
KeptDigits(fraction) ==
  [ n \in 1..ScaleDigits |-> IF n <= Len(fraction) THEN fraction[n] ELSE 0 ]

\* Seeded error: a five is rounded down.
RoundsUpAboveFive(fraction) ==
  Len(fraction) > ScaleDigits /\ fraction[ScaleDigits + 1] > 5

RoundsUp(fraction) == Len(fraction) > ScaleDigits /\ fraction[ScaleDigits + 1] >= 5

Magnitude(text) ==
  DigitsValue(text.whole) * FixedScale + DigitsValue(KeptDigits(text.fraction))
    + IF RoundsUp(text.fraction) THEN 1 ELSE 0

Signed(text) == IF text.negative THEN -Magnitude(text) ELSE Magnitude(text)

FitsNarrow(x) == -NarrowMax - 1 <= x /\ x <= NarrowMax

Readable(text) == IsNumber(text) /\ FitsWide(Magnitude(text)) /\ FitsNarrow(Signed(text))

(***************************************************************************)
(* Display: the digits of the fraction without the zeros at the end.       *)
(***************************************************************************)
DigitAt(x, n) == (x \div TenTo(n)) % 10

WithoutTrailingZeros(digits) ==
  LET last == SelectLastInSeq(digits, LAMBDA digit : digit # 0) IN SubSeq(digits, 1, last)

Fraction(x) ==
  WithoutTrailingZeros([ n \in 1..ScaleDigits |-> DigitAt(x, ScaleDigits - n) ])

WholeDigits(x) ==
  LET count == CHOOSE k \in 1..(x + 1) : x < TenTo(k) /\ \A j \in 1..(k - 1) : x >= TenTo(j)
  IN  [ n \in 1..count |-> DigitAt(x, count - n) ]

\* Seeded error: the magnitude saturates at i64::MAX.
SaturatedMagnitude(score) == Clamped(AbsoluteValue(score))

ShownMagnitude(score) == AbsoluteValue(score)

Shown(score) ==
  [ negative |-> score < 0,
    whole    |-> WholeDigits(ShownMagnitude(score) \div FixedScale),
    fraction |-> Fraction(ShownMagnitude(score) % FixedScale) ]

ScoresInit ==
  /\ texts \in Feeds
  /\ scores = <<>>
  /\ refused = FALSE

Coming == ~refused /\ Len(scores) < Len(texts)

ReadText ==
  /\ Coming
  /\ Readable(texts[Len(scores) + 1])
  /\ scores' = Append(scores, Signed(texts[Len(scores) + 1]))
  /\ UNCHANGED <<texts, refused>>

RefuseText ==
  /\ Coming
  /\ ~Readable(texts[Len(scores) + 1])
  /\ refused' = TRUE
  /\ UNCHANGED <<texts, scores>>

\* Every text is read, or one was refused.
Exhausted == ~Coming /\ UNCHANGED reading

ScoresNext == ReadText \/ RefuseText \/ Exhausted

ScoresSpec == ScoresInit /\ [][ScoresNext]_reading

-----------------------------------------------------------------------------
(***************************************************************************)
(* A score is the number of units nearest to its text, away from zero at   *)
(* the middle, and a text is refused exactly when it is no number or when  *)
(* no i64 is nearest to it (event.rs:561-632).                             *)
(***************************************************************************)
IsNearest(score, text) ==
  LET exact == DigitsValue(text.whole \o text.fraction) * FixedScale
      unit  == TenTo(Len(text.fraction))
      excess == AbsoluteValue(score) * unit - exact
  IN  /\ score # 0 => (score < 0 <=> text.negative)
      /\ -unit < 2 * excess
      /\ 2 * excess <= unit

ScoresAreNearest ==
  /\ \A n \in DOMAIN scores : IsNearest(scores[n], texts[n])
  /\ refused =>
       LET text == texts[Len(scores) + 1] IN
       IsNumber(text) => ~\E score \in (-NarrowMax - 1)..NarrowMax : IsNearest(score, text)

(***************************************************************************)
(* The text a score is shown as reads back as the same score, the least    *)
(* i64 included (event.rs:180-201, 561-632).                               *)
(***************************************************************************)
ShownScoresReadBack ==
  \A n \in DOMAIN scores : Readable(Shown(scores[n])) /\ Signed(Shown(scores[n])) = scores[n]

(***************************************************************************)
(* The z-score signal fires only when the newest score is at least the     *)
(* threshold of population standard deviations away from the mean, and     *)
(* always then unless the scores are large enough for an intermediate      *)
(* value to overflow (state.rs:298-384).                                   *)
(***************************************************************************)
Deviation == Len(scores) * scores[Len(scores)] - Total(scores)

SumOfSquares == Total([ n \in DOMAIN scores |-> scores[n] * scores[n] ])

Variance == Len(scores) * SumOfSquares - Total(scores) * Total(scores)

FiresExactly ==
  /\ Variance # 0
  /\ (Deviation * FixedScale) * (Deviation * FixedScale) >= Threshold * Threshold * Variance

Roomy ==
  \A n \in DOMAIN scores :
    LET spread == 2 * Len(scores) * scores[n] * Larger(FixedScale, AbsoluteValue(Threshold))
    IN  FitsWide(spread * spread * Len(scores))

ZScoreIsExact ==
  scores # <<>> =>
    LET signal == ZScoreSignal(scores, Threshold) IN
    /\ signal # 0 => FiresExactly /\ signal = Signum(Deviation)
    /\ Roomy /\ FiresExactly => signal = Signum(Deviation)

(***************************************************************************)
(* The momentum signal points from the exact slow mean to the exact fast   *)
(* mean or is neutral, and mirrored scores give the mirrored signal, so    *)
(* truncation favours neither side (state.rs:219-254, 360-391).            *)
(***************************************************************************)
LastScores(count) == SubSeq(scores, Len(scores) - count + 1, Len(scores))

Momentum(window) == MomentumSignal(window, Fast, Slow, MinTrend, Divisor)

MomentumIsFair ==
  Len(scores) >= Slow =>
    LET window == LastScores(Slow)
        trend  == Total(LastScores(Fast)) * Slow - Total(window) * Fast
    IN  /\ Momentum(window) # 0 => Momentum(window) = Signum(trend)
        /\ (\A n \in DOMAIN window : -window[n] <= NarrowMax)
           => Momentum([ n \in DOMAIN window |-> -window[n] ]) = -Momentum(window)
=============================================================================
