------------------------------- MODULE MCParts -------------------------------
(***************************************************************************)
(* Small instances of the three parts that call no other.                  *)
(*                                                                         *)
(* The numeric path at small widths: every text of up to one digit before  *)
(* the point and three after it on its own, the ends of i64, and every     *)
(* sequence of four of eight scores.  The calendar: every day of four      *)
(* centuries and more, leap centuries and others among them.  The catalog: *)
(* six labels, two pairs of which have colliding hashes, presented in      *)
(* every order with every id.                                              *)
(***************************************************************************)
EXTENDS Scores, Calendar, SymbolCatalog

Text(negative, whole, fraction) ==
  [negative |-> negative, whole |-> whole, fraction |-> fraction]

DigitSeqs(digits, most) == UNION { [1..k -> digits] : k \in 0..most }

MCTexts ==
  { Text(negative, whole, fraction) :
      negative \in BOOLEAN,
      whole \in DigitSeqs({0, 1, 9, NonDigit}, 1),
      fraction \in DigitSeqs({0, 4, 5, 9, NonDigit}, 3) }
    \cup { Text(negative, <<1, 2>>, fraction) :
             negative \in BOOLEAN, fraction \in DigitSeqs({0, 4, 5, 7, 8}, 2) }
    \cup { Text(FALSE, <<9, 9, 9, 9, 9>>, <<>>) }

FewTexts ==
  { Text(FALSE, <<0>>, <<>>), Text(FALSE, <<>>, <<1>>), Text(TRUE, <<0>>, <<1>>),
    Text(FALSE, <<0>>, <<3>>), Text(TRUE, <<0>>, <<4, 5>>), Text(FALSE, <<0>>, <<7>>),
    Text(FALSE, <<1, 2>>, <<7>>), Text(TRUE, <<1, 2>>, <<8>>) }

MCFeeds == { <<text>> : text \in MCTexts } \cup [1..4 -> FewTexts] \cup { <<>> }

MCFirstDay == Date(1900, 1, 1)
MCFirstElapsed == -25567

MCLabels == {"AAPL", "MSFT", "GOOG", "TSLA", "NVDA", "AMZN"}

MCLabelHash ==
  [l \in MCLabels |-> CASE l \in {"AAPL", "TSLA"} -> 1
                        [] l \in {"MSFT", "NVDA"} -> 2
                        [] l = "GOOG" -> 3
                        [] l = "AMZN" -> 4]

\* Each part runs where the others rest: they share nothing.
MCInit == ScoresInit /\ CalendarInit /\ CatalogInit

NoScores == texts = <<>> /\ UNCHANGED reading

ScoreStep == ScoresNext /\ UNCHANGED <<calendar, interning>>
DayStep == NoScores /\ answer = "none" /\ Tick /\ UNCHANGED interning
InternStep == NoScores /\ date = FirstDay /\ CatalogNext /\ UNCHANGED calendar

MCNext == ScoreStep \/ DayStep \/ InternStep

MCSpec == MCInit /\ [][MCNext]_<<reading, calendar, interning>>
=============================================================================
