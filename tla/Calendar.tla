------------------------------- MODULE Calendar -------------------------------
(***************************************************************************)
(* The calendar of the command (crates/asof-cli/src/main.rs): times that   *)
(* read as dates are turned into minutes for the amounts of the            *)
(* late-arrival curve, and the time a directory was written is turned into *)
(* a date.  The two directions are separate arithmetic, and a third        *)
(* function knows the lengths of the months.                               *)
(*                                                                         *)
(* The state is a day that passes: every date from FirstDay on, with the   *)
(* days elapsed since 1970-01-01.  A reading is the number yyyymmddhhmm,   *)
(* split at its hundreds into the five numbers it is made of.              *)
(***************************************************************************)
EXTENDS Integers

CONSTANTS
  FirstDay,      \* the date the calendar starts with
  FirstElapsed,  \* the days from 1970-01-01 to FirstDay
  LastYear       \* the bound of the enumeration

VARIABLES
  date,     \* [year, month, day]
  elapsed   \* days since 1970-01-01

calendar == <<date, elapsed>>

Date(year, month, day) == [year |-> year, month |-> month, day |-> day]

\* Seeded error: every fourth year is a leap year.
IsFourthYear(year) == year % 4 = 0

IsLeapYear(year) == (year % 4 = 0 /\ year % 100 # 0) \/ year % 400 = 0

DaysInMonth(year, month) ==
  CASE month \in {1, 3, 5, 7, 8, 10, 12} -> 31
    [] month \in {4, 6, 9, 11} -> 30
    [] month = 2 -> IF IsLeapYear(year) THEN 29 ELSE 28
    [] OTHER -> 0

\* The days of 400 years, and those from the first of March of year 0 to
\* 1970-01-01.
EraDays == 146097
EpochDays == 719468

\* The year a date belongs to, and its month, when years begin in March.
YearFromMarch(d) == IF d.month <= 2 THEN d.year - 1 ELSE d.year
MonthFromMarch(d) == IF d.month > 2 THEN d.month - 3 ELSE d.month + 9

\* The days of a year from March before a month of it, and those of an era
\* before a year of it.
DaysBeforeMonth(month) == (153 * month + 2) \div 5
DaysBeforeYear(year_of_era) == year_of_era * 365 + year_of_era \div 4 - year_of_era \div 100

(***************************************************************************)
(* days_from_civil(): years begin in March and are counted in eras of 400. *)
(* Division truncates; every dividend is positive for the years of a       *)
(* reading.                                                                *)
(***************************************************************************)
DaysFromCivil(d) ==
  LET year == YearFromMarch(d)
      era == year \div 400
      year_of_era == year - era * 400
      day_of_year == DaysBeforeMonth(MonthFromMarch(d)) + d.day - 1
      day_of_era == DaysBeforeYear(year_of_era) + day_of_year
  IN  era * EraDays + day_of_era - EpochDays

\* The date of a day of a year from March.
DateFromMarch(year, day_of_year) ==
  LET month_prime == (5 * day_of_year + 2) \div 153
      month == IF month_prime < 10 THEN month_prime + 3 ELSE month_prime - 9
      day == day_of_year - DaysBeforeMonth(month_prime) + 1
  IN  Date(IF month <= 2 THEN year + 1 ELSE year, month, day)

\* The year of an era that a day of it is in.
YearOfEra(day_of_era) ==
  (day_of_era - day_of_era \div 1460 + day_of_era \div 36524 - day_of_era \div 146096) \div 365

(***************************************************************************)
(* civil_from_days(), the way back.                                        *)
(***************************************************************************)
CivilFromDays(days) ==
  LET z == days + EpochDays
      era == z \div EraDays
      day_of_era == z - era * EraDays
      year_of_era == YearOfEra(day_of_era)
      day_of_year == day_of_era - DaysBeforeYear(year_of_era)
  IN  DateFromMarch(year_of_era + era * 400, day_of_year)

(***************************************************************************)
(* parse_yyyymmddhhmm_to_minutes().                                        *)
(***************************************************************************)
IsReading(d, hour, minute) ==
  /\ d.year >= 1900 /\ d.year <= 9999
  /\ d.month \in 1..12
  /\ hour < 24
  /\ minute < 60
  /\ d.day # 0
  /\ d.day <= DaysInMonth(d.year, d.month)

Minutes(d, hour, minute) == DaysFromCivil(d) * 1440 + hour * 60 + minute

\* The enumeration starts with a date that can be read and its distance from
\* 1970-01-01, and ends before the years of five digits.
ASSUME CalendarAssumption ==
  /\ FirstDay \in [year : Nat, month : Nat, day : Nat]
  /\ IsReading(FirstDay, 23, 59)
  /\ DaysFromCivil(FirstDay) = FirstElapsed
  /\ LastYear \in Nat /\ LastYear < 9999

CalendarInit == date = FirstDay /\ elapsed = FirstElapsed

Tomorrow(d) ==
  IF d.day < DaysInMonth(d.year, d.month) THEN [d EXCEPT !.day = @ + 1]
  ELSE IF d.month < 12 THEN Date(d.year, d.month + 1, 1)
  ELSE Date(d.year + 1, 1, 1)

Tick ==
  /\ date.year <= LastYear
  /\ date' = Tomorrow(date)
  /\ elapsed' = elapsed + 1

CalendarSpec == CalendarInit /\ [][Tick]_calendar

-----------------------------------------------------------------------------
(***************************************************************************)
(* The three pieces of calendar arithmetic agree on every day: the days    *)
(* computed from a date are those that elapsed, the date computed back     *)
(* from them is the same, each day of a month and no other is read, and a  *)
(* day's last minute is followed by the first one of the next (main.rs:    *)
(* 2060-2101, 4131-4145).                                                  *)
(***************************************************************************)
CalendarAgrees ==
  /\ DaysFromCivil(date) = elapsed
  /\ elapsed >= 0 => CivilFromDays(elapsed) = date
  /\ IsReading(date, 23, 59)
  /\ IsReading([date EXCEPT !.day = @ + 1], 0, 0) <=> Tomorrow(date).month = date.month
  /\ Minutes(date, 23, 59) + 1 = Minutes(Tomorrow(date), 0, 0)
=============================================================================
