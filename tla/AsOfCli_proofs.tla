---------------------------- MODULE AsOfCli_proofs ----------------------------
(***************************************************************************)
(* The crate asof-cli: the directory of artifacts, the calendar and the    *)
(* command line; and the numbers both crates read, write and compute with. *)
(*                                                                         *)
(* For every set of jobs and artifacts, a run that returned left a         *)
(* manifest that verifies, and a manifest is written last.                 *)
(*                                                                         *)
(* The calendar arithmetic agrees with itself on every day of the years a  *)
(* reading can have, from whatever day it starts.  DaysFromCivil() counts  *)
(* years from March in eras of 400.  A year is 400 * q + r, and r is       *)
(* 100 * c + 4 * s + t; with these parts named, each truncating division   *)
(* of the two directions is a linear fact.                                 *)
(*                                                                         *)
(* For every file and every argument list, a process reads the file        *)
(* exactly or refuses it; what the negative control prints is true and     *)
(* complete; and the two loops of the benchmark do the same work.          *)
(*                                                                         *)
(* Two neighbouring flags change places: the groups of the words are       *)
(* followed to their new places, and what is read off them is the same.    *)
(*                                                                         *)
(* For every scale, width and feed, a score is the number of units nearest *)
(* to its text and reads back from the text it is shown as; the z-score    *)
(* and the momentum signal agree with exact arithmetic.  What a recursive  *)
(* function gives is known from the sequence of its partial results; a     *)
(* property of all of them follows from the set of those it holds for.     *)
(***************************************************************************)
EXTENDS SignalViews_proofs, CommandLineProperties, RunDirectory, Calendar, Scores

(***************************************************************************)
(* The inductive invariant.  While a job runs, every file it has passed    *)
(* holds its text and, past the last one, the manifest is its own; a job   *)
(* that returned leaves that behind.                                       *)
(***************************************************************************)
TypeOK ==
  /\ job \in Jobs \cup {Blank}
  /\ step \in Nat
  /\ open \in BOOLEAN
  /\ disk = [f \in Files |-> disk[f]]

InPlan ==
  /\ Running => step \in 1..(Len(WritesOf[job]) + 2)
  /\ open => Running /\ step <= Len(WritesOf[job]) + 1

PassedFiles ==
  Running =>
    \A n \in 1..Len(WritesOf[job]) :
      n < step => disk[WritesOf[job][n]] = TextOf[<<job, WritesOf[job][n]>>]

OwnManifest == Running /\ step = Len(WritesOf[job]) + 2 => manifest = ManifestOf(job)

Complete(j) ==
  manifest = ManifestOf(j) /\ \A f \in Written(j) : disk[f] = TextOf[<<j, f>>]

LeftBehind == ~Running /\ outcome = "returned" => \E j \in Jobs : Complete(j)

IInv == TypeOK /\ InPlan /\ PassedFiles /\ OwnManifest /\ LeftBehind

-----------------------------------------------------------------------------
\* The plan of a job is its artifacts and then the manifest.
LEMMA PlanShape ==
  ASSUME NEW j \in Jobs
  PROVE  /\ WritesOf[j] \in Seq(Files)
         /\ Len(WritesOf[j]) \in Nat
         /\ Len(Plan(j)) = Len(WritesOf[j]) + 1
         /\ \A n \in 1..Len(WritesOf[j]) : Plan(j)[n] = WritesOf[j][n] /\ WritesOf[j][n] \in Files
         /\ Plan(j)[Len(WritesOf[j]) + 1] = "manifest"
<1>1. WritesOf[j] \in Seq(Files)
  BY DirectoryAssumption
<1> QED
  BY <1>1 DEF Plan

\* Once every artifact of a job is passed, all it wrote is on the disk.
LEMMA AllPassed ==
  ASSUME NEW j \in Jobs,
         \A n \in 1..Len(WritesOf[j]) : disk[WritesOf[j][n]] = TextOf[<<j, WritesOf[j][n]>>]
  PROVE  \A f \in Written(j) : disk[f] = TextOf[<<j, f>>]
<1>1. DOMAIN WritesOf[j] = 1..Len(WritesOf[j])
  BY PlanShape
<1> QED
  BY <1>1 DEF Written

LEMMA InitIInv == DirectoryInit => IInv
<1> SUFFICES ASSUME DirectoryInit PROVE IInv
  OBVIOUS
<1> QED
  BY DEF DirectoryInit, IInv, TypeOK, InPlan, PassedFiles, OwnManifest, LeftBehind, Running

\* A job that starts has passed no file.
LEMMA StartStep ==
  ASSUME IInv, NEW j \in Jobs, Start(j)
  PROVE  IInv'
<1> USE DEF IInv, Start
<1>1. j # Blank
  BY DirectoryAssumption
<1>2. Len(WritesOf[j]) \in Nat
  BY PlanShape
<1>3. TypeOK'
  BY DEF TypeOK
<1>4. InPlan'
  BY <1>1, <1>2 DEF InPlan, Running
<1>5. PassedFiles'
  BY <1>2 DEF PassedFiles
<1>6. OwnManifest'
  BY <1>2 DEF OwnManifest
<1>7. LeftBehind'
  BY <1>1 DEF LeftBehind, Running
<1> QED
  BY <1>3, <1>4, <1>5, <1>6, <1>7

\* The target of a run at an artifact is that artifact, not one it has passed.
LEMMA TargetIsNew ==
  ASSUME IInv, Running, step <= Len(Plan(job))
  PROVE  /\ job \in Jobs
         /\ Len(WritesOf[job]) \in Nat
         /\ Target = "manifest" <=> step = Len(WritesOf[job]) + 1
         /\ Target # "manifest" =>
              /\ step \in 1..Len(WritesOf[job])
              /\ Target = WritesOf[job][step]
              /\ Target \in Files
              /\ \A n \in 1..Len(WritesOf[job]) : WritesOf[job][n] = Target => n = step
<1>1. job \in Jobs
  BY DEF IInv, TypeOK, Running
<1>2. Len(WritesOf[job]) \in Nat /\ Len(Plan(job)) = Len(WritesOf[job]) + 1
  BY <1>1, PlanShape
<1>3. step \in 1..(Len(WritesOf[job]) + 1)
  BY <1>2 DEF IInv, InPlan, Running
<1>4. CASE step = Len(WritesOf[job]) + 1
  <2>1. Target = "manifest"
    BY <1>1, <1>4, PlanShape DEF Target
  <2> QED
    BY <1>1, <1>2, <1>4, <2>1
<1>5. CASE step \in 1..Len(WritesOf[job])
  <2>1. Target = WritesOf[job][step] /\ Target \in Files
    BY <1>1, <1>5, PlanShape DEF Target
  <2>2. Target # "manifest"
    BY <2>1, DirectoryAssumption
  <2>3. DOMAIN WritesOf[job] = 1..Len(WritesOf[job])
    BY <1>1, PlanShape
  <2>4. \A n \in 1..Len(WritesOf[job]) : WritesOf[job][n] = Target => n = step
    BY <1>1, <1>5, <2>1, <2>3, DirectoryAssumption
  <2> QED
    BY <1>1, <1>2, <1>5, <2>1, <2>2, <2>4
<1> QED
  BY <1>2, <1>3, <1>4, <1>5

\* A truncated file is not one the run has passed.
LEMMA TruncateStep ==
  ASSUME IInv, Truncate
  PROVE  IInv'
<1>1. Running /\ step <= Len(Plan(job)) /\ open' = TRUE /\ UNCHANGED <<job, step, runs, outcome>>
  BY DEF Truncate
<1>2. /\ job \in Jobs
      /\ Len(WritesOf[job]) \in Nat
      /\ Target = "manifest" <=> step = Len(WritesOf[job]) + 1
      /\ Target # "manifest" =>
           /\ step \in 1..Len(WritesOf[job])
           /\ Target = WritesOf[job][step]
           /\ Target \in Files
           /\ \A n \in 1..Len(WritesOf[job]) : WritesOf[job][n] = Target => n = step
  BY <1>1, TargetIsNew
<1>3. \/ Target = "manifest" /\ disk' = disk
      \/ Target # "manifest" /\ disk' = [disk EXCEPT ![Target] = Torn] /\ manifest' = manifest
  BY DEF Truncate
<1>4. step <= Len(WritesOf[job]) + 1
  BY <1>1, <1>2, PlanShape
<1>5. TypeOK'
  BY <1>1, <1>3 DEF IInv, TypeOK
<1>6. InPlan'
  BY <1>1, <1>4 DEF IInv, InPlan, Running
<1>7. PassedFiles'
  <2> SUFFICES ASSUME NEW n \in 1..Len(WritesOf[job]), n < step
               PROVE  disk'[WritesOf[job][n]] = TextOf[<<job, WritesOf[job][n]>>]
    BY <1>1 DEF PassedFiles, Running
  <2>1. disk[WritesOf[job][n]] = TextOf[<<job, WritesOf[job][n]>>]
    BY <1>1 DEF IInv, PassedFiles
  <2>2. WritesOf[job][n] \in Files /\ step \in Nat
    BY <1>2, PlanShape DEF IInv, TypeOK
  <2>3. disk'[WritesOf[job][n]] = disk[WritesOf[job][n]]
    BY <1>2, <1>3, <2>2 DEF IInv, TypeOK
  <2> QED
    BY <2>1, <2>3
<1>8. OwnManifest'
  BY <1>1, <1>2, <1>4 DEF OwnManifest, IInv, TypeOK
<1>9. LeftBehind'
  BY <1>1 DEF LeftBehind, Running
<1> QED
  BY <1>5, <1>6, <1>7, <1>8, <1>9 DEF IInv

\* A filled file holds the text of the run.
LEMMA FillStep ==
  ASSUME IInv, Fill
  PROVE  IInv'
<1>1. open /\ open' = FALSE /\ step' = step + 1 /\ UNCHANGED <<job, runs, outcome>>
  BY DEF Fill
<1>2. Running /\ step <= Len(WritesOf[job]) + 1
  BY <1>1 DEF IInv, InPlan
<1>3. job \in Jobs
  BY <1>2 DEF IInv, TypeOK, Running
<1>4. /\ Len(WritesOf[job]) \in Nat
      /\ Target = "manifest" <=> step = Len(WritesOf[job]) + 1
      /\ Target # "manifest" =>
           /\ step \in 1..Len(WritesOf[job])
           /\ Target = WritesOf[job][step]
           /\ Target \in Files
           /\ \A n \in 1..Len(WritesOf[job]) : WritesOf[job][n] = Target => n = step
  BY <1>2, <1>3, PlanShape, TargetIsNew
<1>5. \/ Target = "manifest" /\ disk' = disk /\ manifest' = ManifestOf(job)
      \/ /\ Target # "manifest"
         /\ disk' = [disk EXCEPT ![Target] = TextOf[<<job, Target>>]]
         /\ manifest' = manifest
  BY DEF Fill
<1>6. TypeOK'
  <2>1. job' \in Jobs \cup {Blank} /\ open' \in BOOLEAN
    BY <1>1, Zenon DEF IInv, TypeOK
  <2>2. step' \in Nat
    <3>1. step \in Nat /\ step' = step + 1
      BY <1>1 DEF IInv, TypeOK
    <3> QED
      BY <3>1
  <2>3. disk = [f \in Files |-> disk[f]]
    BY DEF IInv, TypeOK
  <2>4. disk' = [f \in Files |-> disk'[f]]
    BY <1>5, <2>3, Zenon
  <2> QED
    BY <2>1, <2>2, <2>4 DEF TypeOK
<1>7. InPlan'
  BY <1>1, <1>2, <1>4 DEF IInv, TypeOK, InPlan, Running
<1>8. PassedFiles'
  <2> SUFFICES ASSUME NEW n \in 1..Len(WritesOf[job]), n < step + 1
               PROVE  disk'[WritesOf[job][n]] = TextOf[<<job, WritesOf[job][n]>>]
    BY <1>1, <1>2 DEF PassedFiles, Running
  <2>1. WritesOf[job][n] \in Files /\ step \in Nat
    BY <1>3, PlanShape DEF IInv, TypeOK
  <2>2. CASE n = step
    BY <1>4, <1>5, <2>1, <2>2 DEF IInv, TypeOK
  <2>3. CASE n # step
    <3>1. n < step
      BY <2>1, <2>3
    <3>2. disk[WritesOf[job][n]] = TextOf[<<job, WritesOf[job][n]>>]
      BY <1>2, <3>1 DEF IInv, PassedFiles
    <3>3. disk'[WritesOf[job][n]] = disk[WritesOf[job][n]]
      BY <1>4, <1>5, <2>1, <2>3 DEF IInv, TypeOK
    <3> QED
      BY <3>2, <3>3
  <2> QED
    BY <2>2, <2>3
<1>9. OwnManifest'
  <2> SUFFICES ASSUME step + 1 = Len(WritesOf[job]) + 2
               PROVE  manifest' = ManifestOf(job)
    BY <1>1 DEF OwnManifest, ManifestOf, Written
  <2>1. step = Len(WritesOf[job]) + 1
    BY <1>4 DEF IInv, TypeOK
  <2> QED
    BY <1>4, <1>5, <2>1
<1>10. LeftBehind'
  BY <1>1, <1>2 DEF LeftBehind, Running
<1> QED
  BY <1>6, <1>7, <1>8, <1>9, <1>10 DEF IInv

\* However a job ends, only one that returns has to leave a complete directory.
LEMMA EndStep ==
  ASSUME IInv, NEW how, End(how), how = "returned" => \E j \in Jobs : Complete(j)
  PROVE  IInv'
<1>1. job' = Blank /\ step' = 0 /\ open' = FALSE /\ outcome' = how /\ UNCHANGED <<disk, manifest, runs>>
  BY DEF End
<1>2. TypeOK'
  BY <1>1 DEF IInv, TypeOK
<1>3. InPlan' /\ PassedFiles' /\ OwnManifest'
  BY <1>1 DEF InPlan, PassedFiles, OwnManifest, Running
<1>4. LeftBehind'
  BY <1>1 DEF LeftBehind, Complete, Running
<1> QED
  BY <1>2, <1>3, <1>4 DEF IInv

LEMMA ReturnStep ==
  ASSUME IInv, Return
  PROVE  IInv'
<1>1. Running /\ step > Len(Plan(job)) /\ End("returned")
  BY DEF Return
<1>2. job \in Jobs
  BY <1>1 DEF IInv, TypeOK, Running
<1>3. Len(WritesOf[job]) \in Nat /\ step = Len(WritesOf[job]) + 2
  BY <1>1, <1>2, PlanShape DEF IInv, InPlan
<1>4. manifest = ManifestOf(job)
  BY <1>1, <1>3 DEF IInv, OwnManifest
<1>5. \A n \in 1..Len(WritesOf[job]) : disk[WritesOf[job][n]] = TextOf[<<job, WritesOf[job][n]>>]
  BY <1>1, <1>3 DEF IInv, PassedFiles
<1>6. Complete(job)
  BY <1>2, <1>4, <1>5, AllPassed DEF Complete
<1> QED
  BY <1>1, <1>2, <1>6, EndStep

LEMMA NextIInv == IInv /\ [DirectoryNext]_directory => IInv'
<1> SUFFICES ASSUME IInv, [DirectoryNext]_directory PROVE IInv'
  OBVIOUS
<1>1. ASSUME NEW j \in Jobs, Start(j) PROVE IInv'
  BY <1>1, StartStep
<1>2. CASE Truncate
  BY <1>2, TruncateStep
<1>3. CASE Fill
  BY <1>3, FillStep
<1>4. CASE Return
  BY <1>4, ReturnStep
<1>5. CASE WriteFails
  BY <1>5, EndStep DEF WriteFails
<1>6. CASE Killed
  BY <1>6, EndStep DEF Killed
<1>7. CASE UNCHANGED directory
  BY <1>7 DEF directory, IInv, TypeOK, InPlan, PassedFiles, OwnManifest, LeftBehind, Complete, Running
<1>8. CASE Idle
  BY <1>7, <1>8 DEF Idle
<1> QED
  BY <1>1, <1>2, <1>3, <1>4, <1>5, <1>6, <1>7, <1>8 DEF DirectoryNext

THEOREM DirectoryInvariant == DirectorySpec => []IInv
<1> QED
  BY InitIInv, NextIInv, PTL DEF DirectorySpec

-----------------------------------------------------------------------------
(***************************************************************************)
(* Whatever was killed or failed in the directory before, a run that       *)
(* returned left a manifest of its own that verifies and all of its        *)
(* artifacts (main.rs:904-939).                                            *)
(***************************************************************************)
THEOREM ReturnedLinked == DirectorySpec => []ReturnedRunIsLinked
<1>1. IInv => ReturnedRunIsLinked
  <2> SUFFICES ASSUME IInv, ~Running, outcome = "returned"
               PROVE  /\ Verifies
                      /\ \A f \in Written(manifest.job) : disk[f] = TextOf[<<manifest.job, f>>]
    BY DEF ReturnedRunIsLinked
  <2>1. PICK j \in Jobs : Complete(j)
    BY DEF IInv, LeftBehind
  <2>2. manifest = [ job |-> j, hashes |-> [ f \in Written(j) \cap Hashed |-> TextOf[<<j, f>>] ] ]
    BY <2>1 DEF Complete, ManifestOf
  <2>3. Whole
    BY <2>1, ManifestAssumption DEF Complete, Whole
  <2>4. \A f \in DOMAIN manifest.hashes : disk[f] = manifest.hashes[f]
    BY <2>1, <2>2 DEF Complete
  <2> QED
    BY <2>1, <2>2, <2>3, <2>4 DEF Complete, Verifies
<1> QED
  BY <1>1, DirectoryInvariant, PTL

(***************************************************************************)
(* A manifest becomes whole only when all the artifacts of its run are     *)
(* (main.rs:936-939, 258-308).                                             *)
(***************************************************************************)
THEOREM ManifestLast == DirectorySpec => ManifestIsLast
<1> DEFINE Certified ==
      manifest' # manifest /\ manifest' \notin {Blank, Torn} =>
        \A f \in Written(job) : disk'[f] = TextOf[<<job, f>>]
<1>1. ASSUME IInv, [DirectoryNext]_directory PROVE [Certified]_directory
  <2> SUFFICES ASSUME manifest' # manifest, manifest' \notin {Blank, Torn}
               PROVE  \A f \in Written(job) : disk'[f] = TextOf[<<job, f>>]
    OBVIOUS
  <2>1. Fill
    BY <1>1 DEF DirectoryNext, directory, Start, Truncate, Return, WriteFails, Killed, End, Idle
  <2>2. Target = "manifest" /\ disk' = disk
    BY <2>1 DEF Fill
  <2>3. open /\ Running /\ step <= Len(WritesOf[job]) + 1
    BY <1>1, <2>1 DEF Fill, IInv, InPlan
  <2>4. job \in Jobs /\ Len(WritesOf[job]) \in Nat
    BY <1>1, <2>3, PlanShape DEF IInv, TypeOK, Running
  <2>5. step = Len(WritesOf[job]) + 1
    BY <1>1, <2>2, <2>3, <2>4, PlanShape, TargetIsNew
  <2>6. \A n \in 1..Len(WritesOf[job]) : disk[WritesOf[job][n]] = TextOf[<<job, WritesOf[job][n]>>]
    BY <1>1, <2>3, <2>4, <2>5 DEF IInv, PassedFiles
  <2> QED
    BY <2>2, <2>4, <2>6, AllPassed
<1> QED
  BY <1>1, DirectoryInvariant, PTL DEF DirectorySpec, ManifestIsLast

-----------------------------------------------------------------------------
(***************************************************************************)
(* The calendar.                                                           *)
(***************************************************************************)

\* The days of a year of an era, and those of a month when years begin in
\* March.
IsDayOfYear(r, d) ==
  d \in 0..365 /\ (d = 365 => (r + 1) % 4 = 0 /\ ((r + 1) % 100 # 0 \/ r = 399))
IsDayOfMonth(p, n) ==
  n \in 1..31 /\ (p \in {1, 3, 6, 8} => n <= 30) /\ (p = 11 => n <= 29)

\* The dates that can be read.
IsDate(d) ==
  /\ d \in [year : Nat, month : Nat, day : Nat]
  /\ d.year >= 1900 /\ d.year <= 9999
  /\ d.month \in 1..12
  /\ d.day >= 1 /\ d.day <= DaysInMonth(d.year, d.month)

-----------------------------------------------------------------------------
(***************************************************************************)
(* Years and months taken apart.                                           *)
(***************************************************************************)
\* A year is a year of an era.
LEMMA EraSplit ==
  ASSUME NEW y \in Nat
  PROVE  \E q \in Nat, r \in 0..399 : y = 400 * q + r
<1> WITNESS y \div 400 \in Nat, y % 400 \in 0..399
<1> QED
  BY Z3

\* A year of an era is a century, a group of four years and a year of it.
LEMMA YearSplit ==
  ASSUME NEW r \in 0..399
  PROVE  \E c \in 0..3, s \in 0..24, t \in 0..3 : r = 100 * c + 4 * s + t
<1> WITNESS r \div 100 \in 0..3, (r % 100) \div 4 \in 0..24, r % 4 \in 0..3
<1> QED
  BY Z3

\* What days_in_month() says, month by month.
LEMMA MonthLengths ==
  ASSUME NEW y \in Nat, NEW m \in 1..12
  PROVE  /\ m \in {1, 3, 5, 7, 8, 10, 12} => DaysInMonth(y, m) = 31
         /\ m \in {4, 6, 9, 11} => DaysInMonth(y, m) = 30
         /\ m = 2 => DaysInMonth(y, m) = IF IsLeapYear(y) THEN 29 ELSE 28
BY SMTT(30) DEF DaysInMonth

\* A month has a last day.
LEMMA LastDay ==
  ASSUME NEW y \in Nat, NEW m \in 1..12
  PROVE  DaysInMonth(y, m) \in {28, 29, 30, 31} /\ DaysInMonth(y, m) \in Nat
<1>1. m \in {1, 3, 5, 7, 8, 10, 12} \/ m \in {4, 6, 9, 11} \/ m = 2
  BY Z3
<1>2. DaysInMonth(y, m) \in {28, 29, 30, 31}
  BY <1>1, MonthLengths, Zenon
<1>3. \A n \in {28, 29, 30, 31} : n \in Nat
  BY Z3
<1> QED
  BY <1>2, <1>3, Zenon

-----------------------------------------------------------------------------
(***************************************************************************)
(* The days from a date: each day is one more than the day before.         *)
(***************************************************************************)
\* Two days of one month.
LEMMA WithinMonth ==
  ASSUME NEW y \in Nat, NEW m \in 1..12, NEW n \in Nat
  PROVE  DaysFromCivil(Date(y, m, n + 1)) = DaysFromCivil(Date(y, m, n)) + 1
BY Z3 DEF DaysFromCivil, YearFromMarch, MonthFromMarch, DaysBeforeMonth, DaysBeforeYear,
         EraDays, EpochDays, Date

\* The months from March to November.
LEMMA MonthEnds ==
  ASSUME NEW y \in Nat, NEW m \in 3..11
  PROVE  DaysFromCivil(Date(y, m + 1, 1)) = DaysFromCivil(Date(y, m, DaysInMonth(y, m))) + 1
<1>1. m \in {3, 4, 5, 6, 7, 8, 9, 10, 11}
  BY Z3
<1> QED
  BY <1>1, SMTT(30) DEF DaysFromCivil, Date, DaysInMonth, YearFromMarch, MonthFromMarch,
         DaysBeforeMonth, DaysBeforeYear, EraDays, EpochDays

\* The last day of January.
LEMMA JanuaryEnds ==
  ASSUME NEW y \in Nat
  PROVE  DaysFromCivil(Date(y, 2, 1)) = DaysFromCivil(Date(y, 1, 31)) + 1
BY Z3 DEF DaysFromCivil, YearFromMarch, MonthFromMarch, DaysBeforeMonth, DaysBeforeYear,
         EraDays, EpochDays, Date

\* The last day of a year.
LEMMA YearEnds ==
  ASSUME NEW y \in Nat
  PROVE  DaysFromCivil(Date(y + 1, 1, 1)) = DaysFromCivil(Date(y, 12, 31)) + 1
BY Z3 DEF DaysFromCivil, YearFromMarch, MonthFromMarch, DaysBeforeMonth, DaysBeforeYear,
         EraDays, EpochDays, Date

\* The year from March and the month of it, and the way back to the date.
LEMMA MarchParts ==
  ASSUME NEW d, d.year \in Nat, d.year > 0, d.month \in 1..12
  PROVE  /\ YearFromMarch(d) \in Nat /\ MonthFromMarch(d) \in 0..11
         /\ DaysBeforeMonth(MonthFromMarch(d)) \in Nat
         /\ MonthFromMarch(d) < 10 =>
              d.month = MonthFromMarch(d) + 3 /\ d.year = YearFromMarch(d)
         /\ MonthFromMarch(d) >= 10 =>
              d.month = MonthFromMarch(d) - 9 /\ d.year = YearFromMarch(d) + 1
BY Z3 DEF YearFromMarch, MonthFromMarch, DaysBeforeMonth

\* DaysFromCivil() with the era and its year named.
LEMMA DaysOfEra ==
  ASSUME NEW d, NEW q \in Nat, NEW r \in 0..399, YearFromMarch(d) = 400 * q + r
  PROVE  DaysFromCivil(d)
           = q * EraDays
               + (DaysBeforeYear(r) + (DaysBeforeMonth(MonthFromMarch(d)) + d.day - 1)) - EpochDays
<1> DEFINE y == YearFromMarch(d)
<1>1. DaysFromCivil(d)
        = (y \div 400) * EraDays
            + (DaysBeforeYear(y - (y \div 400) * 400)
                 + (DaysBeforeMonth(MonthFromMarch(d)) + d.day - 1)) - EpochDays
  BY Zenon DEF DaysFromCivil
<1>2. y \div 400 = q /\ y - q * 400 = r
  BY Z3
<1> HIDE DEF y
<1> QED
  BY <1>1, <1>2, Zenon

\* The distance of a date is a whole number of days.
LEMMA DaysAreWhole ==
  ASSUME NEW d, IsDate(d)
  PROVE  DaysFromCivil(d) \in Int
<1>1. d.year \in Nat /\ d.year > 0 /\ d.month \in 1..12 /\ d.day \in Nat
  BY DEF IsDate
<1>2. YearFromMarch(d) \in Nat /\ DaysBeforeMonth(MonthFromMarch(d)) \in Nat
  BY <1>1, MarchParts
<1>3. PICK q \in Nat, r \in 0..399 : YearFromMarch(d) = 400 * q + r
  BY <1>2, EraSplit
<1>4. DaysBeforeYear(r) \in Int
  BY Z3 DEF DaysBeforeYear
<1>5. DaysFromCivil(d)
        = q * EraDays
            + (DaysBeforeYear(r) + (DaysBeforeMonth(MonthFromMarch(d)) + d.day - 1)) - EpochDays
  BY <1>3, DaysOfEra
<1> QED
  BY <1>1, <1>2, <1>4, <1>5, Z3 DEF EraDays, EpochDays

\* Between two years of an era that begin in March lies a 29th of February
\* when the later one divides by four and not by a hundred.
LEMMA LeapDays ==
  ASSUME NEW r \in 1..399
  PROVE  (r \div 4 - r \div 100) - ((r - 1) \div 4 - (r - 1) \div 100)
           = IF r % 4 = 0 /\ r % 100 # 0 THEN 1 ELSE 0
BY SMTT(60)

\* The last day of February, in leap years and others, within an era and at
\* its end.
LEMMA FebruaryEnds ==
  ASSUME NEW y \in Nat, y > 0
  PROVE  DaysFromCivil(Date(y, 3, 1))
           = DaysFromCivil(Date(y, 2, IF IsLeapYear(y) THEN 29 ELSE 28)) + 1
<1>1. PICK q \in Nat, r \in 0..399 : y = 400 * q + r
  BY EraSplit
<1> DEFINE length == IF IsLeapYear(y) THEN 29 ELSE 28
<1>2. length \in Nat
  BY Zenon, 29 \in Nat, 28 \in Nat
<1>3. DaysFromCivil(Date(y, 3, 1)) = q * EraDays + DaysBeforeYear(r) - EpochDays
  <2>1. y \div 400 = q /\ y - q * 400 = r
    BY <1>1, Z3
  <2> QED
    BY <1>1, <2>1, Z3 DEF DaysFromCivil, Date, YearFromMarch, MonthFromMarch,
         DaysBeforeMonth, DaysBeforeYear, EraDays, EpochDays
<1>4. CASE r = 0
  <2>1. IsLeapYear(y)
    BY <1>1, <1>4, Z3 DEF IsLeapYear
  <2>2. q >= 1 /\ (y - 1) \div 400 = q - 1 /\ y - 1 - (q - 1) * 400 = 399
    BY <1>1, <1>4, Z3
  <2>3. DaysFromCivil(Date(y, 2, 29))
          = (q - 1) * EraDays + DaysBeforeYear(399) + 337 + 28 - EpochDays
    BY <1>1, <2>2, Z3 DEF DaysFromCivil, Date, YearFromMarch, MonthFromMarch,
         DaysBeforeMonth, DaysBeforeYear, EraDays, EpochDays
  <2>4. DaysBeforeYear(399) = 145731 /\ DaysBeforeYear(0) = 0
    BY Z3 DEF DaysBeforeYear
  <2> QED
    BY <1>3, <1>4, <2>1, <2>3, <2>4, Z3 DEF EraDays, EpochDays
<1>5. CASE r # 0
  <2>1. IsLeapYear(y) <=> r % 4 = 0 /\ r % 100 # 0
    BY <1>1, <1>5, Z3 DEF IsLeapYear
  <2>2. (y - 1) \div 400 = q /\ y - 1 - q * 400 = r - 1
    BY <1>1, <1>5, Z3
  <2>3. ASSUME NEW n \in Nat
        PROVE  DaysFromCivil(Date(y, 2, n))
                 = q * EraDays + DaysBeforeYear(r - 1) + 337 + n - 1 - EpochDays
    BY <1>1, <2>2, Z3 DEF DaysFromCivil, Date, YearFromMarch, MonthFromMarch,
         DaysBeforeMonth, DaysBeforeYear, EraDays, EpochDays
  <2>4. DaysBeforeYear(r) - DaysBeforeYear(r - 1)
          = IF r % 4 = 0 /\ r % 100 # 0 THEN 366 ELSE 365
    BY <1>5, LeapDays, Z3 DEF DaysBeforeYear
  <2>5. DaysBeforeYear(r) \in Int /\ DaysBeforeYear(r - 1) \in Int
    BY Z3 DEF DaysBeforeYear
  <2>6. length = IF r % 4 = 0 /\ r % 100 # 0 THEN 29 ELSE 28
    BY <2>1, Zenon
  <2>7. DaysFromCivil(Date(y, 2, length))
          = q * EraDays + DaysBeforeYear(r - 1) + 337 + length - 1 - EpochDays
    BY <1>2, <2>3
  <2> HIDE DEF length
  <2>8. DaysFromCivil(Date(y, 3, 1)) = DaysFromCivil(Date(y, 2, length)) + 1
    BY <1>2, <1>3, <2>4, <2>5, <2>6, <2>7, Z3 DEF EraDays, EpochDays
  <2> QED
    BY <2>8 DEF length
<1> QED
  BY <1>4, <1>5

\* Tomorrow is a day that can be read, as long as the year can, and one day
\* further from 1970-01-01.
LEMMA TomorrowIsOneDayOn ==
  ASSUME NEW d, IsDate(d)
  PROVE  /\ DaysFromCivil(Tomorrow(d)) = DaysFromCivil(d) + 1
         /\ d.year < 9999 => IsDate(Tomorrow(d))
<1>1. /\ d \in [year : Nat, month : Nat, day : Nat]
      /\ d.year \in Nat /\ d.month \in 1..12 /\ d.day \in Nat
      /\ d = Date(d.year, d.month, d.day)
  BY DEF IsDate, Date
<1> DEFINE y == d.year
           m == d.month
           last == DaysInMonth(y, m)
<1>2. last \in Nat /\ d.day <= last /\ d.day >= 1
  <2>1. last \in Nat
    BY <1>1, LastDay
  <2> QED
    BY <2>1 DEF IsDate
<1>3. CASE d.day < last
  <2>1. Tomorrow(d) = [d EXCEPT !.day = @ + 1]
    BY <1>3, Zenon DEF Tomorrow
  <2>2. [d EXCEPT !.day = @ + 1] = Date(y, m, d.day + 1)
    BY <1>1 DEF Date
  <2>3. IsDate(Date(y, m, d.day + 1))
    <3>1. d.day + 1 \in Nat /\ d.day + 1 >= 1 /\ d.day + 1 <= last
      BY <1>1, <1>2, <1>3
    <3> QED
      BY <1>1, <3>1 DEF IsDate, Date
  <2>4. DaysFromCivil(Date(y, m, d.day + 1)) = DaysFromCivil(Date(y, m, d.day)) + 1
    BY <1>1, WithinMonth
  <2> QED
    BY <1>1, <2>1, <2>2, <2>3, <2>4
<1>4. CASE ~(d.day < last)
  <2>1. d = Date(y, m, last)
    <3>1. d.day = last
      BY <1>1, <1>2, <1>4, Z3
    <3> QED
      BY <1>1, <3>1
  <2>2. CASE m < 12
    <3>1. Tomorrow(d) = Date(y, m + 1, 1)
      BY <1>4, <2>2, Zenon DEF Tomorrow
    <3>2. m + 1 \in 1..12
      BY <1>1, <2>2
    <3>3. IsDate(Date(y, m + 1, 1))
      <4>1. DaysInMonth(y, m + 1) \in {28, 29, 30, 31}
        BY <1>1, <3>2, LastDay
      <4>2. 1 <= DaysInMonth(y, m + 1)
        BY <4>1, Z3
      <4> QED
        BY <1>1, <3>2, <4>2 DEF IsDate, Date
    <3>4. DaysFromCivil(Date(y, m + 1, 1)) = DaysFromCivil(Date(y, m, last)) + 1
      <4>1. CASE m = 1
        <5>1. last = 31
          BY <1>1, <4>1, MonthLengths
        <5> QED
          BY <1>1, <4>1, <5>1, JanuaryEnds
      <4>2. CASE m = 2
        <5>1. last = IF IsLeapYear(y) THEN 29 ELSE 28
          BY <1>1, <4>2, MonthLengths
        <5>2. y > 0
          BY <1>1 DEF IsDate
        <5>3. m + 1 = 3
          BY <4>2
        <5> QED
          BY <1>1, <4>2, <5>1, <5>2, <5>3, FebruaryEnds, Zenon
      <4>3. CASE m \in 3..11
        BY <1>1, <4>3, MonthEnds
      <4> QED
        BY <1>1, <2>2, <4>1, <4>2, <4>3
    <3> QED
      BY <2>1, <3>1, <3>3, <3>4
  <2>3. CASE ~(m < 12)
    <3>1. m = 12
      BY <1>1, <2>3
    <3>2. Tomorrow(d) = Date(y + 1, 1, 1)
      BY <1>4, <2>3, Zenon DEF Tomorrow
    <3>3. last = 31
      BY <1>1, <3>1, MonthLengths
    <3>4. y < 9999 => IsDate(Date(y + 1, 1, 1))
      <4>1. DaysInMonth(y + 1, 1) = 31
        BY <1>1, MonthLengths
      <4> QED
        BY <1>1, <4>1 DEF IsDate, Date
    <3> QED
      BY <1>1, <2>1, <3>1, <3>2, <3>3, <3>4, YearEnds
  <2> QED
    BY <2>2, <2>3
<1> QED
  BY <1>3, <1>4

-----------------------------------------------------------------------------
(***************************************************************************)
(* The date of a count of days: the way back.                              *)
(***************************************************************************)
\* The year is found again from a day of an era.
LEMMA YearFound ==
  ASSUME NEW r \in 0..399, NEW d, IsDayOfYear(r, d)
  PROVE  /\ DaysBeforeYear(r) + d \in Nat
         /\ DaysBeforeYear(r) + d < EraDays
         /\ YearOfEra(DaysBeforeYear(r) + d) = r
<1>1. d \in 0..365 /\ (d = 365 => (r + 1) % 4 = 0 /\ ((r + 1) % 100 # 0 \/ r = 399))
  BY Zenon DEF IsDayOfYear
<1>2. PICK c \in 0..3, s \in 0..24, t \in 0..3 : r = 100 * c + 4 * s + t
  BY YearSplit
<1>3. r \div 4 = 25 * c + s /\ r \div 100 = c
  BY <1>1, <1>2, Z3
<1> DEFINE doe == 36524 * c + 1461 * s + 365 * t + d
<1>4. DaysBeforeYear(r) + d = doe
  BY <1>1, <1>2, <1>3, Z3 DEF DaysBeforeYear
<1>5. d = 365 => t = 3 /\ (s # 24 \/ c = 3)
  BY <1>1, <1>2, Z3
<1>6. doe \in Nat /\ doe <= 146096
  <2>1. doe \in Nat
    BY <1>1, Z3
  <2>2. CASE d = 365
    BY <1>1, <1>5, <2>1, <2>2, Z3
  <2>3. CASE d # 365
    BY <1>1, <2>1, <2>3, Z3
  <2> QED
    BY <1>1, <2>2, <2>3
<1>7. (doe = 146096) <=> (c = 3 /\ s = 24 /\ t = 3 /\ d = 365)
  BY <1>1, <1>2, <1>5, Z3
<1>8. doe \div 36524 = IF doe = 146096 THEN 4 ELSE c
  BY <1>1, <1>2, <1>5, <1>7, Z3
<1>9. doe \div 146096 = IF doe = 146096 THEN 1 ELSE 0
  <2> HIDE DEF doe
  <2> QED
    BY <1>1, <1>6, Z3
<1>10. PICK one \in 0..1 :
        /\ doe \div 1460 = 25 * c + s + one
        /\ d - one \in 0..364
  <2>1. CASE 24 * c + s + 365 * t + d < 1460
    <3>1. doe \div 1460 = 25 * c + s
      BY <1>1, <2>1, Z3
    <3>2. d # 365
      BY <1>1, <1>5, <2>1, Z3
    <3> QED
      BY <1>1, <3>1, <3>2, Z3
  <2>2. CASE 24 * c + s + 365 * t + d >= 1460
    <3>1. doe \div 1460 = 25 * c + s + 1
      BY <1>1, <2>2, Z3
    <3>2. d - 1 \in 0..364
      BY <1>1, <2>2, Z3
    <3> QED
      BY <1>1, <3>1, <3>2, Z3
  <2> QED
    BY <1>1, <2>1, <2>2, Z3
<1>11. doe - doe \div 1460 + doe \div 36524 - doe \div 146096 = 365 * r + (d - one)
  <2>1. doe \div 36524 - doe \div 146096 = c
    <3> HIDE DEF doe
    <3> QED BY <1>1, <1>7, <1>8, <1>9, Z3
  <2> QED
    BY <1>1, <1>2, <1>10, <2>1, Z3
<1>12. (365 * r + (d - one)) \div 365 = r
  BY <1>1, <1>10, Z3
<1> HIDE DEF doe
<1> QED
  BY <1>4, <1>6, <1>11, <1>12, Z3 DEF YearOfEra, EraDays

\* The month is found again from a day of a year.
LEMMA MonthFound ==
  ASSUME NEW p \in 0..11, NEW n, IsDayOfMonth(p, n)
  PROVE  /\ DaysBeforeMonth(p) + n - 1 \in 0..365
         /\ DaysBeforeMonth(p) + n - 1 = 365 => p = 11 /\ n = 29
         /\ (5 * (DaysBeforeMonth(p) + n - 1) + 2) \div 153 = p
         /\ (DaysBeforeMonth(p) + n - 1) - DaysBeforeMonth(p) + 1 = n
<1>1. p \in {0, 1, 2, 3, 4, 5, 6, 7, 8, 9, 10, 11}
  BY Z3
<1> QED
  BY <1>1, SMTT(30) DEF IsDayOfMonth, DaysBeforeMonth

\* The day of a date is no later than the last of its month from March.
LEMMA DayOfMonth ==
  ASSUME NEW d, IsDate(d)
  PROVE  /\ IsDayOfMonth(MonthFromMarch(d), d.day)
         /\ MonthFromMarch(d) = 11 /\ d.day = 29 => IsLeapYear(d.year)
<1> DEFINE last == DaysInMonth(d.year, d.month)
           p == MonthFromMarch(d)
<1>1. d.year \in Nat /\ d.month \in 1..12 /\ d.day \in Nat /\ d.day >= 1 /\ d.day <= last
  BY DEF IsDate
<1>2. /\ d.month \in {4, 6, 9, 11} => last = 30
      /\ d.month = 2 => last = IF IsLeapYear(d.year) THEN 29 ELSE 28
      /\ last \in {28, 29, 30, 31}
  BY <1>1, MonthLengths, LastDay
<1>3. /\ p \in {1, 3, 6, 8} => d.month \in {4, 6, 9, 11}
      /\ p = 11 => d.month = 2
  BY <1>1, Z3 DEF MonthFromMarch
<1> HIDE DEF last, p
<1>4. d.day \in 1..31
  BY <1>1, <1>2, Z3
<1>5. p \in {1, 3, 6, 8} => d.day <= 30
  BY <1>1, <1>2, <1>3
<1>6. p = 11 => d.day <= IF IsLeapYear(d.year) THEN 29 ELSE 28
  BY <1>1, <1>2, <1>3, Zenon
<1>7. p = 11 => d.day <= 29 /\ (d.day = 29 => IsLeapYear(d.year))
  BY <1>1, <1>6
<1> QED
  BY <1>4, <1>5, <1>7, Zenon DEF p, IsDayOfMonth

\* The date is found again from its year from March and the day of it.
LEMMA DateFound ==
  ASSUME NEW d, IsDate(d)
  PROVE  DateFromMarch(YearFromMarch(d), DaysBeforeMonth(MonthFromMarch(d)) + d.day - 1) = d
<1> DEFINE y == YearFromMarch(d)
           p == MonthFromMarch(d)
           doy == DaysBeforeMonth(p) + d.day - 1
<1>1. /\ d.year \in Nat /\ d.year > 0 /\ d.month \in 1..12
      /\ d = Date(d.year, d.month, d.day)
  BY DEF IsDate, Date
<1>2. /\ y \in Nat /\ p \in 0..11
      /\ p < 10 => d.month = p + 3 /\ d.year = y
      /\ p >= 10 => d.month = p - 9 /\ d.year = y + 1
  BY <1>1, MarchParts
<1>3. (5 * doy + 2) \div 153 = p /\ doy - DaysBeforeMonth(p) + 1 = d.day
  <2>1. IsDayOfMonth(p, d.day)
    BY DayOfMonth
  <2> HIDE DEF p
  <2> QED
    BY <1>2, <2>1, MonthFound, Z3
<1> DEFINE month == IF p < 10 THEN p + 3 ELSE p - 9
<1>4. DateFromMarch(y, doy)
        = Date(IF month <= 2 THEN y + 1 ELSE y, month, d.day)
  <2> HIDE DEF p, doy, y
  <2> QED
    BY <1>3, Zenon DEF DateFromMarch
<1>5. month = d.month /\ (IF month <= 2 THEN y + 1 ELSE y) = d.year
  <2> HIDE DEF p, y
  <2> QED
    BY <1>1, <1>2, Z3
<1> HIDE DEF month
<1> QED
  BY <1>1, <1>4, <1>5, Zenon

\* CivilFromDays() with the era and its day named.
LEMMA CivilOfEra ==
  ASSUME NEW days, NEW q, NEW doe,
         (days + EpochDays) \div EraDays = q,
         (days + EpochDays) - q * EraDays = doe
  PROVE  CivilFromDays(days)
           = DateFromMarch(YearOfEra(doe) + q * 400, doe - DaysBeforeYear(YearOfEra(doe)))
<1> DEFINE era == (days + EpochDays) \div EraDays
           day == (days + EpochDays) - era * EraDays
<1>1. CivilFromDays(days)
        = DateFromMarch(YearOfEra(day) + era * 400, day - DaysBeforeYear(YearOfEra(day)))
  BY Zenon DEF CivilFromDays
<1>2. era = q
  OBVIOUS
<1>3. day = doe
  <2> HIDE DEF era
  <2> QED
    BY <1>2, Zenon
<1> HIDE DEF era, day
<1> QED
  BY <1>1, <1>2, <1>3, Zenon

\* A date is found again from the days it is away.
LEMMA RoundTrip ==
  ASSUME NEW d, IsDate(d)
  PROVE  CivilFromDays(DaysFromCivil(d)) = d
<1> DEFINE y == YearFromMarch(d)
           p == MonthFromMarch(d)
           doy == DaysBeforeMonth(p) + d.day - 1
<1>1. d.year \in Nat /\ d.year > 0 /\ d.month \in 1..12 /\ d.day \in Nat
  BY DEF IsDate
<1>2. /\ y \in Nat /\ p \in 0..11
      /\ p >= 10 => d.year = y + 1
  BY <1>1, MarchParts
<1>3. PICK q \in Nat, r \in 0..399 : y = 400 * q + r
  <2> HIDE DEF y
  <2> QED
    BY <1>2, EraSplit
<1>4. /\ doy \in 0..365
      /\ doy = 365 => p = 11 /\ IsLeapYear(d.year)
  <2>1. IsDayOfMonth(p, d.day) /\ (p = 11 /\ d.day = 29 => IsLeapYear(d.year))
    BY DayOfMonth
  <2> HIDE DEF p
  <2>2. doy \in 0..365 /\ (doy = 365 => p = 11 /\ d.day = 29)
    BY <1>2, <2>1, MonthFound, Z3
  <2> HIDE DEF doy
  <2> QED
    BY <2>1, <2>2
<1>5. doy = 365 => (r + 1) % 4 = 0 /\ ((r + 1) % 100 # 0 \/ r = 399)
  <2> SUFFICES ASSUME doy = 365
               PROVE  (r + 1) % 4 = 0 /\ ((r + 1) % 100 # 0 \/ r = 399)
    OBVIOUS
  <2>1. p = 11 /\ IsLeapYear(d.year)
    BY <1>4
  <2>2. d.year = 400 * q + r + 1
    <3> HIDE DEF y, p, doy
    <3> QED
      BY <1>1, <1>2, <1>3, <2>1, Z3
  <2> HIDE DEF y, p, doy
  <2> QED
    BY <2>1, <2>2, Z3 DEF IsLeapYear
<1> DEFINE doe == DaysBeforeYear(r) + doy
<1>6. doe \in Nat /\ doe < EraDays /\ YearOfEra(doe) = r
  <2>1. IsDayOfYear(r, doy)
    BY <1>4, <1>5, Zenon DEF IsDayOfYear
  <2> HIDE DEF doy
  <2> QED
    BY <2>1, YearFound, Zenon
<1>7. DaysFromCivil(d) + EpochDays = q * EraDays + doe
  <2>1. DaysFromCivil(d) = q * EraDays + doe - EpochDays
    BY <1>3, DaysOfEra, Zenon
  <2> HIDE DEF doe
  <2> QED
    BY <1>6, <2>1, Z3 DEF EraDays, EpochDays
<1>8. /\ (q * EraDays + doe) \div EraDays = q
      /\ (q * EraDays + doe) - q * EraDays = doe
  <2> HIDE DEF doe
  <2> QED
    BY <1>6, Z3 DEF EraDays
<1>9. doe - DaysBeforeYear(r) = doy /\ r + q * 400 = y
  <2>1. DaysBeforeYear(r) \in Int
    BY Z3 DEF DaysBeforeYear
  <2> HIDE DEF doy, y
  <2> QED
    BY <1>2, <1>3, <1>4, <2>1, Z3
<1>10. CivilFromDays(DaysFromCivil(d)) = DateFromMarch(y, doy)
  <2> DEFINE days == DaysFromCivil(d)
  <2>1. (days + EpochDays) \div EraDays = q /\ (days + EpochDays) - q * EraDays = doe
    <3> HIDE DEF days, doe
    <3>1. days + EpochDays = q * EraDays + doe
      BY <1>7 DEF days
    <3> QED
      BY <1>8, <3>1, Zenon
  <2> HIDE DEF doe, doy, y, days
  <2>2. CivilFromDays(days)
          = DateFromMarch(YearOfEra(doe) + q * 400, doe - DaysBeforeYear(YearOfEra(doe)))
    BY <2>1, CivilOfEra, Z3
  <2> QED
    BY <1>6, <1>9, <2>2, Zenon DEF days
<1>11. DateFromMarch(y, doy) = d
  BY DateFound
<1> QED
  BY <1>10, <1>11

-----------------------------------------------------------------------------
\* The date can be read, and the days that passed are its distance.
CalendarInv == IsDate(date) /\ elapsed = DaysFromCivil(date)

\* A date that can be read satisfies the property.
LEMMA DateAgrees ==
  ASSUME CalendarInv
  PROVE  CalendarAgrees
<1>1. date.year \in Nat /\ date.month \in 1..12
  BY DEF CalendarInv, IsDate
<1>2. /\ date.year \in Nat /\ date.year >= 1900 /\ date.year <= 9999
      /\ date.month \in 1..12 /\ date.day \in Nat /\ date.day >= 1
      /\ date.day <= DaysInMonth(date.year, date.month)
      /\ date \in [year : Nat, month : Nat, day : Nat]
  BY DEF CalendarInv, IsDate
<1>3. IsReading(date, 23, 59)
  BY <1>2 DEF IsReading
<1>4. IsReading([date EXCEPT !.day = @ + 1], 0, 0) <=> Tomorrow(date).month = date.month
  <2> DEFINE last == DaysInMonth(date.year, date.month)
  <2>1. last \in Nat
    BY <1>1, LastDay, Zenon
  <2>2. [date EXCEPT !.day = @ + 1] = Date(date.year, date.month, date.day + 1)
    BY <1>2 DEF Date
  <2>3. IsReading(Date(date.year, date.month, date.day + 1), 0, 0) <=> date.day + 1 <= last
    BY <1>2, <2>1, Z3 DEF IsReading, Date
  <2>4. CASE date.day < last
    <3>1. Tomorrow(date).month = date.month
      BY <1>2, <2>2, <2>4 DEF Tomorrow, Date
    <3> QED
      BY <1>2, <2>1, <2>2, <2>3, <2>4, <3>1
  <2>5. CASE ~(date.day < last)
    <3>1. Tomorrow(date).month # date.month
      BY <1>2, <2>5 DEF Tomorrow, Date
    <3>2. ~(date.day + 1 <= last)
      BY <1>2, <2>1, <2>5
    <3> QED
      BY <2>2, <2>3, <3>1, <3>2
  <2> QED
    BY <2>4, <2>5
<1>5. Minutes(date, 23, 59) + 1 = Minutes(Tomorrow(date), 0, 0)
  <2>1. DaysFromCivil(Tomorrow(date)) = DaysFromCivil(date) + 1 /\ DaysFromCivil(date) \in Int
    BY TomorrowIsOneDayOn, DaysAreWhole DEF CalendarInv
  <2> QED
    BY <2>1 DEF Minutes
<1> QED
  BY <1>3, <1>4, <1>5, RoundTrip DEF CalendarAgrees, CalendarInv

\* The invariant holds with the first date.
LEMMA CalendarStarts == CalendarInit => CalendarInv
<1> SUFFICES ASSUME CalendarInit
             PROVE  CalendarInv
  OBVIOUS
<1>1. /\ FirstDay \in [year : Nat, month : Nat, day : Nat]
      /\ FirstDay.year >= 1900 /\ FirstDay.year <= 9999
      /\ FirstDay.month \in 1..12 /\ FirstDay.day # 0
      /\ FirstDay.day <= DaysInMonth(FirstDay.year, FirstDay.month)
      /\ DaysFromCivil(FirstDay) = FirstElapsed
  BY CalendarAssumption, Z3 DEF IsReading
<1>2. FirstDay.day \in Nat /\ FirstDay.day >= 1
  <2>1. FirstDay.day \in Nat
    BY <1>1, Z3
  <2>2. FirstDay.day # 0
    BY <1>1, Z3
  <2> QED
    BY <2>1, <2>2, Z3
<1> QED
  BY <1>1, <1>2, Z3 DEF CalendarInit, CalendarInv, IsDate

\* A day that passes keeps the invariant.
LEMMA CalendarGoesOn == CalendarInv /\ [Tick]_calendar => CalendarInv'
<1> SUFFICES ASSUME CalendarInv, [Tick]_calendar
             PROVE  CalendarInv'
  OBVIOUS
<1>1. CASE Tick
  <2>1. date.year < 9999
    BY <1>1, CalendarAssumption DEF Tick, CalendarInv, IsDate
  <2>2. DaysFromCivil(Tomorrow(date)) = DaysFromCivil(date) + 1 /\ IsDate(Tomorrow(date))
    BY <2>1, TomorrowIsOneDayOn DEF CalendarInv
  <2> QED
    BY <1>1, <2>2, Zenon DEF Tick, CalendarInv
<1>2. CASE UNCHANGED calendar
  BY <1>2, Zenon DEF calendar, CalendarInv
<1> QED
  BY <1>1, <1>2

(***************************************************************************)
(* From any day that can be read and its distance, the arithmetic agrees   *)
(* on every later day to the end of the year 9999: the days computed from  *)
(* a date are those that elapsed, the way back finds the date, and exactly *)
(* the days of a month can be read.                                        *)
(***************************************************************************)
THEOREM CalendarCorrectness == CalendarSpec => []CalendarAgrees
<1>1. CalendarSpec => []CalendarInv
  BY CalendarStarts, CalendarGoesOn, PTL DEF CalendarSpec
<1>2. CalendarInv => CalendarAgrees
  BY DateAgrees
<1> QED
  BY <1>1, <1>2, PTL

-----------------------------------------------------------------------------
(***************************************************************************)
(* Rows and lines.                                                         *)
(***************************************************************************)
RowsOfText ==
  { FromPipeRecord(text[k]) :
      k \in { k \in DOMAIN text : ~Skipped(text[k]) /\ IsRecord(text[k]) } }

\* What a record reads as.
LEMMA RecordFields ==
  ASSUME NEW line, IsRecord(line)
  PROVE  /\ line[1] # "" /\ line[6] # ""
         /\ \A n \in 2..4 : ReadNumber[line[n]] \in Nat \cap DOMAIN ShowNumber
         /\ line[5] \in DOMAIN RoleNamed
<1>1. \A n \in 1..6 : Fits(FieldNames[n], line[n])
  BY DEF IsRecord, Misfits, FieldNames
<1>2. /\ FieldNames[1] = "event_id" /\ FieldNames[2] = "observed_time"
      /\ FieldNames[3] = "received_time" /\ FieldNames[4] = "received_sequence_number"
      /\ FieldNames[5] = "role" /\ FieldNames[6] = "symbol"
  BY DEF FieldNames
<1>3. line[1] # "" /\ line[6] # ""
  <2>1. Fits("event_id", line[1]) /\ Fits("symbol", line[6])
    BY <1>1, <1>2
  <2> QED
    BY <2>1, Zenon DEF Fits
<1>4. \A n \in 2..4 : line[n] \in DOMAIN ReadNumber
  <2>1. /\ Fits("observed_time", line[2]) /\ Fits("received_time", line[3])
        /\ Fits("received_sequence_number", line[4])
    BY <1>1, <1>2
  <2>2. line[2] \in DOMAIN ReadNumber /\ line[3] \in DOMAIN ReadNumber /\ line[4] \in DOMAIN ReadNumber
    BY <2>1, Zenon DEF Fits
  <2> QED
    BY <2>2
<1>5. line[5] \in DOMAIN RoleNamed
  <2>1. Fits("role", line[5])
    BY <1>1, <1>2
  <2> QED
    BY <2>1, Zenon DEF Fits
<1>6. \A t \in DOMAIN ReadNumber : ReadNumber[t] \in Nat \cap DOMAIN ShowNumber
  BY EventTextAssumption, Zenon
<1> QED
  BY <1>3, <1>4, <1>5, <1>6

\* Every name of a role stands for a role, and a role for itself.
LEMMA NamesOfRoles ==
  /\ \A name \in DOMAIN RoleNamed : RoleNamed[name] \in Roles
  /\ \A role \in Roles : role \in DOMAIN RoleNamed /\ RoleNamed[role] = role
BY DEF RoleNamed, Roles

\* A row is written as a record that reads back as the row.
LEMMA WrittenRowReadsBack ==
  ASSUME NEW line, IsRecord(line), ~Skipped(line)
  PROVE  LET row == FromPipeRecord(line)
         IN  /\ ~Skipped(ToPipeRecord(row))
             /\ IsRecord(ToPipeRecord(row))
             /\ FromPipeRecord(ToPipeRecord(row)) = row
<1> DEFINE row == FromPipeRecord(line)
           out == ToPipeRecord(row)
<1>1. /\ line[1] # "" /\ line[6] # ""
      /\ \A n \in 2..4 : ReadNumber[line[n]] \in Nat \cap DOMAIN ShowNumber
      /\ line[5] \in DOMAIN RoleNamed
  BY RecordFields
<1>2. /\ row.event_id = line[1] /\ row.observed_time = ReadNumber[line[2]]
      /\ row.received_time = ReadNumber[line[3]] /\ row.seq = ReadNumber[line[4]]
      /\ row.role = RoleNamed[line[5]] /\ row.symbol = line[6] /\ row.payload = Payload(line)
  BY DEF FromPipeRecord
<1>3. /\ out[1] = line[1] /\ out[2] = ShowNumber[row.observed_time]
      /\ out[3] = ShowNumber[row.received_time] /\ out[4] = ShowNumber[row.seq]
      /\ out[5] = row.role /\ out[6] = line[6] /\ out[7] = row.payload /\ Len(out) = 7
  BY <1>2 DEF ToPipeRecord
<1>4. \A n \in {row.observed_time, row.received_time, row.seq} :
        ShowNumber[n] \in DOMAIN ReadNumber /\ ReadNumber[ShowNumber[n]] = n
  <2>1. \A n \in DOMAIN ShowNumber :
          ShowNumber[n] \in DOMAIN ReadNumber /\ ReadNumber[ShowNumber[n]] = n
    BY EventTextAssumption, Zenon
  <2>2. /\ ReadNumber[line[2]] \in DOMAIN ShowNumber /\ ReadNumber[line[3]] \in DOMAIN ShowNumber
        /\ ReadNumber[line[4]] \in DOMAIN ShowNumber
    <3>1. 2 \in 2..4 /\ 3 \in 2..4 /\ 4 \in 2..4
      OBVIOUS
    <3> QED
      BY <1>1, <3>1, Zenon
  <2> QED
    BY <1>2, <2>1, <2>2, Zenon
<1>5. row.role \in DOMAIN RoleNamed /\ RoleNamed[row.role] = row.role
  BY <1>1, <1>2, NamesOfRoles
<1>6. ~Skipped(out)
  <2>1. line[1] \notin Comments
    BY DEF Skipped
  <2>2. out # <<"">>
    <3>1. Len(out) # Len(<<"">>)
      BY <1>3
    <3> QED
      BY <3>1, Zenon
  <2> QED
    BY <1>3, <2>1, <2>2 DEF Skipped
<1>7. IsRecord(out)
  <2>1. \A n \in 1..6 : Fits(FieldNames[n], out[n])
    <3>1. Fits("event_id", out[1]) /\ Fits("symbol", out[6])
      BY <1>1, <1>3 DEF Fits
    <3>2. \A name \in {"observed_time", "received_time", "received_sequence_number"} :
            \A n \in {row.observed_time, row.received_time, row.seq} : Fits(name, ShowNumber[n])
      BY <1>4 DEF Fits
    <3>3. Fits("role", out[5])
      BY <1>3, <1>5 DEF Fits
    <3>4. /\ FieldNames[1] = "event_id" /\ FieldNames[2] = "observed_time"
          /\ FieldNames[3] = "received_time" /\ FieldNames[4] = "received_sequence_number"
          /\ FieldNames[5] = "role" /\ FieldNames[6] = "symbol"
      BY DEF FieldNames
    <3>5. \A n \in 1..6 : n = 1 \/ n = 2 \/ n = 3 \/ n = 4 \/ n = 5 \/ n = 6
      OBVIOUS
    <3> QED
      BY <1>3, <3>1, <3>2, <3>3, <3>4, <3>5
  <2>2. DOMAIN FieldNames = 1..6 /\ Len(FieldNames) = 6
    BY DEF FieldNames
  <2> QED
    BY <1>3, <2>1, <2>2 DEF IsRecord, Misfits
<1>8. Payload(out) = row.payload
  BY <1>3 DEF Payload
<1>9. FromPipeRecord(out) = row
  BY <1>2, <1>3, <1>4, <1>5, <1>8 DEF FromPipeRecord
<1> QED
  BY <1>6, <1>7, <1>9

\* The mutated payload holds one field.
LEMMA FieldOfMutation ==
  ASSUME NEW key \in {"sentiment", "score"}, NEW value, value # Absent
  PROVE  /\ PayloadField(<<Part(key, value), Part("mutated", "true")>>, key) = value
         /\ \A other \in {"sentiment", "score"} :
              other # key => PayloadField(<<Part(key, value), Part("mutated", "true")>>, other) = Absent
<1> DEFINE payload == <<Part(key, value), Part("mutated", "true")>>
           hits(k) == { n \in DOMAIN payload : payload[n].key = k /\ payload[n].value # Absent }
<1>1. /\ DOMAIN payload = {1, 2}
      /\ payload[1].key = key /\ payload[1].value = value /\ payload[2].key = "mutated"
  BY DEF Part
<1>2. \A k : PayloadField(payload, k) =
        IF hits(k) = {} THEN Absent
        ELSE payload[CHOOSE n \in hits(k) : \A j \in hits(k) : n <= j].value
  BY Zenon DEF PayloadField
<1> HIDE DEF payload
<1>3. hits(key) = {1}
  BY <1>1
<1>4. (CHOOSE n \in hits(key) : \A j \in hits(key) : n <= j) = 1
  <2> HIDE DEF hits
  <2> QED
    BY <1>3
<1>5. \A other \in {"sentiment", "score"} : other # key => hits(other) = {}
  BY <1>1
<1>6. PayloadField(payload, key) = value
  <2> HIDE DEF hits
  <2>1. hits(key) # {}
    BY <1>3
  <2> QED
    BY <1>1, <1>2, <1>4, <2>1, Zenon
<1> HIDE DEF hits
<1>7. \A other \in {"sentiment", "score"} : other # key => PayloadField(payload, other) = Absent
  BY <1>2, <1>5, Zenon
<1> QED
  BY <1>6, <1>7, Zenon DEF payload

\* The mutated text of a row reads as the mutated event.
LEMMA MutationRead ==
  ASSUME NEW line, NEW row, row = FromPipeRecord(line)
  PROVE  EventOf(MutatedRow(row)) = WithMutatedFuturePayload(EventOf(row))
<1> DEFINE m == MutatedRow(row)
           e == EventOf(row)
<1>1. /\ m.event_id = row.event_id /\ m.observed_time = row.observed_time
      /\ m.received_time = row.received_time /\ m.seq = row.seq /\ m.role = row.role
      /\ m.symbol = row.symbol /\ m.payload = MutatedPayload(row)
  BY DEF FromPipeRecord, MutatedRow
<1> HIDE DEF m
<1>2. /\ e.id = IdOf[row.event_id] /\ e.observed_time = row.observed_time
      /\ e.received_time = row.received_time /\ e.seq = row.seq /\ e.role = row.role
      /\ e.symbol = row.symbol
      /\ e.sentiment = ReadField(row, "sentiment", SentimentNamed)
      /\ e.score = ReadField(row, "score", ReadScore)
  BY DEF EventOf
<1>4. e = [e EXCEPT !.sentiment = e.sentiment, !.score = e.score]
  BY DEF EventOf
<1>a. e = [ id |-> e.id, observed_time |-> e.observed_time, received_time |-> e.received_time,
            seq |-> e.seq, role |-> e.role, symbol |-> e.symbol,
            sentiment |-> e.sentiment, score |-> e.score ]
  BY DEF EventOf
<1> HIDE DEF e
<1> DEFINE sentiment == ReadField(m, "sentiment", SentimentNamed)
           score == ReadField(m, "score", ReadScore)
<1>3. EventOf(m) = [e EXCEPT !.sentiment = sentiment, !.score = score]
  <2>1. EventOf(m) =
          [ id |-> e.id, observed_time |-> e.observed_time, received_time |-> e.received_time,
            seq |-> e.seq, role |-> e.role, symbol |-> e.symbol,
            sentiment |-> sentiment, score |-> score ]
    BY <1>1, <1>2, Zenon DEF EventOf
  <2> HIDE DEF sentiment, score
  <2> DEFINE D == {"id", "observed_time", "received_time", "seq", "role", "symbol",
                   "sentiment", "score"}
             r == EventOf(m)
  <2> HIDE DEF r
  <2>2. e = [k \in D |-> e[k]]
    BY <1>a
  <2>3. r = [k \in D |-> r[k]]
    BY <2>1 DEF r
  <2>4. \A k \in D : k # "sentiment" /\ k # "score" => r[k] = e[k]
    BY <2>1 DEF r
  <2>5. r["sentiment"] = sentiment /\ r["score"] = score
    BY <2>1 DEF r
  <2>6. "sentiment" \in D /\ "score" \in D
    OBVIOUS
  <2> HIDE DEF D
  <2> QED
    BY <2>2, <2>3, <2>4, <2>5, <2>6 DEF r
<1>5. CASE row.role \notin FeatureRoles
  <2>1. /\ ReadField(m, "sentiment", SentimentNamed) = Absent
        /\ ReadField(m, "score", ReadScore) = Absent
        /\ e.sentiment = Absent /\ e.score = Absent
    BY <1>1, <1>2, <1>5, Zenon DEF ReadField
  <2>2. EventOf(m) = e
    BY <1>3, <1>4, <2>1, Zenon
  <2> QED
    BY <1>2, <1>5, <2>2, Zenon DEF WithMutatedFuturePayload, UpdatesSignalState, m, e
<1>6. CASE row.role \in FeatureRoles /\ PayloadField(row.payload, "score") # Absent
  <2>1. m.payload = <<Part("score", "-999"), Part("mutated", "true")>>
    BY <1>1, <1>6, Zenon DEF MutatedPayload
  <2>2. "-999" # Absent /\ "-999" \in DOMAIN ReadScore /\ ReadScore["-999"] = MutatedScore
    BY EventTextAssumption, Zenon
  <2>3. /\ PayloadField(m.payload, "score") = "-999"
        /\ PayloadField(m.payload, "sentiment") = Absent
    BY <2>1, <2>2, FieldOfMutation
  <2>4. /\ ReadField(m, "sentiment", SentimentNamed) = Absent
        /\ ReadField(m, "score", ReadScore) = MutatedScore
    BY <1>1, <1>6, <2>2, <2>3, Zenon DEF ReadField
  <2>5. e.score # Absent
    <3>1. \A t \in DOMAIN ReadScore : ReadScore[t] # Absent
      <4>1. \A t \in DOMAIN ReadScore : ReadScore[t] \in Scores
        BY EventTextAssumption, Zenon
      <4>2. Absent \notin Scores
        BY EventsAssumption
      <4> QED
        BY <4>1, <4>2, Zenon
    <3>2. Malformed # Absent
      BY EventsAssumption, Zenon
    <3> QED
      BY <1>2, <1>6, <3>1, <3>2, Zenon DEF ReadField
  <2>6. EventOf(m) = [e EXCEPT !.sentiment = Absent, !.score = MutatedScore]
    BY <1>3, <2>4, Zenon
  <2> QED
    BY <1>2, <1>6, <2>5, <2>6, Zenon DEF WithMutatedFuturePayload, UpdatesSignalState, m, e
<1>7. CASE row.role \in FeatureRoles /\ PayloadField(row.payload, "score") = Absent
  <2>1. m.payload = <<Part("sentiment", "negative"), Part("mutated", "true")>>
    BY <1>1, <1>7, Zenon DEF MutatedPayload
  <2>2. "negative" # Absent /\ "negative" \in DOMAIN SentimentNamed /\ SentimentNamed["negative"] = -1
    <3>1. "negative" # Absent
      BY EventTextAssumption, Zenon
    <3> QED
      BY <3>1 DEF SentimentNamed
  <2>3. /\ PayloadField(m.payload, "sentiment") = "negative"
        /\ PayloadField(m.payload, "score") = Absent
    BY <2>1, <2>2, FieldOfMutation
  <2>4. /\ ReadField(m, "sentiment", SentimentNamed) = -1
        /\ ReadField(m, "score", ReadScore) = Absent
    BY <1>1, <1>7, <2>2, <2>3, Zenon DEF ReadField
  <2>5. e.score = Absent
    BY <1>2, <1>7, Zenon DEF ReadField
  <2>6. EventOf(m) = [e EXCEPT !.sentiment = -1]
    <3>1. EventOf(m) = [e EXCEPT !.sentiment = -1, !.score = Absent]
      BY <1>3, <2>4, Zenon
    <3> QED
      BY <1>a, <2>5, <3>1
  <2> QED
    BY <1>2, <1>7, <2>5, <2>6, Zenon DEF WithMutatedFuturePayload, UpdatesSignalState, m, e
<1> QED
  BY <1>5, <1>6, <1>7, Zenon DEF m, e

(***************************************************************************)
(* What was read.  Every line before the cursor can be read, every row is  *)
(* what a record of the file reads as, and an error names a line that      *)
(* cannot be read and comes after lines that can.                          *)
(***************************************************************************)
TextIsCovered ==
  /\ IsSequence(text)
  /\ \A n \in DOMAIN text :
       ~Skipped(text[n]) /\ IsRecord(text[n]) =>
         text[n][1] \in DOMAIN IdOf /\ text[n][6] \in Symbols

ReadInv ==
  /\ TextIsCovered
  /\ cursor \in 1..(Len(text) + 1)
  /\ \A n \in DOMAIN text : n < cursor => IsReadable(text[n])
  /\ rows \in Seq(RowsOfText)
  /\ error.line # Absent =>
       /\ error.line \in Nat
       /\ ~IsReadable(text[error.line])
       /\ \A n \in 1..(error.line - 1) : IsReadable(text[n])

LEMMA TextLength ==
  ASSUME TextIsCovered
  PROVE  Len(text) \in Nat /\ DOMAIN text = 1..Len(text)
BY DEF TextIsCovered, IsSequence

LEMMA ReadInvStarts == Init => ReadInv
<1> SUFFICES ASSUME Init PROVE ReadInv
  OBVIOUS
<1>1. PICK invocation \in Invocations : words = invocation[1] /\ text = invocation[2]
  BY DEF Init
<1>2. TextIsCovered
  BY <1>1, CommandAssumption, Zenon DEF TextIsCovered
<1>3. cursor = 1 /\ rows = <<>> /\ error.line = Absent
  BY DEF Init, NoError
<1> QED
  BY <1>2, <1>3, TextLength DEF ReadInv

\* Lines that stay what they are.
LEMMA ReadInvKept ==
  ASSUME ReadInv, text' = text, cursor' = cursor, rows' = rows,
         error' = error \/ error'.line = Absent
  PROVE  ReadInv'
<1>1. TextIsCovered' /\ (rows \in Seq(RowsOfText))'
  BY Zenon DEF ReadInv, TextIsCovered, RowsOfText
<1>2. (\A n \in DOMAIN text : n < cursor => IsReadable(text[n]))'
  BY Zenon DEF ReadInv
<1>3. (cursor \in 1..(Len(text) + 1))'
  BY Zenon DEF ReadInv
<1>4. (error.line # Absent =>
        /\ error.line \in Nat
        /\ ~IsReadable(text[error.line])
        /\ \A n \in 1..(error.line - 1) : IsReadable(text[n]))'
  BY Zenon DEF ReadInv
<1> QED
  BY <1>1, <1>2, <1>3, <1>4, Zenon DEF ReadInv

\* The line at the cursor is one of the file.
LEMMA CursorAtLine ==
  ASSUME ReadInv, AtLine
  PROVE  /\ cursor \in DOMAIN text /\ cursor \in Nat /\ cursor + 1 \in 1..(Len(text) + 1)
         /\ \A n \in DOMAIN text : n < cursor + 1 => n < cursor \/ n = cursor
BY TextLength DEF ReadInv, AtLine

LEMMA ReadStep ==
  ASSUME ReadInv, SkipLine \/ ReadRow
  PROVE  ReadInv'
<1>1. AtLine /\ text' = text /\ error' = error /\ cursor' = cursor + 1 /\ IsReadable(text[cursor])
  BY Zenon DEF SkipLine, ReadRow, IsReadable
<1>2. TextIsCovered' /\ RowsOfText' = RowsOfText
  BY <1>1, Zenon DEF ReadInv, TextIsCovered, RowsOfText
<1>3. (cursor \in 1..(Len(text) + 1))' /\ (\A n \in DOMAIN text : n < cursor => IsReadable(text[n]))'
  BY <1>1, CursorAtLine DEF ReadInv
<1>4. rows' \in Seq(RowsOfText)
  <2>1. CASE SkipLine
    BY <2>1 DEF SkipLine, ReadInv
  <2>2. CASE ReadRow
    <3>1. FromPipeRecord(text[cursor]) \in RowsOfText
      BY <1>1, <2>2, CursorAtLine DEF ReadRow, RowsOfText
    <3>2. rows \in Seq(RowsOfText) /\ rows' = Append(rows, FromPipeRecord(text[cursor]))
      BY <2>2 DEF ReadRow, ReadInv
    <3> QED
      BY <3>1, <3>2
  <2> QED
    BY <2>1, <2>2
<1>5. (error.line # Absent =>
        /\ error.line \in Nat
        /\ ~IsReadable(text[error.line])
        /\ \A n \in 1..(error.line - 1) : IsReadable(text[n]))'
  BY <1>1, Zenon DEF ReadInv
<1> QED
  BY <1>2, <1>3, <1>4, <1>5, Zenon DEF ReadInv

LEMMA RefuseLineStep ==
  ASSUME ReadInv, RefuseLine
  PROVE  ReadInv'
<1>1. /\ AtLine /\ text' = text /\ rows' = rows /\ cursor' = cursor
      /\ ~IsReadable(text[cursor]) /\ error'.line = cursor
  BY DEF RefuseLine, Fail, LineNumber, IsReadable
<1>2. TextIsCovered' /\ RowsOfText' = RowsOfText
  BY <1>1, Zenon DEF ReadInv, TextIsCovered, RowsOfText
<1>3. (cursor \in 1..(Len(text) + 1))' /\ (\A n \in DOMAIN text : n < cursor => IsReadable(text[n]))'
  BY <1>1, Zenon DEF ReadInv
<1>4. (/\ error.line \in Nat
       /\ ~IsReadable(text[error.line])
       /\ \A n \in 1..(error.line - 1) : IsReadable(text[n]))'
  <2>1. \A n \in 1..(cursor - 1) : n \in DOMAIN text /\ n < cursor
    BY <1>1, CursorAtLine, TextLength DEF ReadInv
  <2>2. \A n \in 1..(cursor - 1) : IsReadable(text[n])
    BY <2>1, Zenon DEF ReadInv
  <2> QED
    BY <1>1, <2>2, CursorAtLine, Zenon
<1> QED
  BY <1>1, <1>2, <1>3, <1>4, Zenon DEF ReadInv

LEMMA ReadInvStep == ReadInv /\ [Next]_vars => ReadInv'
<1> SUFFICES ASSUME ReadInv, [Next]_vars PROVE ReadInv'
  OBVIOUS
<1>1. CASE SkipLine \/ ReadRow
  BY <1>1, ReadStep
<1>2. CASE RefuseLine
  BY <1>2, RefuseLineStep
<1>3. CASE \/ PrintHelp \/ HandOverWords \/ TakeArguments \/ EndOfFile \/ ReplayFile
           \/ MapEvent \/ MapResult \/ VectorEvent \/ VectorResult
  <2>1. text' = text /\ cursor' = cursor /\ rows' = rows /\ error' = error
    BY <1>3, Zenon DEF PrintHelp, HandOverWords, TakeArguments, EndOfFile, ReplayFile,
         MapEvent, MapResult, VectorEvent, VectorResult
  <2> QED
    BY <2>1, ReadInvKept
<1>4. CASE RefuseArguments \/ FileMissing \/ RefuseFile \/ PrintReport
  <2>1. text' = text /\ cursor' = cursor /\ rows' = rows /\ (error' = error \/ error'.line = Absent)
    BY <1>4 DEF RefuseArguments, FileMissing, RefuseFile, PrintReport, Fail
  <2> QED
    BY <2>1, ReadInvKept
<1>5. CASE UNCHANGED vars
  <2>1. text' = text /\ cursor' = cursor /\ rows' = rows /\ error' = error
    BY <1>5 DEF vars
  <2> QED
    BY <2>1, ReadInvKept
<1>6. CASE Exited
  BY <1>5, <1>6 DEF Exited
<1> QED
  BY <1>1, <1>2, <1>3, <1>4, <1>5, <1>6 DEF Next

THEOREM ReadInvariant == Spec => []ReadInv
<1> QED
  BY ReadInvStarts, ReadInvStep, PTL DEF Spec

\* The comment lines that come first.
LEMMA HeaderLines ==
  /\ Header = [n \in 1..Len(Header) |-> Header[n]]
  /\ Len(Header) \in Nat
  /\ DOMAIN Header = 1..Len(Header)
  /\ \A n \in 1..Len(Header) : Skipped(Header[n])
<1>1. Header \in Seq(Seq(Comments) \ {<<>>})
  BY EventTextAssumption, Zenon
<1>2. ASSUME NEW n \in 1..Len(Header)
      PROVE  Header[n][1] \in Comments
  <2>1. Header[n] \in Seq(Comments) /\ Header[n] # <<>>
    BY <1>1
  <2> QED
    BY <2>1
<1> DEFINE T == Seq(Comments) \ {<<>>}
<1>3. /\ Header = [n \in 1..Len(Header) |-> Header[n]]
      /\ Len(Header) \in Nat /\ DOMAIN Header = 1..Len(Header)
  <2>1. Header \in Seq(T)
    BY <1>1
  <2> HIDE DEF T
  <2> QED
    BY <2>1
<1> QED
  BY <1>2, <1>3 DEF Skipped

\* What was read is written as text that reads back as the same rows.
LEMMA FileReadsBack ==
  ASSUME NEW read \in Seq(RowsOfText)
  PROVE  LET printed == ToPipeString(read)
             data    == Listed(printed, { n \in DOMAIN printed : ~Skipped(printed[n]) })
         IN  /\ \A n \in DOMAIN printed : IsReadable(printed[n])
             /\ [ n \in DOMAIN data |-> FromPipeRecord(data[n]) ] = read
<1> DEFINE H == Len(Header)
           R == Len(read)
           body == [ n \in DOMAIN read |-> ToPipeRecord(read[n]) ]
           printed == ToPipeString(read)
           P == { n \in DOMAIN printed : ~Skipped(printed[n]) }
           data == Listed(printed, P)
<1>1. /\ H \in Nat /\ R \in Nat /\ DOMAIN read = 1..R
      /\ read = [n \in 1..R |-> read[n]]
      /\ \A n \in 1..R : read[n] \in RowsOfText
  BY HeaderLines
<1>2. \A n \in 1..R : /\ ~Skipped(ToPipeRecord(read[n]))
                      /\ IsRecord(ToPipeRecord(read[n]))
                      /\ FromPipeRecord(ToPipeRecord(read[n])) = read[n]
  <2> SUFFICES ASSUME NEW n \in 1..R
               PROVE  /\ ~Skipped(ToPipeRecord(read[n]))
                      /\ IsRecord(ToPipeRecord(read[n]))
                      /\ FromPipeRecord(ToPipeRecord(read[n])) = read[n]
    OBVIOUS
  <2>1. PICK k \in DOMAIN text :
          ~Skipped(text[k]) /\ IsRecord(text[k]) /\ read[n] = FromPipeRecord(text[k])
    BY <1>1, Zenon DEF RowsOfText
  <2> QED
    BY <2>1, WrittenRowReadsBack, Zenon
<1>3. /\ DOMAIN printed = 1..(H + R)
      /\ \A n \in 1..H : printed[n] = Header[n]
      /\ \A n \in 1..R : printed[H + n] = ToPipeRecord(read[n])
  <2> DEFINE T == { Header[n] : n \in 1..H } \cup { ToPipeRecord(read[n]) : n \in 1..R }
  <2>1. Header \in Seq(T)
    <3>1. Header = [n \in 1..H |-> Header[n]]
      BY HeaderLines
    <3>2. \A n \in 1..H : Header[n] \in T
      OBVIOUS
    <3> HIDE DEF T
    <3> QED
      BY <1>1, <3>1, <3>2
  <2>2. body \in Seq(T) /\ Len(body) = R
    <3>1. \A n \in 1..R : ToPipeRecord(read[n]) \in T
      OBVIOUS
    <3>2. body = [n \in 1..R |-> ToPipeRecord(read[n])]
      BY <1>1
    <3> HIDE DEF T
    <3> QED
      BY <1>1, <3>1, <3>2
  <2>3. printed = Header \o body
    BY Zenon DEF ToPipeString
  <2>4. \A n \in 1..R : body[n] = ToPipeRecord(read[n])
    BY <1>1
  <2> HIDE DEF body, printed, T
  <2>5. /\ DOMAIN printed = 1..(H + R)
        /\ \A n \in 1..(H + R) : printed[n] = IF n <= H THEN Header[n] ELSE body[n - H]
    <3>1. \A n \in 1..(H + R) : (Header \o body)[n] = IF n <= H THEN Header[n] ELSE body[n - H]
      BY <1>1, <2>1, <2>2
    <3>2. DOMAIN (Header \o body) = 1..(H + R)
      BY <1>1, <2>1, <2>2
    <3> QED
      BY <2>3, <3>1, <3>2, Zenon
  <2> QED
    BY <1>1, <2>4, <2>5
<1> HIDE DEF printed, body
<1>4. P = (H + 1)..(H + R)
  <2>1. \A n \in 1..H : Skipped(printed[n])
    BY <1>3, HeaderLines, Zenon
  <2>2. \A n \in (H + 1)..(H + R) : ~Skipped(printed[n])
    <3> SUFFICES ASSUME NEW n \in (H + 1)..(H + R)
                 PROVE  ~Skipped(printed[n])
      OBVIOUS
    <3>1. n - H \in 1..R /\ H + (n - H) = n
      BY <1>1
    <3> QED
      BY <1>2, <1>3, <3>1
  <2>3. \A n \in 1..(H + R) : n \in 1..H \/ n \in (H + 1)..(H + R)
    BY <1>1
  <2>4. \A n \in (H + 1)..(H + R) : n \in 1..(H + R)
    BY <1>1
  <2> QED
    BY <1>3, <2>1, <2>2, <2>3, <2>4, Zenon
<1> HIDE DEF P
<1>5. Cardinality(P) = R
  <2>1. Cardinality((H + 1)..(H + R)) = IF H + 1 > H + R THEN 0 ELSE (H + R) - (H + 1) + 1
    <3>1. H + 1 \in Int /\ H + R \in Int
      BY <1>1
    <3> QED
      BY <3>1, FS_Interval, Zenon
  <2> QED
    BY <1>1, <1>4, <2>1
<1>6. \A k \in 1..R : Rank(P, H + k) = k /\ H + k \in P
  <2> SUFFICES ASSUME NEW k \in 1..R
               PROVE  Rank(P, H + k) = k /\ H + k \in P
    OBVIOUS
  <2>1. { q \in P : q <= H + k } = (H + 1)..(H + k)
    BY <1>1, <1>4
  <2>2. Cardinality((H + 1)..(H + k)) = IF H + 1 > H + k THEN 0 ELSE (H + k) - (H + 1) + 1
    <3>1. H + 1 \in Int /\ H + k \in Int
      BY <1>1
    <3> QED
      BY <3>1, FS_Interval, Zenon
  <2>3. Cardinality((H + 1)..(H + k)) = k
    BY <1>1, <2>2
  <2> QED
    <3>1. H + k \in (H + 1)..(H + R)
      BY <1>1
    <3> QED
      BY <1>4, <2>1, <2>3, <3>1, Zenon DEF Rank
<1>7. H + R \in Nat /\ \A q \in P : q \in 1..(H + R)
  BY <1>1, <1>4
<1>8. /\ DOMAIN data = 1..R
      /\ \A k \in 1..R : data[k] = ToPipeRecord(read[k])
  <2>1. DOMAIN data = 1..R
    BY <1>5, <1>7, ListedElements
  <2>2. \A p \in P : data[Rank(P, p)] = printed[p]
    BY <1>7, ListedAtRank
  <2> QED
    BY <1>3, <1>6, <2>1, <2>2
<1> HIDE DEF data
<1>9. \A n \in DOMAIN printed : IsReadable(printed[n])
  <2>1. \A n \in 1..H : IsReadable(printed[n])
    BY <1>3, HeaderLines, Zenon DEF IsReadable
  <2>2. \A k \in 1..R : IsReadable(printed[H + k])
    BY <1>2, <1>3, Zenon DEF IsReadable
  <2>3. \A n \in 1..(H + R) : n \in 1..H \/ \E k \in 1..R : n = H + k
    <3> SUFFICES ASSUME NEW n \in 1..(H + R), n \notin 1..H
                 PROVE  n - H \in 1..R /\ n = H + (n - H)
      BY Zenon
    <3> QED
      BY <1>1
  <2> QED
    BY <1>3, <2>1, <2>2, <2>3, Zenon
<1>10. [ n \in DOMAIN data |-> FromPipeRecord(data[n]) ] = read
  <2>1. \A n \in 1..R : FromPipeRecord(data[n]) = read[n]
    BY <1>2, <1>8, Zenon
  <2> QED
    BY <1>1, <1>8, <2>1
<1> QED
  BY <1>9, <1>10 DEF printed, data, P

(***************************************************************************)
(* A file is read exactly or refused: for every text, an error names its   *)
(* first line that is neither skipped nor a record, and what was read is   *)
(* written as text that reads back as the same rows (replay.rs:203-220,    *)
(* event.rs:277-317, generator.rs:109-134).                                *)
(***************************************************************************)
THEOREM ExactReading == Spec => []FileIsReadExactly
<1>1. ReadInv => FileIsReadExactly
  <2> SUFFICES ASSUME ReadInv PROVE FileIsReadExactly
    OBVIOUS
  <2>1. error.line # Absent =>
          /\ ~IsReadable(text[error.line])
          /\ \A n \in 1..(error.line - 1) : IsReadable(text[n])
    BY Zenon DEF ReadInv
  <2>2. rows \in Seq(RowsOfText)
    BY DEF ReadInv
  <2> QED
    BY <2>1, <2>2, FileReadsBack, Zenon DEF FileIsReadExactly
<1> QED
  BY <1>1, ReadInvariant, PTL

(***************************************************************************)
(* Whatever the payload of a row says, its mutated text reads as the       *)
(* mutation the checks are proved about (event.rs:326-392, 634-640).       *)
(***************************************************************************)
THEOREM TextMutation == Spec => []MutationReachesSignal
<1>1. ReadInv => MutationReachesSignal
  <2> SUFFICES ASSUME ReadInv, NEW n \in DOMAIN rows
               PROVE  EventOf(MutatedRow(rows[n])) = WithMutatedFuturePayload(EventOf(rows[n]))
    BY DEF MutationReachesSignal
  <2>1. rows[n] \in RowsOfText
    BY DEF ReadInv
  <2>2. PICK k \in DOMAIN text : rows[n] = FromPipeRecord(text[k])
    BY <2>1, Zenon DEF RowsOfText
  <2> QED
    BY <2>2, MutationRead, Zenon
<1> QED
  BY <1>1, ReadInvariant, PTL

-----------------------------------------------------------------------------
(***************************************************************************)
(* The two loops of the benchmark.                                         *)
(***************************************************************************)
\* Two numbers with one remainder are a whole turn apart.
LEMMA TurnApart ==
  ASSUME NEW n \in Nat \ {0}, NEW j \in Nat, NEW k \in Nat, j < k, j % n = k % n
  PROVE  k - j >= n
<1> DEFINE q == j \div n
           r == k \div n
<1>1. q \in Nat /\ r \in Nat /\ j = n * q + (j % n) /\ k = n * r + (k % n)
  BY Z3
<1> HIDE DEF q, r
<1>2. k - j = n * (r - q)
  BY <1>1, Z3
<1>3. r - q >= 1
  <2>1. CASE r - q <= 0
    <3>1. n * (r - q) <= 0
      BY <1>1, <2>1, Z3
    <3> QED
      BY <1>2, <3>1
  <2> QED
    BY <1>1, <2>1
<1>4. n * (r - q) >= n
  BY <1>1, <1>3, Z3
<1> QED
  BY <1>2, <1>4

\* Remainders.
LEMMA Remainders ==
  ASSUME NEW n \in Nat \ {0}
  PROVE  /\ \A k \in Nat : k % n \in 0..(n - 1)
         /\ \A k \in 0..(n - 1) : k % n = k
BY Z3

\* A whole turn keeps the remainder.
LEMMA TurnKeeps ==
  ASSUME NEW n \in Nat \ {0}, NEW j \in Nat
  PROVE  (j + n) % n = j % n
<1> DEFINE q == j \div n
           r == j % n
<1>1. q \in Nat /\ j = n * q + r /\ r \in 0..(n - 1)
  BY Z3
<1> HIDE DEF q, r
<1>2. j + n = n * (q + 1) + r
  BY <1>1, Z3
<1>3. (n * (q + 1) + r) % n = r
  BY <1>1, Z3
<1> QED
  BY <1>2, <1>3 DEF r

(***************************************************************************)
(* A loop after some of its events.  A slot no event has reached yet holds *)
(* the neutral sentiment, and any other the sentiment of the last event    *)
(* that reached it; the sum of three sentiments in a row is zero.  Each of  *)
(* the two loops is shown to stay so by its own steps.                     *)
(***************************************************************************)
Representations == {"string map", "symbol slot vec"}

SlotsUpTo(n) == 0..(n - 1)

\* Where a loop keeps the sentiment of the symbol of a slot.
LoopKey(representation, s) == IF representation = "string map" THEN SymbolName(s) ELSE s + 1

LoopKeys(representation, n) == { LoopKey(representation, s) : s \in SlotsUpTo(n) }

HoldsLast(state, representation, n, index) ==
  \A s \in SlotsUpTo(n) :
    \/ index <= s /\ state[LoopKey(representation, s)] = 0
    \/ \E j \in Nat : /\ j < index /\ index - j <= n /\ j % n = s
                      /\ state[LoopKey(representation, s)] = SentimentValue(j)

IsLoop(loop, representation, n) ==
  /\ representation \in Representations
  /\ loop = [ representation |-> loop.representation, index |-> loop.index,
              state |-> loop.state, checksum |-> loop.checksum ]
  /\ loop.representation = representation
  /\ loop.index \in Nat
  /\ loop.state = [key \in LoopKeys(representation, n) |-> loop.state[key]]
  /\ HoldsLast(loop.state, representation, n, loop.index)
  /\ loop.checksum = IF loop.index % 3 = 0 THEN 0 ELSE -1

\* Slots have keys of their own.
LEMMA KeysApart ==
  ASSUME NEW representation, NEW n \in Nat, NEW s \in SlotsUpTo(n), NEW t \in SlotsUpTo(n),
         LoopKey(representation, s) = LoopKey(representation, t)
  PROVE  s = t
<1>1. CASE representation = "string map"
  <2>1. <<"SYM", s>> = <<"SYM", t>>
    BY <1>1 DEF LoopKey, SymbolName
  <2> QED
    BY <2>1
<1>2. CASE representation # "string map"
  <2>1. s + 1 = t + 1
    BY <1>2, Zenon DEF LoopKey
  <2> QED
    BY <2>1 DEF SlotsUpTo
<1> QED
  BY <1>1, <1>2

\* What the two representations keep is indexed by.
LEMMA KeysOfLoops ==
  ASSUME NEW n \in Nat \ {0}
  PROVE  /\ LoopKeys("string map", n) = { SymbolName(slot) : slot \in 0..(n - 1) }
         /\ LoopKeys("symbol slot vec", n) = 1..n
<1>1. \A s : LoopKey("string map", s) = SymbolName(s) /\ LoopKey("symbol slot vec", s) = s + 1
  BY Zenon DEF LoopKey
<1>2. LoopKeys("string map", n) = { SymbolName(slot) : slot \in 0..(n - 1) }
  BY <1>1, Zenon DEF LoopKeys, SlotsUpTo
<1>3. LoopKeys("symbol slot vec", n) = { s + 1 : s \in 0..(n - 1) }
  BY <1>1, Zenon DEF LoopKeys, SlotsUpTo
<1>4. { s + 1 : s \in 0..(n - 1) } = 1..n
  <2>1. ASSUME NEW k \in 1..n PROVE \E s \in 0..(n - 1) : k = s + 1
    <3>1. k - 1 \in 0..(n - 1) /\ k = (k - 1) + 1
      OBVIOUS
    <3> QED
      BY <3>1
  <2> QED
    BY <2>1
<1> QED
  BY <1>2, <1>3, <1>4, Zenon

\* A loop whose slots are all neutral has had no event.
LEMMA LoopStarts ==
  ASSUME NEW representation \in Representations, NEW n \in Nat \ {0}, NEW loop,
         loop = [ representation |-> representation, index |-> 0, checksum |-> 0,
                  state |-> [key \in LoopKeys(representation, n) |-> 0] ]
  PROVE  IsLoop(loop, representation, n)
<1>1. /\ loop.representation = representation /\ loop.index = 0 /\ loop.checksum = 0
      /\ loop.state = [key \in LoopKeys(representation, n) |-> 0]
  OBVIOUS
<1>7. loop = [ representation |-> loop.representation, index |-> loop.index,
               state |-> loop.state, checksum |-> loop.checksum ]
  OBVIOUS
<1>2. loop.state = [key \in LoopKeys(representation, n) |-> loop.state[key]]
  BY <1>1
<1>3. \A s \in SlotsUpTo(n) : 0 <= s /\ loop.state[LoopKey(representation, s)] = 0
  BY <1>1 DEF LoopKeys, SlotsUpTo
<1>4. 0 % 3 = 0 /\ 0 \in Nat
  BY Z3
<1>5. HoldsLast(loop.state, representation, n, loop.index)
  BY <1>1, <1>3, Zenon DEF HoldsLast
<1>6. loop.checksum = IF loop.index % 3 = 0 THEN 0 ELSE -1
  BY <1>1, <1>4, Zenon
<1> QED
  BY <1>1, <1>2, <1>4, <1>5, <1>6, <1>7, Zenon DEF IsLoop

LEMMA MapStarts ==
  ASSUME NEW n \in Nat \ {0}
  PROVE  IsLoop(MapLoop(n), "string map", n)
<1>1. MapLoop(n) = [ representation |-> "string map", index |-> 0, checksum |-> 0,
                     state |-> [key \in LoopKeys("string map", n) |-> 0] ]
  BY KeysOfLoops, Zenon DEF MapLoop
<1> QED
  BY <1>1, LoopStarts DEF Representations

LEMMA VectorStarts ==
  ASSUME NEW n \in Nat \ {0}
  PROVE  IsLoop(VectorLoop(n), "symbol slot vec", n)
<1>1. VectorLoop(n) = [ representation |-> "symbol slot vec", index |-> 0, checksum |-> 0,
                        state |-> [key \in LoopKeys("symbol slot vec", n) |-> 0] ]
  BY KeysOfLoops, Zenon DEF VectorLoop
<1> QED
  BY <1>1, LoopStarts DEF Representations

\* An event that is counted keeps a loop one.
LEMMA LoopGoesOn ==
  ASSUME NEW n \in Nat \ {0}, NEW representation, NEW loop, NEW next,
         IsLoop(loop, representation, n),
         next = [ representation |-> next.representation, index |-> next.index,
                  state |-> next.state, checksum |-> next.checksum ],
         next.representation = loop.representation,
         next.index = loop.index + 1,
         next.state = [loop.state EXCEPT ![LoopKey(representation, loop.index % n)] =
                         SentimentValue(loop.index)],
         next.checksum = loop.checksum + SentimentValue(loop.index)
  PROVE  IsLoop(next, representation, n)
<1> DEFINE k == loop.index
           slot == k % n
           Key(s) == LoopKey(representation, s)
<1>1. /\ k \in Nat /\ slot \in SlotsUpTo(n) /\ k + 1 \in Nat
      /\ loop.state = [key \in LoopKeys(representation, n) |-> loop.state[key]]
      /\ HoldsLast(loop.state, representation, n, k)
      /\ next.state = [loop.state EXCEPT ![Key(slot)] = SentimentValue(k)]
  <2>1. /\ k \in Nat
        /\ loop.state = [key \in LoopKeys(representation, n) |-> loop.state[key]]
        /\ HoldsLast(loop.state, representation, n, k)
    BY Zenon DEF IsLoop
  <2>2. slot \in SlotsUpTo(n)
    BY <2>1, Remainders, Zenon DEF SlotsUpTo
  <2>3. \A x \in Nat : x + 1 \in Nat
    OBVIOUS
  <2> QED
    BY <2>1, <2>2, <2>3, Zenon
<1>2. \A s \in SlotsUpTo(n) : Key(s) \in LoopKeys(representation, n)
  BY DEF LoopKeys
<1>3. \A s \in SlotsUpTo(n) : Key(s) = Key(slot) => s = slot
  BY <1>1, KeysApart
<1>4. next.checksum = IF (k + 1) % 3 = 0 THEN 0 ELSE -1
  <2>1. loop.checksum = IF k % 3 = 0 THEN 0 ELSE -1
    BY DEF IsLoop
  <2>2. next.checksum = loop.checksum + ((k % 3) - 1)
    BY DEF SentimentValue
  <2>3. \/ k % 3 = 0 /\ (k + 1) % 3 = 1
        \/ k % 3 = 1 /\ (k + 1) % 3 = 2
        \/ k % 3 = 2 /\ (k + 1) % 3 = 0
    BY <1>1, Z3
  <2> HIDE DEF k
  <2> QED
    BY <2>1, <2>2, <2>3
<1> HIDE DEF k, slot, Key
<1>5. next.state = [key \in LoopKeys(representation, n) |-> next.state[key]]
  BY <1>1
<1>6. /\ next.state[Key(slot)] = SentimentValue(k)
      /\ \A s \in SlotsUpTo(n) : s # slot => next.state[Key(s)] = loop.state[Key(s)]
  BY <1>1, <1>2, <1>3
<1>7. ASSUME NEW s \in SlotsUpTo(n)
      PROVE  \/ k + 1 <= s /\ next.state[Key(s)] = 0
             \/ \E j \in Nat : /\ j < k + 1 /\ (k + 1) - j <= n /\ j % n = s
                               /\ next.state[Key(s)] = SentimentValue(j)
  <2>1. CASE s = slot
    <3>1. k < k + 1 /\ (k + 1) - k <= n
      BY <1>1
    <3> QED
      BY <1>1, <1>6, <2>1, <3>1, Zenon DEF slot
  <2>2. CASE s # slot /\ k <= s /\ loop.state[Key(s)] = 0
    <3>1. k # s
      <4>1. SUFFICES ASSUME k = s PROVE FALSE
        OBVIOUS
      <4>2. k \in 0..(n - 1)
        BY <4>1 DEF SlotsUpTo
      <4>3. k % n = k
        BY <4>2, Remainders
      <4> QED
        BY <2>2, <4>1, <4>3 DEF slot
    <3> QED
      BY <1>1, <1>6, <2>2, <3>1 DEF SlotsUpTo
  <2>3. CASE s # slot /\ \E j \in Nat : /\ j < k /\ k - j <= n /\ j % n = s
                                        /\ loop.state[Key(s)] = SentimentValue(j)
    <3>1. PICK j \in Nat : /\ j < k /\ k - j <= n /\ j % n = s
                           /\ loop.state[Key(s)] = SentimentValue(j)
      BY <2>3
    <3>2. k # j + n
      BY <2>3, <3>1, TurnKeeps DEF slot
    <3>3. j < k + 1 /\ (k + 1) - j <= n
      BY <1>1, <3>1, <3>2
    <3> QED
      BY <1>6, <2>3, <3>1, <3>3, Zenon
  <2>4. \/ k <= s /\ loop.state[Key(s)] = 0
        \/ \E j \in Nat : /\ j < k /\ k - j <= n /\ j % n = s
                          /\ loop.state[Key(s)] = SentimentValue(j)
    BY <1>1, Zenon DEF HoldsLast, Key
  <2> QED
    BY <2>1, <2>2, <2>3, <2>4, Zenon
<1>8. HoldsLast(next.state, representation, n, k + 1)
  BY <1>7, Zenon DEF HoldsLast, Key
<1> QED
  BY <1>1, <1>4, <1>5, <1>8, Zenon DEF IsLoop, k

\* An event of the loop over the map: its name is always found.
LEMMA MapGoesOn ==
  ASSUME NEW n \in Nat \ {0}, NEW loop, IsLoop(loop, "string map", n)
  PROVE  IsLoop(MapAfterEvent(loop, n), "string map", n)
<1> DEFINE slot == loop.index % n
           key == SymbolName(slot)
           state == [loop.state EXCEPT ![key] = SentimentValue(loop.index)]
           sum == IF key \in DOMAIN state THEN loop.checksum + state[key] ELSE loop.checksum
           next == MapAfterEvent(loop, n)
<1>1. /\ loop = [ representation |-> loop.representation, index |-> loop.index,
                  state |-> loop.state, checksum |-> loop.checksum ]
      /\ loop.representation = "string map"
      /\ loop.index \in Nat
      /\ loop.state = [k \in LoopKeys("string map", n) |-> loop.state[k]]
  BY Zenon DEF IsLoop
<1>2. slot \in SlotsUpTo(n)
  BY <1>1, Remainders, Zenon DEF SlotsUpTo
<1>3. next = [loop EXCEPT !.index = loop.index + 1, !.state = state, !.checksum = sum]
  BY Zenon DEF MapAfterEvent
<1>9. key = LoopKey("string map", loop.index % n)
  BY Zenon DEF LoopKey
<1>4. state = [loop.state EXCEPT ![LoopKey("string map", loop.index % n)] =
                 SentimentValue(loop.index)]
  BY <1>9, Zenon
<1>5. key \in LoopKeys("string map", n)
  BY <1>2, <1>9, Zenon DEF LoopKeys
<1> HIDE DEF slot, key
<1>10. /\ DOMAIN state = LoopKeys("string map", n)
       /\ state[key] = SentimentValue(loop.index)
  BY <1>1, <1>5
<1>6. sum = loop.checksum + SentimentValue(loop.index)
  BY <1>5, <1>10, Zenon
<1> HIDE DEF state, sum, next
<1>7. /\ next = [ representation |-> next.representation, index |-> next.index,
                  state |-> next.state, checksum |-> next.checksum ]
      /\ next.representation = loop.representation /\ next.index = loop.index + 1
      /\ next.state = state /\ next.checksum = sum
  <2> DEFINE D == {"representation", "index", "state", "checksum"}
  <2>1. loop = [k \in D |-> loop[k]]
    BY <1>1
  <2>2. next = [k \in D |-> IF k = "index" THEN loop.index + 1 ELSE IF k = "state" THEN state
                            ELSE IF k = "checksum" THEN sum ELSE loop[k]]
    <3> HIDE DEF D
    <3> QED
      BY <1>3, <2>1
  <2> QED
    BY <2>2
<1>8. IsLoop(next, "string map", n)
  BY <1>4, <1>6, <1>7, LoopGoesOn, Zenon
<1> QED
  BY <1>8 DEF next

\* An event of the loop over the vector.
LEMMA VectorGoesOn ==
  ASSUME NEW n \in Nat \ {0}, NEW loop, IsLoop(loop, "symbol slot vec", n)
  PROVE  IsLoop(VectorAfterEvent(loop, n), "symbol slot vec", n)
<1> DEFINE slot == loop.index % n
           key == slot + 1
           state == [loop.state EXCEPT ![key] = SentimentValue(loop.index)]
           sum == loop.checksum + state[key]
           next == VectorAfterEvent(loop, n)
<1>1. /\ loop = [ representation |-> loop.representation, index |-> loop.index,
                  state |-> loop.state, checksum |-> loop.checksum ]
      /\ loop.representation = "symbol slot vec"
      /\ loop.index \in Nat
      /\ loop.state = [k \in LoopKeys("symbol slot vec", n) |-> loop.state[k]]
  BY Zenon DEF IsLoop
<1>2. slot \in SlotsUpTo(n)
  BY <1>1, Remainders, Zenon DEF SlotsUpTo
<1>3. next = [loop EXCEPT !.index = loop.index + 1, !.state = state, !.checksum = sum]
  BY Zenon DEF VectorAfterEvent
<1>9. key = LoopKey("symbol slot vec", loop.index % n)
  BY Zenon DEF LoopKey
<1>4. state = [loop.state EXCEPT ![LoopKey("symbol slot vec", loop.index % n)] =
                 SentimentValue(loop.index)]
  BY <1>9, Zenon
<1>5. key \in LoopKeys("symbol slot vec", n)
  BY <1>2, <1>9, Zenon DEF LoopKeys
<1> HIDE DEF slot, key
<1>10. /\ DOMAIN state = LoopKeys("symbol slot vec", n)
       /\ state[key] = SentimentValue(loop.index)
  BY <1>1, <1>5
<1>6. sum = loop.checksum + SentimentValue(loop.index)
  BY <1>5, <1>10, Zenon
<1> HIDE DEF state, sum, next
<1>7. /\ next = [ representation |-> next.representation, index |-> next.index,
                  state |-> next.state, checksum |-> next.checksum ]
      /\ next.representation = loop.representation /\ next.index = loop.index + 1
      /\ next.state = state /\ next.checksum = sum
  <2> DEFINE D == {"representation", "index", "state", "checksum"}
  <2>1. loop = [k \in D |-> loop[k]]
    BY <1>1
  <2>2. next = [k \in D |-> IF k = "index" THEN loop.index + 1 ELSE IF k = "state" THEN state
                            ELSE IF k = "checksum" THEN sum ELSE loop[k]]
    <3> HIDE DEF D
    <3> QED
      BY <1>3, <2>1
  <2> QED
    BY <2>2
<1>8. IsLoop(next, "symbol slot vec", n)
  BY <1>4, <1>6, <1>7, LoopGoesOn, Zenon
<1> QED
  BY <1>8 DEF next

\* Two loops after as many events hold the same.
LEMMA LoopsAgree ==
  ASSUME NEW n \in Nat \ {0}, NEW a, NEW b, NEW p, NEW q, IsLoop(a, p, n), IsLoop(b, q, n),
         a.index = b.index, NEW s \in SlotsUpTo(n)
  PROVE  a.state[LoopKey(p, s)] = b.state[LoopKey(q, s)]
<1> DEFINE k == a.index
           x == a.state[LoopKey(p, s)]
           y == b.state[LoopKey(q, s)]
<1>1. /\ k \in Nat
      /\ \/ k <= s /\ x = 0
         \/ \E j \in Nat : j < k /\ k - j <= n /\ j % n = s /\ x = SentimentValue(j)
      /\ \/ k <= s /\ y = 0
         \/ \E j \in Nat : j < k /\ k - j <= n /\ j % n = s /\ y = SentimentValue(j)
  BY Zenon DEF IsLoop, HoldsLast
<1> HIDE DEF k, x, y
<1>2. ASSUME NEW i \in Nat, NEW j \in Nat, i < k, j < k, k - i <= n, k - j <= n,
             i % n = s, j % n = s
      PROVE  i = j
  <2>1. CASE i < j
    <3>1. j - i >= n
      BY <1>2, <2>1, TurnApart
    <3> QED
      BY <1>1, <1>2, <3>1
  <2>2. CASE j < i
    <3>1. i - j >= n
      BY <1>2, <2>2, TurnApart
    <3> QED
      BY <1>1, <1>2, <3>1
  <2> QED
    BY <2>1, <2>2
<1>3. ASSUME NEW j \in Nat, j < k, j % n = s, k <= s
      PROVE  FALSE
  <2>1. j \in 0..(n - 1) /\ j # s
    BY <1>1, <1>3 DEF SlotsUpTo
  <2> QED
    BY <1>3, <2>1, Remainders
<1>4. x = y
  BY <1>1, <1>2, <1>3, Zenon
<1> QED
  BY <1>4 DEF x, y

LEMMA ChecksumsAgree ==
  ASSUME NEW n, NEW a, NEW b, NEW p, NEW q, IsLoop(a, p, n), IsLoop(b, q, n), a.index = b.index
  PROVE  a.checksum = b.checksum
BY Zenon DEF IsLoop

(***************************************************************************)
(* The settings of a benchmark are numbers.                                *)
(***************************************************************************)
\* A nonempty set of positions has a last one.
LEMMA LastPosition ==
  ASSUME NEW N \in Nat, NEW P, P # {}, \A p \in P : p \in 1..N
  PROVE  Args!Max(P) \in P
<1> DEFINE D == { N - p : p \in P }
<1>1. D # {} /\ \A x \in D : x \in Nat
  OBVIOUS
<1> HIDE DEF D
<1>2. PICK m \in D : \A x \in D : m <= x
  BY <1>1, LeastNatural
<1>3. PICK p \in P : m = N - p
  BY DEF D
<1>4. \A q \in P : p >= q
  <2> SUFFICES ASSUME NEW q \in P PROVE p >= q
    OBVIOUS
  <2>1. N - q \in D
    BY DEF D
  <2>2. N - p <= N - q
    BY <1>2, <1>3, <2>1
  <2> QED
    BY <2>2
<1> QED
  BY <1>4, Zenon DEF Args!Max

\* And a first one.
LEMMA FirstPosition ==
  ASSUME NEW N \in Nat, NEW P, P # {}, \A p \in P : p \in 1..N
  PROVE  Args!Min(P) \in P
<1>1. PICK m \in P : \A x \in P : m <= x
  <2>1. \A x \in P : x \in Nat
    OBVIOUS
  <2> QED
    BY <2>1, LeastNatural
<1> QED
  BY <1>1, Zenon DEF Args!Min

LEMMA BenchSettings ==
  ASSUME IsSequence(words), Command = "bench", Args!Accepted(Command, Given)
  PROVE  Args!Settings(Command, Given).events \in Nat /\ Args!Settings(Command, Given).symbols \in Nat
<1> DEFINE flags == Args!FlagsOf(Command)
           starts == Args!Starts(Command, Given)
<1>1. Len(Given) \in Nat /\ DOMAIN Given = 1..Len(Given)
  BY DEF IsSequence, Given
<1>2. flags = Args!BenchFlags
  BY Zenon DEF Args!FlagsOf
<1>3. /\ DOMAIN flags = {"--events", "--symbols"}
      /\ \A word \in DOMAIN flags : flags[word].reads = "number"
  BY <1>2 DEF Args!BenchFlags, Args!Takes
<1>4. Args!Defaults(Command, Given) = Args!BenchDefaults
  BY Zenon DEF Args!Defaults, Args!GeneratingCommands
<1>8. /\ DOMAIN Args!BenchDefaults = {"events", "symbols"}
      /\ \A setting \in {"events", "symbols"} : Args!BenchDefaults[setting] \in Nat
  BY DEF Args!BenchDefaults
<1>5. \A n \in starts : Args!Problem(Command, Given, n) = "none"
  <2> SUFFICES ASSUME Args!Problems(Command, Given) # {}
               PROVE  FALSE
    BY Zenon DEF Args!Problems
  <2>1. Args!Min(Args!Problems(Command, Given)) \in Args!Problems(Command, Given)
    <3>1. \A n \in Args!Problems(Command, Given) : n \in 1..Len(Given)
      BY <1>1, Zenon DEF Args!Problems, Args!Starts
    <3> QED
      BY <1>1, <3>1, FirstPosition
  <2>2. Args!Problem(Command, Given, Args!Min(Args!Problems(Command, Given))) # "none"
    BY <2>1, Zenon DEF Args!Problems
  <2> QED
    BY <2>2, Zenon DEF Args!Accepted, Args!ArgumentError, Args!GeneratingCommands
<1>6. ASSUME NEW n \in starts, Given[n] \in DOMAIN flags
      PROVE  Args!ValueAt(Command, Given, n) \in Nat
  <2>1. Args!Problem(Command, Given, n) = "none"
    BY <1>5, <1>6
  <2>2. flags[Given[n]].reads = "number"
    BY <1>3, <1>6
  <2>3. Args!TakesValue(flags, Given[n])
    BY <1>6, <2>2, Zenon DEF Args!TakesValue
  <2>4. Args!Readable("number", Given[n + 1])
    BY <1>6, <2>1, <2>2, <2>3, Zenon DEF Args!Problem
  <2>5. Given[n + 1] \in DOMAIN ReadNumber
    BY <2>4, Zenon DEF Args!Readable
  <2>6. Args!ValueAt(Command, Given, n) = ReadNumber[Given[n + 1]]
    BY <2>2, Zenon DEF Args!ValueAt
  <2> QED
    BY <2>5, <2>6, EventTextAssumption, Zenon
<1>7. ASSUME NEW setting \in {"events", "symbols"}
      PROVE  Args!Settings(Command, Given)[setting] \in Nat
  <2> DEFINE setters == Args!Setters(Command, Given, setting)
  <2>1. Args!Settings(Command, Given)[setting] =
          IF setters = {} THEN Args!Defaults(Command, Given)[setting]
          ELSE Args!ValueAt(Command, Given, Args!Max(setters))
    <3>1. setting \in DOMAIN Args!Defaults(Command, Given) /\ setting # "scenario"
      BY <1>4, <1>8
    <3> QED
      BY <3>1, Zenon DEF Args!Settings
  <2>2. CASE setters = {}
    BY <1>4, <1>8, <2>1, <2>2, Zenon
  <2>3. CASE setters # {}
    <3>1. \A n \in setters : n \in starts /\ n \in 1..Len(Given) /\ Given[n] \in DOMAIN flags
      BY <1>1, Zenon DEF Args!Setters, Args!Starts
    <3>2. Args!Max(setters) \in setters
      BY <1>1, <2>3, <3>1, LastPosition
    <3> QED
      BY <1>6, <2>1, <2>3, <3>1, <3>2, Zenon
  <2> QED
    BY <2>2, <2>3
<1> QED
  BY <1>7

(***************************************************************************)
(* The benchmark of a process: the loop over the map runs to its last      *)
(* event, then the one over the vector.                                    *)
(***************************************************************************)
Slots == SymbolCount(settings)

IsResult(loop, representation) ==
  IsLoop(loop, representation, Slots) /\ loop.index = settings.events

Measuring ==
  /\ Command = "bench"
  /\ settings.events \in Nat /\ settings.symbols \in Nat
  /\ bench = [results |-> bench.results, loop |-> bench.loop]
  /\ \/ bench.results = <<>> /\ IsLoop(bench.loop, "string map", Slots)
     \/ \E first : /\ bench.results = <<first>>
                   /\ IsResult(first, "string map")
                   /\ IsLoop(bench.loop, "symbol slot vec", Slots)

Measured ==
  /\ settings.events \in Nat /\ settings.symbols \in Nat
  /\ \E first, second : /\ bench.results = <<first, second>>
                        /\ IsResult(first, "string map")
                        /\ IsResult(second, "symbol slot vec")

BenchInv ==
  /\ IsSequence(words)
  /\ phase \in {"loading", "replaying", "reporting"} => Command # "bench"
  /\ phase = "benching" => Measuring
  /\ phase = "done" /\ Command = "bench" => Measured

LEMMA SlotsPositive ==
  ASSUME settings.symbols \in Nat
  PROVE  Slots \in Nat \ {0}
BY DEF Slots, SymbolCount

LEMMA BenchStarts == Init => BenchInv
<1> SUFFICES ASSUME Init PROVE BenchInv
  OBVIOUS
<1>1. PICK invocation \in Invocations : words = invocation[1]
  BY DEF Init
<1>2. IsSequence(words)
  BY <1>1, CommandAssumption, Zenon
<1> QED
  BY <1>2 DEF Init, BenchInv

LEMMA BenchTaken ==
  ASSUME BenchInv, TakeArguments
  PROVE  BenchInv'
<1>1. /\ words' = words /\ phase' = NextPhase /\ Command' = Command
      /\ settings' = Args!Settings(Command, Given)
      /\ Command \in Parsed /\ Args!Accepted(Command, Given)
  BY Zenon DEF TakeArguments, Command
<1>2. IsSequence(words)'
  BY <1>1, Zenon DEF BenchInv
<1>3. /\ Command = "bench" => phase' = "benching"
      /\ Command # "bench" => phase' \in {"loading", "handed over"}
  BY <1>1 DEF NextPhase, Parsed, Args!FileCommands, Args!GeneratingCommands
<1>4. ASSUME Command = "bench" PROVE Measuring'
  <2>1. settings'.events \in Nat /\ settings'.symbols \in Nat
    BY <1>1, <1>4, BenchSettings, Zenon DEF BenchInv
  <2> DEFINE n == SymbolCount(settings')
  <2>2. bench' = [results |-> <<>>, loop |-> MapLoop(n)]
    BY <1>4, Zenon DEF TakeArguments
  <2>3. n \in Nat \ {0}
    BY <2>1 DEF SymbolCount
  <2> HIDE DEF n
  <2>4. IsLoop(MapLoop(n), "string map", n)
    BY <2>3, MapStarts
  <2>5. bench'.results = <<>> /\ IsLoop(bench'.loop, "string map", n)
    BY <2>2, <2>4
  <2>6. bench' = [results |-> bench'.results, loop |-> bench'.loop]
    BY <2>2
  <2>7. Slots' = n
    BY DEF Slots, n
  <2> QED
    BY <1>1, <1>4, <2>1, <2>5, <2>6, <2>7, Zenon DEF Measuring
<1> QED
  BY <1>1, <1>2, <1>3, <1>4, Zenon DEF BenchInv

\* An event of the first loop.
LEMMA MapEventStep ==
  ASSUME BenchInv, MapEvent
  PROVE  BenchInv'
<1>1. /\ phase = "benching" /\ phase' = phase /\ settings' = settings /\ words' = words
      /\ Command' = Command /\ Slots' = Slots
      /\ bench.loop.representation = "string map"
  BY DEF MapEvent, Command, Slots
<1>2. Measuring
  BY <1>1, Zenon DEF BenchInv
<1> DEFINE loop == bench.loop
           next == MapAfterEvent(loop, Slots)
<1>3. bench' = [bench EXCEPT !.loop = next]
  BY Zenon DEF MapEvent, Slots
<1>4. Slots \in Nat \ {0}
  BY <1>2, SlotsPositive DEF Measuring
<1>5. bench.results = <<>> /\ IsLoop(loop, "string map", Slots)
  <2>1. loop.representation # "symbol slot vec"
    BY <1>1
  <2>2. ~ IsLoop(loop, "symbol slot vec", Slots)
    BY <2>1, Zenon DEF IsLoop
  <2> QED
    BY <1>2, <2>2, Zenon DEF Measuring
<1>6. IsLoop(next, "string map", Slots)
  <2>1. PICK n \in Nat \ {0} : n = Slots
    BY <1>4
  <2>2. IsLoop(MapAfterEvent(loop, n), "string map", n)
    BY <1>5, <2>1, MapGoesOn, Zenon
  <2> QED
    BY <2>1, <2>2, Zenon
<1> HIDE DEF next
<1>7. /\ bench'.results = bench.results /\ bench'.loop = next
      /\ bench' = [results |-> bench'.results, loop |-> bench'.loop]
  <2>1. bench = [results |-> bench.results, loop |-> bench.loop]
    BY <1>2, Zenon DEF Measuring
  <2> QED
    BY <1>3, <2>1
<1>8. Measuring'
  <2>1. /\ bench'.results = <<>> /\ IsLoop(bench'.loop, "string map", Slots)
        /\ settings'.events \in Nat /\ settings'.symbols \in Nat /\ Command' = "bench"
    BY <1>1, <1>2, <1>5, <1>6, <1>7, Zenon DEF Measuring
  <2> QED
    BY <1>1, <1>7, <2>1, Zenon DEF Measuring
<1> QED
  BY <1>1, <1>8, Zenon DEF BenchInv

\* The result of the first loop, and the start of the second.
LEMMA MapResultStep ==
  ASSUME BenchInv, MapResult
  PROVE  BenchInv'
<1>1. /\ phase = "benching" /\ phase' = phase /\ settings' = settings /\ words' = words
      /\ Command' = Command /\ Slots' = Slots
      /\ bench.loop.representation = "string map" /\ bench.loop.index = settings.events
      /\ bench' = [results |-> <<bench.loop>>, loop |-> VectorLoop(Slots)]
  BY Zenon DEF MapResult, Command, Slots
<1>2. Measuring
  BY <1>1, Zenon DEF BenchInv
<1>3. Slots \in Nat \ {0}
  BY <1>2, SlotsPositive DEF Measuring
<1>4. IsLoop(bench.loop, "string map", Slots)
  <2>1. bench.loop.representation # "symbol slot vec"
    BY <1>1
  <2>2. ~ IsLoop(bench.loop, "symbol slot vec", Slots)
    BY <2>1, Zenon DEF IsLoop
  <2> QED
    BY <1>2, <2>2, Zenon DEF Measuring
<1> PICK first : first = bench.loop
  OBVIOUS
<1>5. /\ bench'.results = <<first>> /\ bench'.loop = VectorLoop(Slots)
      /\ bench' = [results |-> bench'.results, loop |-> bench'.loop]
  BY <1>1
<1>6. IsLoop(VectorLoop(Slots), "symbol slot vec", Slots)
  BY <1>3, VectorStarts
<1>7. IsLoop(first, "string map", Slots) /\ first.index = settings.events
  BY <1>1, <1>4
<1>8. Measuring'
  BY <1>1, <1>2, <1>5, <1>6, <1>7, Zenon DEF Measuring, IsResult
<1>9. phase' # "done"
  BY <1>1
<1> QED
  BY <1>1, <1>8, <1>9, Zenon DEF BenchInv

\* An event of the second.
LEMMA VectorEventStep ==
  ASSUME BenchInv, VectorEvent
  PROVE  BenchInv'
<1>1. /\ phase = "benching" /\ phase' = phase /\ settings' = settings /\ words' = words
      /\ Command' = Command /\ Slots' = Slots
      /\ bench.loop.representation = "symbol slot vec"
  BY DEF VectorEvent, Command, Slots
<1>2. Measuring
  BY <1>1, Zenon DEF BenchInv
<1> DEFINE loop == bench.loop
           next == VectorAfterEvent(loop, Slots)
<1>3. bench' = [bench EXCEPT !.loop = next]
  BY Zenon DEF VectorEvent, Slots
<1>4. Slots \in Nat \ {0}
  BY <1>2, SlotsPositive DEF Measuring
<1>5. \E first : /\ bench.results = <<first>>
                  /\ IsResult(first, "string map")
                  /\ IsLoop(loop, "symbol slot vec", Slots)
  <2>1. loop.representation # "string map"
    BY <1>1
  <2>2. ~ IsLoop(loop, "string map", Slots)
    BY <2>1, Zenon DEF IsLoop
  <2> QED
    BY <1>2, <2>2, Zenon DEF Measuring
<1>6. IsLoop(next, "symbol slot vec", Slots)
  <2>1. PICK n \in Nat \ {0} : n = Slots
    BY <1>4
  <2>2. IsLoop(VectorAfterEvent(loop, n), "symbol slot vec", n)
    BY <1>5, <2>1, VectorGoesOn, Zenon
  <2> QED
    BY <2>1, <2>2, Zenon
<1> HIDE DEF next
<1>7. /\ bench'.results = bench.results /\ bench'.loop = next
      /\ bench' = [results |-> bench'.results, loop |-> bench'.loop]
  <2>1. bench = [results |-> bench.results, loop |-> bench.loop]
    BY <1>2, Zenon DEF Measuring
  <2> QED
    BY <1>3, <2>1
<1>8. Measuring'
  <2>1. PICK first : /\ bench.results = <<first>>
                     /\ IsResult(first, "string map")
    BY <1>5, Zenon
  <2>2. /\ bench'.results = <<first>> /\ IsLoop(bench'.loop, "symbol slot vec", Slots)
        /\ settings'.events \in Nat /\ settings'.symbols \in Nat /\ Command' = "bench"
    BY <1>1, <1>2, <1>6, <1>7, <2>1, Zenon DEF Measuring
  <2>3. IsLoop(first, "string map", Slots) /\ first.index = settings'.events
    BY <1>1, <2>1, Zenon DEF IsResult
  <2> QED
    BY <1>1, <1>7, <2>2, <2>3, Zenon DEF Measuring, IsResult
<1> QED
  BY <1>1, <1>8, Zenon DEF BenchInv

\* The result of the second.
LEMMA VectorResultStep ==
  ASSUME BenchInv, VectorResult
  PROVE  BenchInv'
<1>1. /\ phase = "benching" /\ phase' = "done" /\ settings' = settings /\ words' = words
      /\ Command' = Command /\ Slots' = Slots
      /\ bench.loop.representation = "symbol slot vec" /\ bench.loop.index = settings.events
      /\ bench' = [bench EXCEPT !.results = Append(bench.results, bench.loop)]
  BY Zenon DEF VectorResult, Command, Slots
<1>2. Measuring
  BY <1>1, Zenon DEF BenchInv
<1>3. PICK first : /\ bench.results = <<first>>
                   /\ IsResult(first, "string map")
                   /\ IsLoop(bench.loop, "symbol slot vec", Slots)
  <2>1. bench.loop.representation # "string map"
    BY <1>1
  <2>2. ~ IsLoop(bench.loop, "string map", Slots)
    BY <2>1, Zenon DEF IsLoop
  <2> QED
    BY <1>2, <2>2, Zenon DEF Measuring
<1> PICK second : second = bench.loop
  OBVIOUS
<1>4. \A x, y : Append(<<x>>, y) = <<x, y>>
  <2> SUFFICES ASSUME NEW x, NEW y PROVE Append(<<x>>, y) = <<x, y>>
    OBVIOUS
  <2> DEFINE a == Append(<<x>>, y)
  <2>1. <<x>> \in Seq({x, y}) /\ Len(<<x>>) = 1 /\ <<x>>[1] = x
    OBVIOUS
  <2>2. a \in Seq({x, y}) /\ Len(a) = 2 /\ a[1] = x /\ a[2] = y
    BY <2>1
  <2> HIDE DEF a
  <2>3. a = [i \in 1..2 |-> IF i = 1 THEN x ELSE y]
    BY <2>2
  <2>4. <<x, y>> = [i \in 1..2 |-> IF i = 1 THEN x ELSE y]
    OBVIOUS
  <2> QED
    BY <2>3, <2>4, Zenon DEF a
<1>5. bench'.results = <<first, second>>
  <2>1. bench = [results |-> bench.results, loop |-> bench.loop]
    BY <1>2, Zenon DEF Measuring
  <2>2. bench'.results = Append(bench.results, bench.loop)
    BY <1>1, <2>1
  <2> QED
    BY <1>3, <1>4, <2>2, Zenon
<1>6. IsResult(first, "string map")' /\ IsResult(second, "symbol slot vec")'
  BY <1>1, <1>3, Zenon DEF IsResult
<1>7. Measured'
  <2>1. settings'.events \in Nat /\ settings'.symbols \in Nat
    BY <1>1, <1>2, Zenon DEF Measuring
  <2> QED
    BY <1>5, <1>6, <2>1, Zenon DEF Measured
<1>8. phase' # "benching"
  BY <1>1
<1> QED
  BY <1>1, <1>7, <1>8, Zenon DEF BenchInv

\* What no other step touches while the benchmark runs.
LEMMA BenchKept ==
  ASSUME BenchInv, words' = words, bench' = bench, settings' = settings, phase' = phase
  PROVE  BenchInv'
BY Zenon DEF BenchInv, Measuring, Measured, IsResult, Slots, Command

LEMMA BenchInvStep == BenchInv /\ [Next]_vars => BenchInv'
<1> SUFFICES ASSUME BenchInv, [Next]_vars PROVE BenchInv'
  OBVIOUS
<1>1. CASE TakeArguments
  BY <1>1, BenchTaken
<1>2. CASE MapEvent \/ VectorEvent
  BY <1>2, MapEventStep, VectorEventStep
<1>3. CASE MapResult \/ VectorResult
  BY <1>3, MapResultStep, VectorResultStep
<1>4. CASE \/ SkipLine \/ ReadRow \/ UNCHANGED vars
  <2>1. words' = words /\ bench' = bench /\ settings' = settings /\ phase' = phase
    BY <1>4 DEF SkipLine, ReadRow, vars
  <2> QED
    BY <2>1, BenchKept
<1>5. CASE \/ HandOverWords \/ RefuseArguments \/ FileMissing \/ RefuseLine \/ EndOfFile \/ RefuseFile
  <2>1. words' = words /\ Command' = Command
    BY <1>5, Zenon DEF HandOverWords, RefuseArguments, FileMissing, RefuseLine, EndOfFile, RefuseFile, Command
  <2>2. \/ phase' \in {"handed over", "failed"}
        \/ phase = "loading" /\ phase' \in {"handed over", "replaying"}
    BY <1>5 DEF HandOverWords, RefuseArguments, FileMissing, RefuseLine, EndOfFile, RefuseFile, Fail
  <2> QED
    BY <2>1, <2>2, Zenon DEF BenchInv
<1>6. CASE PrintHelp
  <2>1. words' = words /\ Command' = Command /\ phase' # "benching" /\ Command # "bench"
    BY <1>6 DEF PrintHelp, Parsed, Command
  <2> QED
    BY <2>1, Zenon DEF BenchInv
<1>7. CASE ReplayFile \/ PrintReport
  <2>1. phase \in {"replaying", "reporting"} /\ words' = words /\ Command' = Command
    BY <1>7, Zenon DEF ReplayFile, PrintReport, Command
  <2>2. phase' \in {"reporting", "done", "failed"}
    BY <1>7 DEF ReplayFile, PrintReport, Fail
  <2> QED
    BY <2>1, <2>2, Zenon DEF BenchInv
<1>8. CASE Exited
  BY <1>4, <1>8 DEF Exited
<1> QED
  BY <1>1, <1>2, <1>3, <1>4, <1>5, <1>6, <1>7, <1>8 DEF Next

THEOREM BenchInvariant == Spec => []BenchInv
<1> QED
  BY BenchStarts, BenchInvStep, PTL DEF Spec

(***************************************************************************)
(* The map and the vector of the benchmark end with the same checksum and  *)
(* the same sentiment for every symbol, whatever the numbers of events and *)
(* symbols, though their loops are written apart (bench.rs:16-69).         *)
(***************************************************************************)
THEOREM BenchAgreement == Spec => []BenchesAgree
<1>1. BenchInv => BenchesAgree
  <2> SUFFICES ASSUME BenchInv, Command = "bench", phase = "done"
               PROVE  /\ Len(bench.results) = 2
                      /\ bench.results[1].checksum = bench.results[2].checksum
                      /\ \A slot \in 0..(SymbolCount(settings) - 1) :
                           bench.results[1].state[SymbolName(slot)] =
                             bench.results[2].state[slot + 1]
    BY Zenon DEF BenchesAgree
  <2>1. Measured
    BY Zenon DEF BenchInv
  <2>2. PICK first, second : /\ bench.results = <<first, second>>
                             /\ IsResult(first, "string map")
                             /\ IsResult(second, "symbol slot vec")
    BY <2>1, Zenon DEF Measured
  <2>3. Len(bench.results) = 2 /\ bench.results[1] = first /\ bench.results[2] = second
    <3>1. \A r, x, y : r = <<x, y>> => Len(r) = 2 /\ r[1] = x /\ r[2] = y
      OBVIOUS
    <3> QED
      BY <2>2, <3>1, Zenon
  <2>4. Slots \in Nat \ {0}
    BY <2>1, SlotsPositive DEF Measured
  <2>5. /\ first.checksum = second.checksum
        /\ \A s \in SlotsUpTo(Slots) : first.state[LoopKey("string map", s)] =
                                       second.state[LoopKey("symbol slot vec", s)]
    <3>1. /\ IsLoop(first, "string map", Slots) /\ IsLoop(second, "symbol slot vec", Slots)
          /\ first.index = second.index
      BY <2>2, Zenon DEF IsResult
    <3>2. PICK n \in Nat \ {0} : n = Slots
      BY <2>4
    <3>3. IsLoop(first, "string map", n) /\ IsLoop(second, "symbol slot vec", n)
      BY <3>1, <3>2, Zenon
    <3>4. /\ first.checksum = second.checksum
          /\ \A s \in SlotsUpTo(n) : first.state[LoopKey("string map", s)] =
                                     second.state[LoopKey("symbol slot vec", s)]
      <4>1. first.checksum = second.checksum
        BY <3>1, <3>3, ChecksumsAgree
      <4>2. ASSUME NEW s \in SlotsUpTo(n)
            PROVE  first.state[LoopKey("string map", s)] = second.state[LoopKey("symbol slot vec", s)]
        <5>1. n \in Nat \ {0}
          BY <3>2
        <5>2. first.index = second.index
          BY <3>1
        <5>3. \A p, q : \A t \in SlotsUpTo(n) : IsLoop(first, p, n) /\ IsLoop(second, q, n) =>
                first.state[LoopKey(p, t)] = second.state[LoopKey(q, t)]
          BY <5>1, <5>2, LoopsAgree
        <5> QED
          BY <3>3, <4>2, <5>3
      <4> QED
        BY <4>1, <4>2, Zenon
    <3> QED
      BY <3>2, <3>4, Zenon
  <2>6. \A s : LoopKey("string map", s) = SymbolName(s) /\ LoopKey("symbol slot vec", s) = s + 1
    BY Zenon DEF LoopKey
  <2>7. SlotsUpTo(Slots) = 0..(SymbolCount(settings) - 1)
    BY Zenon DEF SlotsUpTo, Slots
  <2> QED
    BY <2>3, <2>5, <2>6, <2>7, Zenon
<1> QED
  BY <1>1, BenchInvariant, PTL

-----------------------------------------------------------------------------
(***************************************************************************)
(* The events of the rows, and the logs of the two replays of them.        *)
(***************************************************************************)
LEMMA EventOfRow ==
  ASSUME TextIsCovered, NEW row \in RowsOfText
  PROVE  /\ EventOf(row) \in Event
         /\ row.event_id \in DOMAIN IdOf
         /\ EventOf(row).id = IdOf[row.event_id]
         /\ EventOf(row).received_time = row.received_time
         /\ EventOf(row).seq = row.seq
<1>1. PICK k \in DOMAIN text : /\ ~Skipped(text[k]) /\ IsRecord(text[k])
                               /\ row = FromPipeRecord(text[k])
  BY DEF RowsOfText
<1>2. row.event_id \in DOMAIN IdOf /\ row.symbol \in Symbols
  <2>1. text[k][1] \in DOMAIN IdOf /\ text[k][6] \in Symbols
    BY <1>1, Zenon DEF TextIsCovered
  <2>2. row.event_id = text[k][1] /\ row.symbol = text[k][6]
    BY <1>1 DEF FromPipeRecord
  <2> QED
    BY <2>1, <2>2
<1>3. row.observed_time \in Nat /\ row.received_time \in Nat /\ row.seq \in Nat
  <2>1. \A n \in 2..4 : ReadNumber[text[k][n]] \in Nat \cap DOMAIN ShowNumber
    BY <1>1, RecordFields
  <2>2. /\ row.observed_time = ReadNumber[text[k][2]] /\ row.received_time = ReadNumber[text[k][3]]
        /\ row.seq = ReadNumber[text[k][4]]
    BY <1>1 DEF FromPipeRecord
  <2> QED
    BY <2>1, <2>2
<1>4. row.role \in Roles
  <2>1. row.role = RoleNamed[text[k][5]] /\ text[k][5] \in DOMAIN RoleNamed
    BY <1>1, RecordFields DEF FromPipeRecord
  <2> QED
    BY <2>1, NamesOfRoles
<1>5. ReadField(row, "sentiment", SentimentNamed) \in Sentiments \cup {Absent, Malformed}
  <2>1. \A t \in DOMAIN SentimentNamed : SentimentNamed[t] \in Sentiments
    BY DEF SentimentNamed, Sentiments
  <2> QED
    BY <2>1, Zenon DEF ReadField
<1>6. ReadField(row, "score", ReadScore) \in Scores \cup {Absent, Malformed}
  <2>1. \A t \in DOMAIN ReadScore : ReadScore[t] \in Scores
    BY EventTextAssumption, Zenon
  <2> QED
    BY <2>1, Zenon DEF ReadField
<1>7. IdOf[row.event_id] \in EventIds
  <2>1. \A t \in DOMAIN IdOf : IdOf[t] \in EventIds
    BY EventTextAssumption, Zenon
  <2> QED
    BY <1>2, <2>1
<1>8. EventOf(row) \in Event
  BY <1>2, <1>3, <1>4, <1>5, <1>6, <1>7 DEF EventOf, Event
<1> QED
  BY <1>2, <1>8 DEF EventOf

LEMMA FeedOfRows ==
  ASSUME ReadInv
  PROVE  /\ Feed \in Seq(Event)
         /\ DOMAIN Feed = DOMAIN rows
         /\ \A n \in DOMAIN rows :
              /\ Feed[n] = EventOf(rows[n])
              /\ rows[n].event_id \in DOMAIN IdOf
              /\ Feed[n].id = IdOf[rows[n].event_id]
              /\ Feed[n].received_time = rows[n].received_time
              /\ Feed[n].seq = rows[n].seq
<1>1. rows \in Seq(RowsOfText) /\ TextIsCovered
  BY Zenon DEF ReadInv
<1>2. \A n \in DOMAIN rows : rows[n] \in RowsOfText
  BY <1>1
<1>3. DOMAIN Feed = DOMAIN rows /\ \A n \in DOMAIN rows : Feed[n] = EventOf(rows[n])
  BY Zenon DEF Feed
<1>4. \A n \in DOMAIN rows : EventOf(rows[n]) \in Event
  BY <1>1, <1>2, EventOfRow
<1>5. Feed \in Seq(Event)
  <2>1. Len(rows) \in Nat /\ DOMAIN rows = 1..Len(rows)
    BY <1>1
  <2>2. Feed = [n \in 1..Len(rows) |-> EventOf(rows[n])]
    BY <2>1, Zenon DEF Feed
  <2> QED
    BY <1>4, <2>1, <2>2
<1> QED
  BY <1>1, <1>2, <1>3, <1>5, EventOfRow, Zenon

\* The replay of the command line computes with its own copies of the
\* operators: they are the same.
LEMMA SameReplay ==
  ASSUME NEW feed, NEW by, NEW config
  PROVE  /\ ReplayOf(feed, by, config)!Rows = RowsOf(feed)
         /\ \A e : /\ ReplayOf(feed, by, config)!EventKey(e) = EventKey(e)
                   /\ ReplayOf(feed, by, config)!UpdatesSignalState(e) <=> UpdatesSignalState(e)
                   /\ ReplayOf(feed, by, config)!IsPrediction(e) <=> IsPrediction(e)
                   /\ ReplayOf(feed, by, config)!PayloadOk(e) <=> PayloadOk(e)
         /\ \A e, f : /\ ReplayOf(feed, by, config)!ReceivedBefore(e, f) <=> ReceivedBefore(e, f)
                      /\ ReplayOf(feed, by, config)!Before(e, f) <=> EarlierBy(by, e, f)
         /\ \A S : ReplayOf(feed, by, config)!Cardinality(S) = Cardinality(S)
<1>1. \A e : /\ ReplayOf(feed, by, config)!EventKey(e) = EventKey(e)
             /\ ReplayOf(feed, by, config)!UpdatesSignalState(e) <=> UpdatesSignalState(e)
             /\ ReplayOf(feed, by, config)!IsPrediction(e) <=> IsPrediction(e)
             /\ ReplayOf(feed, by, config)!PayloadOk(e) <=> PayloadOk(e)
  BY Zenon DEF ReplayOf!EventKey, EventKey, ReplayOf!UpdatesSignalState, UpdatesSignalState,
     ReplayOf!FeatureRoles, FeatureRoles, ReplayOf!IsPrediction, IsPrediction,
     ReplayOf!PayloadOk, PayloadOk
<1>2. \A e, f : ReplayOf(feed, by, config)!ReceivedBefore(e, f) <=> ReceivedBefore(e, f)
  BY Zenon DEF ReplayOf!ReceivedBefore, ReceivedBefore, ReplayOf!Precedes, Precedes,
     ReplayOf!ReplayKey, ReplayKey
<1>3. \A e, f : ReplayOf(feed, by, config)!Before(e, f) <=> EarlierBy(by, e, f)
  BY ZenonT(30) DEF ReplayOf!Before, ReplayOf!Precedes, ReplayOf!Key, Precedes, EarlierBy, KeyBy,
     ReplayOf!ReplayKey, ReplayKey, ReplayOf!ObservedKey, ObservedKey
<1>4. \A S : ReplayOf(feed, by, config)!Cardinality(S) = Cardinality(S)
  BY Zenon DEF ReplayOf!Cardinality, Cardinality
<1>5. ReplayOf(feed, by, config)!Rows = RowsOf(feed)
  BY Zenon DEF ReplayOf!Rows, RowsOf
<1> QED
  BY <1>1, <1>2, <1>3, <1>4, <1>5

LEMMA AcceptedIsClean ==
  ASSUME NEW feed, NEW config, ~ReplayOf(feed, "ReceivedTime", config)!Defective
  PROVE  Clean(feed)
<1>1. ReplayOf(feed, "ReceivedTime", config)!Rows = RowsOf(feed)
  BY SameReplay
<1>2. ReplayOf(feed, "ReceivedTime", config)!Defective <=>
        \/ \E i, j \in DOMAIN feed : /\ i # j
             /\ \/ EventKey(feed[i]) = EventKey(feed[j])
                \/ feed[i].received_time = feed[j].received_time /\ feed[i].seq = feed[j].seq
        \/ \E e, f \in RowsOf(feed) : e.symbol # f.symbol /\ SymbolIdOf[e.symbol] = SymbolIdOf[f.symbol]
        \/ \E e \in RowsOf(feed) : UpdatesSignalState(e) /\ ~PayloadOk(e)
  <2>1. \A e : /\ ReplayOf(feed, "ReceivedTime", config)!EventKey(e) = EventKey(e)
               /\ ReplayOf(feed, "ReceivedTime", config)!UpdatesSignalState(e) <=> UpdatesSignalState(e)
               /\ ReplayOf(feed, "ReceivedTime", config)!PayloadOk(e) <=> PayloadOk(e)
    BY SameReplay
  <2> QED
    BY <1>1, <2>1, Zenon DEF ReplayOf!Defective, ReplayOf!Ambiguous, ReplayOf!Conflict
<1> QED
  BY <1>2, Zenon DEF Clean, RowsOf

\* The record answers p and cites the sequence c of rows.
Cites(record, p, c) ==
  /\ \E N \in Nat : DOMAIN c = 1..N
  /\ record.key = EventKey(p)
  /\ record.time = p.received_time
  /\ record.seq = p.seq
  /\ record.inputs = [i \in DOMAIN c |-> EventKey(c[i])]
  /\ DOMAIN c = {} => record.max_key = Absent
  /\ DOMAIN c # {} => \E m \in DOMAIN c :
       /\ record.max_time = c[m].received_time
       /\ record.max_seq = c[m].seq
       /\ record.max_key = EventKey(c[m])
       /\ \A i \in DOMAIN c : c[i] = c[m] \/ ReceivedBefore(c[i], c[m])

Answered(feed, log) ==
  /\ \E N \in Nat : DOMAIN log = 1..N
  /\ \A n \in DOMAIN log : \E p \in RowsOf(feed) : \E c :
       (\A i \in DOMAIN c : c[i] \in RowsOf(feed)) /\ Cites(log[n], p, c)

\* Of some rows one was received last.
LEMMA OneIsLast ==
  ASSUME NEW S, Apart(S), NEW N \in Nat \ {0}, NEW c, DOMAIN c = 1..N, \A i \in 1..N : c[i] \in S
  PROVE  \E m \in 1..N : \A i \in 1..N : c[i] = c[m] \/ ReceivedBefore(c[i], c[m])
<1> DEFINE T == { c[i] : i \in 1..N }
           o == "ReceivedTime"
           L == Cardinality(T)
<1>1. Apart(T) /\ L \in Nat
  BY ApartSubset
<1>2. \A i \in 1..N : c[i] \in T
  OBVIOUS
<1>3. 1 \in 1..N
  OBVIOUS
<1>4. \A e \in T : e \in Event
  BY <1>1, Zenon DEF Apart
<1>5. \A e \in T : \E m \in 1..N : c[m] = e
  OBVIOUS
<1> HIDE DEF T
<1>6. \A e \in T : Cardinality(EarlierRows(o, T, e)) \in 0..(L - 1)
  BY <1>1, EarlierRowsGrow
<1>7. L # 0
  BY <1>1, <1>2, <1>3, <1>6
<1> DEFINE last == RowsInOrder(o, T)[L]
<1>8. last \in T /\ Cardinality(EarlierRows(o, T, last)) = L - 1
  <2>1. L \in 1..L
    BY <1>1, <1>7
  <2> HIDE DEF L
  <2> QED
    BY <1>1, <2>1, PlacesAreTaken DEF L
<1> HIDE DEF last
<1>9. ASSUME NEW e \in T, e # last
      PROVE  ReceivedBefore(e, last)
  <2>1. EarlierBy(o, e, last) \/ EarlierBy(o, last, e)
    BY <1>1, <1>4, <1>8, <1>9, EarlierIsOrder, Zenon DEF Apart
  <2>2. ASSUME EarlierBy(o, last, e) PROVE FALSE
    <3>1. Cardinality(EarlierRows(o, T, last)) < Cardinality(EarlierRows(o, T, e))
      BY <1>1, <1>8, <2>2, EarlierRowsGrow
    <3>2. Cardinality(EarlierRows(o, T, e)) \in 0..(L - 1)
      BY <1>6
    <3> QED
      BY <1>1, <1>8, <3>1, <3>2
  <2> QED
    BY <1>4, <1>8, <2>1, <2>2, ReceivedInOrder
<1> QED
  BY <1>2, <1>5, <1>8, <1>9, ZenonT(30)

LEMMA SameAscending ==
  ASSUME NEW feed, NEW by, NEW config, NEW S
  PROVE  ReplayOf(feed, by, config)!Ascending(S) = RowsInOrder(by, S)
<1>1. \A e, f : ReplayOf(feed, by, config)!Before(e, f) <=> EarlierBy(by, e, f)
  BY SameReplay
<1>2. \A T : ReplayOf(feed, by, config)!Cardinality(T) = Cardinality(T)
  BY SameReplay
<1> DEFINE A(k) == CHOOSE e \in S : ReplayOf(feed, by, config)!Cardinality(
                     { f \in S : ReplayOf(feed, by, config)!Before(f, e) }) = k - 1
           B(k) == CHOOSE e \in S : Cardinality(EarlierRows(by, S, e)) = k - 1
<1>3. \A e : { f \in S : ReplayOf(feed, by, config)!Before(f, e) } = EarlierRows(by, S, e)
  BY <1>1, Zenon DEF EarlierRows
<1>4. \A k : A(k) = B(k)
  <2>1. \A e : ReplayOf(feed, by, config)!Cardinality({ f \in S : ReplayOf(feed, by, config)!Before(f, e) })
                 = Cardinality(EarlierRows(by, S, e))
    BY <1>2, <1>3, Zenon
  <2> QED
    BY <2>1, Zenon
<1>5. ReplayOf(feed, by, config)!Ascending(S)
        = [k \in 1..ReplayOf(feed, by, config)!Cardinality(S) |-> A(k)]
  BY Zenon DEF ReplayOf!Ascending
<1>6. RowsInOrder(by, S) = [k \in 1..Cardinality(S) |-> B(k)]
  BY Zenon DEF RowsInOrder
<1> HIDE DEF A, B
<1> QED
  BY <1>2, <1>4, <1>5, <1>6, SMT

\* A record of a replay answers its prediction with rows of the feed.
LEMMA PromisedAnswers ==
  ASSUME NEW feed \in Seq(Event), Clean(feed), NEW by, NEW config, NEW p
  PROVE  \E c : /\ \A i \in DOMAIN c : c[i] \in RowsOf(feed)
                /\ Cites(ReplayOf(feed, by, config)!Promised(p), p, c)
<1> DEFINE V == ReplayOf(feed, by, config)!Visible(p)
           W == ReplayOf(feed, by, config)!Clamp(ReplayOf(feed, by, config)!SignalWindow, 1, MaxInputs)
           R == { e \in ReplayOf(feed, by, config)!Newest(V, MaxInputs) :
                    ReplayOf(feed, by, config)!Relevant(e) }
           L == ReplayOf(feed, by, config)!Newest(R, W)
           c == ReplayOf(feed, by, config)!Cited(p)
           r == ReplayOf(feed, by, config)!Promised(p)
           last == ReplayOf(feed, by, config)!LastReceived(c)
<1>1. \A S, n : \A e \in ReplayOf(feed, by, config)!Newest(S, n) : e \in S
  BY Zenon DEF ReplayOf!Newest
<1>2. \A e \in V : e \in RowsOf(feed)
  BY SameReplay, Zenon DEF ReplayOf!Visible
<1>3. c = ReplayOf(feed, by, config)!Ascending(L)
  BY Zenon DEF ReplayOf!Cited
<1>4. \A e \in L : e \in RowsOf(feed)
  <2>1. \A e \in R : e \in ReplayOf(feed, by, config)!Newest(V, MaxInputs)
    OBVIOUS
  <2>2. \A e \in L : e \in R
    BY <1>1, Zenon
  <2> HIDE DEF V, R, L
  <2> QED
    BY <1>1, <1>2, <2>1, <2>2, Zenon
<1> HIDE DEF L, c
<1>5. Apart(RowsOf(feed)) /\ Apart(L)
  BY <1>4, CleanRows, ApartSubset
<1>6. c = RowsInOrder(by, L)
  BY <1>3, SameAscending
<1>7. PICK N \in Nat : DOMAIN c = 1..N /\ \A i \in 1..N : c[i] \in RowsOf(feed)
  BY <1>4, <1>5, <1>6, PlacesAreTaken, Zenon
<1>8. r.key = EventKey(p) /\ r.time = p.received_time /\ r.seq = p.seq
  BY SameReplay DEF ReplayOf!Promised, ReplayOf!RecordCiting
<1>9. r.inputs = [i \in DOMAIN c |-> EventKey(c[i])]
  <2>1. r.inputs = [i \in DOMAIN c |-> ReplayOf(feed, by, config)!EventKey(c[i])]
    BY DEF ReplayOf!Promised, ReplayOf!RecordCiting, c
  <2>2. \A e : ReplayOf(feed, by, config)!EventKey(e) = EventKey(e)
    BY SameReplay
  <2> QED
    BY <2>1, <2>2, SMT
<1>10. /\ r.max_time = IF c = <<>> THEN 0 ELSE last.received_time
       /\ r.max_seq = IF c = <<>> THEN 0 ELSE last.seq
       /\ r.max_key = IF c = <<>> THEN Absent ELSE ReplayOf(feed, by, config)!EventKey(last)
  BY DEF ReplayOf!Promised, ReplayOf!RecordCiting, c
<1>11. c = <<>> <=> DOMAIN c = {}
  <2> DEFINE B(k) == CHOOSE e \in L : Cardinality(EarlierRows(by, L, e)) = k - 1
  <2>1. c = [k \in 1..Cardinality(L) |-> B(k)]
    BY <1>6, Zenon DEF RowsInOrder
  <2> HIDE DEF B
  <2> QED
    BY <2>1
<1>12. ASSUME DOMAIN c # {}
       PROVE  \E m \in DOMAIN c : last = c[m] /\ \A i \in DOMAIN c : c[i] = c[m] \/ ReceivedBefore(c[i], c[m])
  <2>1. N \in Nat \ {0}
    BY <1>7, <1>12
  <2>2. \E m \in 1..N : \A i \in 1..N : c[i] = c[m] \/ ReceivedBefore(c[i], c[m])
    BY <1>5, <1>7, <2>1, OneIsLast
  <2> DEFINE P(e) == \A i \in DOMAIN c : c[i] = e \/ ReceivedBefore(c[i], e)
  <2>3. last = CHOOSE e \in { c[i] : i \in DOMAIN c } : P(e)
    <3>1. \A e, f : ReplayOf(feed, by, config)!ReceivedBefore(e, f) <=> ReceivedBefore(e, f)
      BY SameReplay
    <3> QED
      BY <3>1, Zenon DEF ReplayOf!LastReceived, ReplayOf!ReceivedBefore, ReceivedBefore,
         ReplayOf!Precedes, Precedes, ReplayOf!ReplayKey, ReplayKey
  <2>4. \E e \in { c[i] : i \in DOMAIN c } : P(e)
    BY <1>7, <2>2, Zenon
  <2> HIDE DEF P
  <2>5. last \in { c[i] : i \in DOMAIN c } /\ P(last)
    BY <2>3, <2>4, Zenon
  <2> HIDE DEF last
  <2> QED
    BY <2>5, Zenon DEF P
<1> HIDE DEF r, last
<1>13. DOMAIN c # {} => \E m \in DOMAIN c :
         /\ r.max_time = c[m].received_time
         /\ r.max_seq = c[m].seq
         /\ r.max_key = EventKey(c[m])
         /\ \A i \in DOMAIN c : c[i] = c[m] \/ ReceivedBefore(c[i], c[m])
  <2>1. \A e : ReplayOf(feed, by, config)!EventKey(e) = EventKey(e)
    BY SameReplay
  <2> QED
    BY <1>10, <1>11, <1>12, <2>1, Zenon
<1>14. Cites(r, p, c)
  BY <1>7, <1>8, <1>9, <1>10, <1>11, <1>13, Zenon DEF Cites
<1> QED
  BY <1>7, <1>14, Zenon DEF r

LEMMA LogIsAnswered ==
  ASSUME NEW feed \in Seq(Event), Clean(feed), NEW by, NEW config, NEW predictions, NEW log,
         predictions = ReplayOf(feed, by, config)!Predictions,
         log = [n \in DOMAIN predictions |-> ReplayOf(feed, by, config)!Promised(predictions[n])]
  PROVE  Answered(feed, log)
<1> DEFINE S == { e \in RowsOf(feed) : IsPrediction(e) }
<1>1. Apart(S)
  BY CleanRows, ApartSubset
<1>2. /\ \E N \in Nat : DOMAIN predictions = 1..N
      /\ \A n \in DOMAIN predictions : predictions[n] \in S
  <2>1. { e \in ReplayOf(feed, by, config)!Rows : ReplayOf(feed, by, config)!IsPrediction(e) } = S
    BY SameReplay
  <2>2. predictions = ReplayOf(feed, by, config)!Ascending(S)
    BY <2>1, Zenon DEF ReplayOf!Predictions
  <2> HIDE DEF S
  <2>3. predictions = RowsInOrder(by, S)
    BY <2>2, SameAscending
  <2> QED
    BY <1>1, <2>3, PlacesAreTaken, Zenon
<1>3. \A n \in DOMAIN predictions : predictions[n] \in RowsOf(feed)
  BY <1>2
<1>4. DOMAIN log = DOMAIN predictions
  OBVIOUS
<1>5. \A n \in DOMAIN log : log[n] = ReplayOf(feed, by, config)!Promised(predictions[n])
  BY Zenon
<1> HIDE DEF S
<1>6. \A n \in DOMAIN log : \E p \in RowsOf(feed) : \E c :
        (\A i \in DOMAIN c : c[i] \in RowsOf(feed)) /\ Cites(log[n], p, c)
  BY <1>3, <1>4, <1>5, PromisedAnswers, Zenon
<1> QED
  BY <1>2, <1>4, <1>6, Zenon DEF Answered

(***************************************************************************)
(* The negative control: both logs answer the events of the file, which    *)
(* has no defect, and a report that was printed without failing finds no   *)
(* leak in the first.                                                      *)
(***************************************************************************)
ControlInv ==
  /\ phase \in {"loading", "replaying", "reporting"} => Command \in Parsed
  /\ phase = "reporting" \/ Reported =>
       Clean(Feed) /\ Answered(Feed, received) /\ Answered(Feed, observed)
  /\ Reported => Report.correct.impossible = 0

LEMMA ControlStarts == Init => ControlInv
<1> SUFFICES ASSUME Init PROVE ControlInv
  OBVIOUS
<1>1. phase = "start"
  BY DEF Init
<1> QED
  BY <1>1 DEF ControlInv, Reported

LEMMA ControlKept ==
  ASSUME ControlInv, words' = words, phase' = phase, rows' = rows, received' = received,
         observed' = observed
  PROVE  ControlInv'
BY Zenon DEF ControlInv, Reported, IsNegativeControl, Command, Feed, Report

\* Steps after which nothing is reported, or nothing was to be.
LEMMA ControlElsewhere ==
  ASSUME ControlInv, words' = words, phase' \notin {"reporting", "done"} \/ ~IsNegativeControl,
         phase' \in {"loading", "replaying", "reporting"} => Command \in Parsed,
         phase' # "reporting"
  PROVE  ControlInv'
<1>1. Command' = Command /\ IsNegativeControl' = IsNegativeControl
  BY Zenon DEF Command, IsNegativeControl
<1>2. ~Reported'
  BY <1>1, Zenon DEF Reported
<1> QED
  BY <1>1, <1>2, Zenon DEF ControlInv, Parsed

LEMMA ReplayFileStep ==
  ASSUME ReadInv, ControlInv, ReplayFile
  PROVE  ControlInv'
<1>1. PICK name \in DOMAIN Registered :
        /\ ~IsRefused(Registered[name])
        /\ received' = LogBy("ReceivedTime", Registered[name])
        /\ observed' = IF IsNegativeControl
                       THEN LogBy("ObservedTimeLeaky", Registered[name]) ELSE observed
  BY Zenon DEF ReplayFile
<1>2. /\ words' = words /\ rows' = rows /\ phase = "replaying"
      /\ phase' = IF IsNegativeControl THEN "reporting" ELSE "done"
  BY Zenon DEF ReplayFile
<1>3. Command' = Command /\ IsNegativeControl' = IsNegativeControl /\ Feed' = Feed
  BY <1>2, Zenon DEF Command, IsNegativeControl, Feed
<1>4. CASE ~IsNegativeControl
  <2>1. phase' = "done"
    BY <1>2, <1>4
  <2> QED
    BY <1>2, <1>4, <2>1, ControlElsewhere
<1>5. CASE IsNegativeControl
  <2>1. PICK config : config = Registered[name]
    OBVIOUS
  <2>2. PICK feed : feed = Feed
    OBVIOUS
  <2>3. feed \in Seq(Event)
    BY <2>2, FeedOfRows
  <2>4. ~ReplayOf(feed, "ReceivedTime", config)!Defective
    BY <1>1, <2>1, <2>2, Zenon DEF IsRefused
  <2>5. Clean(feed)
    BY <2>4, AcceptedIsClean
  <2>6. \A by : Answered(feed, LogBy(by, config))
    <3> TAKE by
    <3>1. PICK predictions : predictions = ReplayOf(feed, by, config)!Predictions
      OBVIOUS
    <3>2. LogBy(by, config)
            = [n \in DOMAIN predictions |-> ReplayOf(feed, by, config)!Promised(predictions[n])]
      BY <2>2, <3>1, Zenon DEF LogBy
    <3>3. PICK log : log = LogBy(by, config)
      OBVIOUS
    <3>4. log = [n \in DOMAIN predictions |-> ReplayOf(feed, by, config)!Promised(predictions[n])]
      BY <3>2, <3>3
    <3>5. Answered(feed, log)
      BY <2>3, <2>5, <3>1, <3>4, LogIsAnswered
    <3> QED
      BY <3>3, <3>5
  <2>7. Answered(feed, received') /\ Answered(feed, observed')
    BY <1>1, <1>5, <2>1, <2>6, Zenon
  <2>8. phase' = "reporting"
    BY <1>2, <1>5
  <2>9. Command \in Parsed /\ Parsed' = Parsed
    BY <1>2, Zenon DEF ControlInv, Parsed
  <2> QED
    BY <1>3, <2>2, <2>5, <2>7, <2>8, <2>9, Zenon DEF ControlInv, Reported
<1> QED
  BY <1>4, <1>5

LEMMA PrintReportStep ==
  ASSUME ControlInv, PrintReport
  PROVE  ControlInv'
<1>1. /\ phase = "reporting" /\ words' = words /\ rows' = rows
      /\ received' = received /\ observed' = observed
  BY Zenon DEF PrintReport
<1>2. Feed' = Feed /\ Report' = Report /\ Command' = Command
  BY <1>1, Zenon DEF Feed, Report, Command
<1>3. \/ Report.correct.impossible = 0 /\ phase' = "done"
      \/ phase' = "failed"
  BY Zenon DEF PrintReport, Fail
<1>4. Parsed' = Parsed
  BY Zenon DEF Parsed
<1> QED
  BY <1>1, <1>2, <1>3, <1>4 DEF ControlInv, Reported

LEMMA ControlStep == ReadInv /\ BenchInv /\ ControlInv /\ [Next]_vars => ControlInv'
<1> SUFFICES ASSUME ReadInv, BenchInv, ControlInv, [Next]_vars PROVE ControlInv'
  OBVIOUS
<1>1. CASE SkipLine \/ MapEvent \/ MapResult \/ VectorEvent \/ UNCHANGED vars
  <2>1. /\ words' = words /\ phase' = phase /\ rows' = rows /\ received' = received
        /\ observed' = observed
    BY <1>1, Zenon DEF SkipLine, MapEvent, MapResult, VectorEvent, vars
  <2> QED
    BY <2>1, ControlKept
<1>2. CASE ReplayFile
  BY <1>2, ReplayFileStep
<1>3. CASE PrintReport
  BY <1>3, PrintReportStep
<1>4. CASE PrintHelp
  <2>1. words' = words /\ phase' = "done" /\ Command \notin Parsed
    BY <1>4 DEF PrintHelp
  <2>2. ~IsNegativeControl
    BY <2>1 DEF IsNegativeControl, Parsed, Args!FileCommands
  <2> QED
    BY <2>1, <2>2, ControlElsewhere
<1>5. CASE TakeArguments
  <2>1. words' = words /\ phase' = NextPhase /\ Command \in Parsed
    BY <1>5 DEF TakeArguments
  <2>2. NextPhase \in {"loading", "handed over", "benching"}
    BY <2>1 DEF NextPhase, Parsed
  <2>3. phase' \notin {"reporting", "done"}
    BY <2>1, <2>2
  <2> QED
    BY <2>1, <2>3, ControlElsewhere
<1>6. CASE \/ HandOverWords \/ RefuseArguments \/ FileMissing \/ RefuseLine \/ RefuseFile
  <2>1. words' = words /\ phase' \in {"handed over", "failed"}
    BY <1>6 DEF HandOverWords, RefuseArguments, FileMissing, RefuseLine, RefuseFile, Fail
  <2>2. phase' \notin {"loading", "replaying", "reporting", "done"}
    BY <2>1
  <2> QED
    BY <2>1, <2>2, ControlElsewhere
<1>7. CASE ReadRow \/ EndOfFile
  <2>1. words' = words /\ phase = "loading" /\ phase' \in {"loading", "handed over", "replaying"}
    BY <1>7 DEF ReadRow, EndOfFile, AtLine
  <2>2. Command \in Parsed
    BY <2>1 DEF ControlInv
  <2>3. phase' \notin {"reporting", "done"}
    BY <2>1
  <2> QED
    BY <2>1, <2>2, <2>3, ControlElsewhere
<1>8. CASE VectorResult
  <2>1. words' = words /\ phase = "benching" /\ phase' \in {"benching", "done"}
    BY <1>8 DEF VectorResult
  <2>2. Command = "bench"
    BY <2>1, Zenon DEF BenchInv, Measuring
  <2>3. ~IsNegativeControl
    BY <2>2 DEF IsNegativeControl
  <2>4. phase' \notin {"loading", "replaying", "reporting"}
    BY <2>1
  <2> QED
    BY <2>1, <2>3, <2>4, ControlElsewhere
<1>9. CASE Exited
  BY <1>1, <1>9 DEF Exited
<1> QED
  BY <1>1, <1>2, <1>3, <1>4, <1>5, <1>6, <1>7, <1>8, <1>9 DEF Next

THEOREM ControlInvariant == Spec => []ControlInv
<1>1. Spec => []ReadInv /\ []BenchInv
  BY ReadInvariant, BenchInvariant, PTL
<1> QED
  BY <1>1, ControlStarts, ControlStep, PTL DEF Spec

(***************************************************************************)
(* What the report says of a record: the rows its keys name, and the       *)
(* largest input, which a row received after the prediction exceeds if any *)
(* input does.                                                             *)
(***************************************************************************)
LEMMA KeyNamesRow ==
  ASSUME ReadInv, Clean(Feed), NEW i \in DOMAIN rows
  PROVE  RowOf(rows, EventKey(Feed[i])) = rows[i] /\ RowNamed(rows[i].event_id) = rows[i]
<1>1. /\ Feed \in Seq(Event) /\ DOMAIN Feed = DOMAIN rows
      /\ \A n \in DOMAIN rows : Feed[n] = EventOf(rows[n]) /\ Feed[n].id = IdOf[rows[n].event_id]
  BY FeedOfRows
<1>2. \A m, n \in DOMAIN rows : EventKey(Feed[m]) = EventKey(Feed[n]) => m = n
  BY <1>1, Zenon DEF Clean
<1>3. (CHOOSE n \in DOMAIN rows : EventKey(EventOf(rows[n])) = EventKey(Feed[i])) = i
  <2>1. \A n \in DOMAIN rows : EventKey(EventOf(rows[n])) = EventKey(Feed[i]) <=> n = i
    BY <1>1, <1>2, Zenon
  <2> QED
    BY <2>1, Zenon
<1>4. (CHOOSE n \in DOMAIN rows : rows[n].event_id = rows[i].event_id) = i
  <2>1. \A n \in DOMAIN rows : rows[n].event_id = rows[i].event_id <=> n = i
    BY <1>1, <1>2, Zenon DEF EventKey
  <2> QED
    BY <2>1, Zenon
<1> QED
  BY <1>3, <1>4, Zenon DEF RowOf, RowNamed

\* The prediction and the largest input of a record, as places of the file.
Places(record, i, j) ==
  /\ i \in DOMAIN rows
  /\ record.time = Feed[i].received_time
  /\ record.seq = Feed[i].seq
  /\ RowOf(rows, record.key) = rows[i]
  /\ ViolatesReplayKeyOrder(rows, record) <=> CitesLaterRow(record)
  /\ ViolatesReplayKeyOrder(rows, record) =>
       /\ j \in DOMAIN rows
       /\ RowOf(rows, record.max_key) = rows[j]
       /\ ReceivedBefore(Feed[i], Feed[j])

LEMMA AnsweredPlaces ==
  ASSUME ReadInv, Clean(Feed), NEW log, Answered(Feed, log), NEW n \in DOMAIN log
  PROVE  \E i, j : Places(log[n], i, j)
<1> DEFINE record == log[n]
<1>1. /\ Feed \in Seq(Event) /\ DOMAIN Feed = DOMAIN rows
      /\ \A k \in DOMAIN rows : /\ Feed[k] = EventOf(rows[k])
                                /\ Feed[k].id = IdOf[rows[k].event_id]
  BY FeedOfRows
<1>a. PICK p \in RowsOf(Feed) : \E c : (\A k \in DOMAIN c : c[k] \in RowsOf(Feed)) /\ Cites(record, p, c)
  BY Zenon DEF Answered
<1>2. PICK c : p \in RowsOf(Feed) /\ (\A k \in DOMAIN c : c[k] \in RowsOf(Feed)) /\ Cites(record, p, c)
  BY <1>a, Zenon
<1> HIDE DEF record
<1>3. PICK i \in DOMAIN rows : p = Feed[i]
  BY <1>1, <1>2, Zenon DEF RowsOf
<1>4. /\ record.key = EventKey(p) /\ record.time = p.received_time /\ record.seq = p.seq
      /\ record.inputs = [k \in DOMAIN c |-> EventKey(c[k])]
      /\ DOMAIN c = {} => record.max_key = Absent
  BY <1>2, Zenon DEF Cites
<1>5. DOMAIN record.inputs = DOMAIN c /\ \A k \in DOMAIN c : record.inputs[k] = EventKey(c[k])
  BY <1>4
<1>6. RowOf(rows, record.key) = rows[i] /\ EventOf(rows[i]) = p
  BY <1>1, <1>3, <1>4, KeyNamesRow
<1>7. \A k \in DOMAIN c : EventOf(RowOf(rows, record.inputs[k])) = c[k]
  <2> TAKE k \in DOMAIN c
  <2>1. PICK m \in DOMAIN rows : c[k] = Feed[m]
    BY <1>1, <1>2, Zenon DEF RowsOf
  <2>2. RowOf(rows, EventKey(Feed[m])) = rows[m]
    BY KeyNamesRow
  <2>3. record.inputs[k] = EventKey(Feed[m])
    BY <1>5, <2>1
  <2>4. RowOf(rows, record.inputs[k]) = rows[m]
    BY <2>2, <2>3
  <2> QED
    BY <1>1, <2>1, <2>4
<1>8. CitesLaterRow(record) <=> \E k \in DOMAIN c : ReceivedBefore(p, c[k])
  BY <1>5, <1>6, <1>7, Zenon DEF CitesLaterRow
<1>9. CASE DOMAIN c = {}
  <2>1. ~ViolatesReplayKeyOrder(rows, record)
    BY <1>4, <1>9, Zenon DEF ViolatesReplayKeyOrder
  <2>2. ~CitesLaterRow(record)
    BY <1>8, <1>9
  <2>3. Places(record, i, i)
    BY <1>3, <1>4, <1>6, <2>1, <2>2, Zenon DEF Places
  <2> QED
    BY <2>3, Zenon DEF record
<1>10. CASE DOMAIN c # {}
  <2>1. PICK m \in DOMAIN c :
          /\ record.max_time = c[m].received_time
          /\ record.max_seq = c[m].seq
          /\ record.max_key = EventKey(c[m])
          /\ \A k \in DOMAIN c : c[k] = c[m] \/ ReceivedBefore(c[k], c[m])
    BY <1>2, <1>10, Zenon DEF Cites
  <2>2. PICK j \in DOMAIN rows : c[m] = Feed[j]
    BY <1>1, <1>2, Zenon DEF RowsOf
  <2>3. RowOf(rows, record.max_key) = rows[j]
    BY <2>1, <2>2, KeyNamesRow
  <2>4. record.max_key # Absent
    <3>1. Feed[j] \in Event
      BY <1>1, <2>2
    <3>2. EventKey(Feed[j]) \in Nat
      BY <3>1, EventsAssumption DEF EventKey, Event
    <3> QED
      BY <2>1, <2>2, <3>2, EventsAssumption
  <2>5. ViolatesReplayKeyOrder(rows, record) <=> ReceivedBefore(p, c[m])
    <3>1. IdOf[LabelFor(rows, record.key)] = p.id
      BY <1>1, <1>3, <1>6, Zenon DEF LabelFor
    <3>2. IdOf[LabelFor(rows, record.max_key)] = c[m].id
      BY <1>1, <2>2, <2>3, Zenon DEF LabelFor
    <3> QED
      BY <1>4, <2>1, <2>4, <3>1, <3>2, Zenon DEF ViolatesReplayKeyOrder, ReceivedBefore, ReplayKey
  <2>6. (\E k \in DOMAIN c : ReceivedBefore(p, c[k])) <=> ReceivedBefore(p, c[m])
    <3>1. p \in Event /\ \A k \in DOMAIN c : c[k] \in Event
      <4>1. \A k \in DOMAIN Feed : Feed[k] \in Event
        BY <1>1
      <4> QED
        BY <1>2, <4>1, Zenon DEF RowsOf
    <3>2. \A e, f, g \in Event : ReceivedBefore(e, f) /\ ReceivedBefore(f, g) => ReceivedBefore(e, g)
      BY EarlierIsOrder, ReceivedInOrder, Zenon
    <3> QED
      BY <2>1, <3>1, <3>2, Zenon
  <2>7. Places(record, i, j)
    BY <1>3, <1>4, <1>6, <1>8, <2>2, <2>3, <2>5, <2>6, Zenon DEF Places
  <2> QED
    BY <2>7, Zenon DEF record
<1> QED
  BY <1>9, <1>10

\* A leak of a prediction and a row received after it is explained.
LEMMA LeakIsExplained ==
  ASSUME ReadInv, Clean(Feed), NEW i \in DOMAIN rows, NEW j \in DOMAIN rows,
         ReceivedBefore(Feed[i], Feed[j])
  PROVE  IsExplained(Leak(rows[i], rows[j]))
<1> DEFINE leak == Leak(rows[i], rows[j])
           p == rows[i]
           q == rows[j]
<1>1. /\ Feed \in Seq(Event) /\ DOMAIN Feed = DOMAIN rows
      /\ Feed[i].received_time = p.received_time /\ Feed[j].received_time = q.received_time
      /\ Feed[i].seq = p.seq /\ Feed[j].seq = q.seq
  BY FeedOfRows
<1>2. Feed[i] \in Event /\ Feed[j] \in Event
  BY <1>1
<1>3. p.received_time \in Nat /\ q.received_time \in Nat /\ p.seq \in Nat /\ q.seq \in Nat
  BY <1>1, <1>2 DEF Event
<1>4. i # j
  <2>1. ~ReceivedBefore(Feed[j], Feed[j])
    BY <1>2, EarlierIsOrder, ReceivedInOrder
  <2> QED
    BY <2>1
<1>5. ~(p.received_time = q.received_time /\ p.seq = q.seq)
  BY <1>1, <1>4, Zenon DEF Clean
<1>6. p.received_time < q.received_time \/ (p.received_time = q.received_time /\ p.seq < q.seq)
  <2>1. \/ Feed[i].received_time < Feed[j].received_time
        \/ Feed[i].received_time = Feed[j].received_time /\ Feed[i].seq < Feed[j].seq
        \/ Feed[i].received_time = Feed[j].received_time /\ Feed[i].seq = Feed[j].seq
    <3>1. \A e, f : ReceivedBefore(e, f) =>
            \/ e.received_time < f.received_time
            \/ e.received_time = f.received_time /\ e.seq < f.seq
            \/ e.received_time = f.received_time /\ e.seq = f.seq
      BY DEF ReceivedBefore, ReplayKey, Precedes
    <3> QED
      BY <3>1, Zenon
  <2> QED
    BY <1>1, <1>5, <2>1, Zenon
<1>7. RowNamed(leak.prediction) = p /\ RowNamed(leak.input) = q
  BY KeyNamesRow DEF Leak
<1>8. /\ leak.class = LeakClass(p, q)
      /\ leak.delta = SaturatingSub(q.received_time, p.received_time)
  BY DEF Leak
<1> HIDE DEF leak, p, q
<1>9. CASE p.received_time = q.received_time
  <2>1. leak.class = "same-timestamp received sequence"
    BY <1>8, <1>9 DEF LeakClass, ReceivedTogether
  <2>2. q.received_time = p.received_time /\ q.seq > p.seq
    BY <1>3, <1>6, <1>9
  <2>3. IsExplained(leak)
    BY <1>7, <2>1, <2>2, Zenon DEF IsExplained
  <2> QED
    BY <2>3 DEF leak, p, q
<1>10. CASE p.received_time # q.received_time
  <2>1. leak.class = IF q.role = "feature_correction" THEN "late correction" ELSE "late arrival"
    BY <1>8, <1>10 DEF LeakClass, ReceivedTogether
  <2>2. leak.delta > 0 /\ p.received_time + leak.delta = q.received_time
    BY <1>3, <1>6, <1>8, <1>10 DEF SaturatingSub
  <2>3. leak.class # "same-timestamp received sequence"
    BY <2>1
  <2>4. leak.class = "late correction" <=> q.role = "feature_correction"
    BY <2>1
  <2>5. IsExplained(leak)
    BY <1>7, <2>2, <2>3, <2>4, Zenon DEF IsExplained
  <2> QED
    BY <2>5 DEF leak, p, q
<1> QED
  BY <1>9, <1>10

-----------------------------------------------------------------------------
(***************************************************************************)
(* The report names every record that cites a row received after its       *)
(* prediction and no other, and explains it by a row that was received     *)
(* later, whatever the file and the signal (main.rs:3367-3494).            *)
(***************************************************************************)
THEOREM LeakExplanation == Spec => []LeaksAreExplained
<1>1. ReadInv /\ ControlInv => LeaksAreExplained
  <2> SUFFICES ASSUME ReadInv, ControlInv, Reported
               PROVE  /\ \A n \in DOMAIN Report.leaks : IsExplained(Report.leaks[n])
                      /\ { Report.leaks[n].prediction : n \in DOMAIN Report.leaks } =
                           { LabelFor(rows, observed[n].key) :
                               n \in { k \in DOMAIN observed : CitesLaterRow(observed[k]) } }
    BY Zenon DEF LeaksAreExplained
  <2> DEFINE P == { n \in DOMAIN observed : ViolatesReplayKeyOrder(rows, observed[n]) }
             bad == Listed(observed, P)
             leaks == Report.leaks
  <2>1. Clean(Feed) /\ Answered(Feed, observed)
    BY Zenon DEF ControlInv
  <2>2. PICK N \in Nat : DOMAIN observed = 1..N
    BY <2>1, Zenon DEF Answered
  <2>3. \A q \in P : q \in 1..N
    BY <2>2
  <2>4. leaks = [n \in DOMAIN bad |-> Leak(RowOf(rows, bad[n].key), RowOf(rows, bad[n].max_key))]
    BY DEF Report, NegativeControlReport, LeakedPredictions, ImpossibleIn
  <2>5. \A n \in DOMAIN observed : \E i, j : Places(observed[n], i, j)
    BY <2>1, AnsweredPlaces
  <2>6. P = { k \in DOMAIN observed : CitesLaterRow(observed[k]) }
    BY <2>5, Zenon DEF Places
  <2>7. \A n \in P : n \in DOMAIN observed /\ ViolatesReplayKeyOrder(rows, observed[n])
    OBVIOUS
  <2> HIDE DEF P
  <2>8. \A n \in DOMAIN bad : \E q \in P : bad[n] = observed[q]
    <3>1. DOMAIN bad = 1..Cardinality(P)
      BY <2>3, ListedElements
    <3> QED
      BY <2>3, <3>1, ListedElements
  <2>9. \A q \in P : \E n \in DOMAIN bad : bad[n] = observed[q]
    BY <2>3, ListedAtRank
  <2> HIDE DEF bad, leaks
  <2>10. /\ DOMAIN leaks = DOMAIN bad
         /\ \A n \in DOMAIN bad : leaks[n] = Leak(RowOf(rows, bad[n].key), RowOf(rows, bad[n].max_key))
    BY <2>4
  <2>11. ASSUME NEW n \in DOMAIN leaks
         PROVE  IsExplained(leaks[n])
    <3>1. PICK q \in P : bad[n] = observed[q]
      BY <2>8, <2>10
    <3>2. PICK i, j : Places(observed[q], i, j)
      BY <2>5, <2>7
    <3>3. /\ i \in DOMAIN rows /\ j \in DOMAIN rows
          /\ RowOf(rows, observed[q].key) = rows[i] /\ RowOf(rows, observed[q].max_key) = rows[j]
          /\ ReceivedBefore(Feed[i], Feed[j])
      BY <2>7, <3>2, Zenon DEF Places
    <3>4. leaks[n] = Leak(rows[i], rows[j])
      BY <2>10, <3>1, <3>3
    <3>5. IsExplained(Leak(rows[i], rows[j]))
      BY <2>1, <3>3, LeakIsExplained
    <3> QED
      BY <3>4, <3>5
  <2>12. \A n \in DOMAIN bad : leaks[n].prediction = LabelFor(rows, bad[n].key)
    <3>1. \A x, y : Leak(x, y).prediction = x.event_id
      BY DEF Leak
    <3> QED
      BY <2>10, <3>1, Zenon DEF LabelFor
  <2>13. { leaks[n].prediction : n \in DOMAIN leaks } = { LabelFor(rows, observed[n].key) : n \in P }
    <3>1. DOMAIN leaks = DOMAIN bad
      BY <2>10
    <3>2. \A n \in DOMAIN bad : \E q \in P : leaks[n].prediction = LabelFor(rows, observed[q].key)
      BY <2>8, <2>12, Zenon
    <3>3. \A q \in P : \E n \in DOMAIN bad : leaks[n].prediction = LabelFor(rows, observed[q].key)
      BY <2>9, <2>12, Zenon
    <3> QED
      BY <3>1, <3>2, <3>3
  <2> QED
    BY <2>6, <2>11, <2>13, Zenon DEF leaks
<1> QED
  BY <1>1, ReadInvariant, ControlInvariant, PTL

(***************************************************************************)
(* When both engines print the same digest no record of the leaky engine   *)
(* cites a row received after its prediction (log.rs:36-56, 129-152).      *)
(***************************************************************************)
THEOREM EqualDigests == Spec => []EqualDigestsMeanNoLeak
<1>1. ReadInv /\ ControlInv => EqualDigestsMeanNoLeak
  <2> SUFFICES ASSUME ReadInv, ControlInv, Reported,
                      Report.correct.transcript_hash = Report.broken.transcript_hash,
                      NEW n \in DOMAIN observed
               PROVE  ~CitesLaterRow(observed[n])
    BY Zenon DEF EqualDigestsMeanNoLeak
  <2> DEFINE r == received[n]
             o == observed[n]
  <2>1. Clean(Feed) /\ Answered(Feed, received) /\ Answered(Feed, observed)
    BY Zenon DEF ControlInv
  <2>2. Transcript(rows, received) = Transcript(rows, observed)
    BY DEF Report, NegativeControlReport, EngineSummary
  <2>3. n \in DOMAIN received /\ CanonicalLine(rows, r) = CanonicalLine(rows, o)
    <3>1. PICK s, t : s = Transcript(rows, received) /\ t = Transcript(rows, observed)
      OBVIOUS
    <3>2. DOMAIN s = DOMAIN received /\ \A k \in DOMAIN received : s[k] = CanonicalLine(rows, received[k])
      BY <3>1 DEF Transcript
    <3>3. DOMAIN t = DOMAIN observed /\ \A k \in DOMAIN observed : t[k] = CanonicalLine(rows, observed[k])
      BY <3>1 DEF Transcript
    <3>4. s = t
      BY <2>2, <3>1
    <3> QED
      BY <3>2, <3>3, <3>4
  <2>4. ~ViolatesReplayKeyOrder(rows, r)
    <3> DEFINE P == { k \in DOMAIN received : ViolatesReplayKeyOrder(rows, received[k]) }
               bad == Listed(received, P)
    <3>1. Report.correct.impossible = Len(bad)
      BY DEF Report, NegativeControlReport, EngineSummary, ImpossibleIn
    <3>2. Len(bad) = 0
      BY <3>1, Zenon DEF ControlInv
    <3>3. PICK N \in Nat : DOMAIN received = 1..N
      BY <2>1, Zenon DEF Answered
    <3>4. \A q \in P : q \in 1..N
      BY <3>3
    <3> HIDE DEF P
    <3>5. Cardinality(P) = 0
      <4>1. Cardinality(P) \in Nat /\ DOMAIN bad = 1..Cardinality(P)
        BY <3>4, ListedElements
      <4>2. bad = [k \in 1..Cardinality(P) |-> received[CHOOSE p \in P : Rank(P, p) = k]]
        BY Zenon DEF Listed
      <4> HIDE DEF bad
      <4>3. Len(bad) = Cardinality(P)
        BY <4>1
      <4> QED
        BY <3>2, <4>3
    <3>6. \A q \in P : Rank(P, q) \in 1..Cardinality(P)
      BY <3>4, RankOrder
    <3>7. P = {}
      BY <3>5, <3>6
    <3> QED
      BY <2>3, <3>7 DEF P
  <2>5. /\ r.time = o.time /\ r.seq = o.seq
        /\ LabelFor(rows, r.key) = LabelFor(rows, o.key)
        /\ MaxInputReplayKey(rows, r) = MaxInputReplayKey(rows, o)
    <3> DEFINE u == CanonicalLine(rows, r)
               v == CanonicalLine(rows, o)
    <3>1. u[1] = <<r.time, r.seq, LabelFor(rows, r.key)>> /\ u[5] = MaxInputReplayKey(rows, r)
      BY DEF CanonicalLine, FormatReplayKey
    <3>2. v[1] = <<o.time, o.seq, LabelFor(rows, o.key)>> /\ v[5] = MaxInputReplayKey(rows, o)
      BY DEF CanonicalLine, FormatReplayKey
    <3> HIDE DEF u, v, r, o
    <3>3. u = v
      BY <2>3 DEF u, v
    <3>4. <<r.time, r.seq, LabelFor(rows, r.key)>> = <<o.time, o.seq, LabelFor(rows, o.key)>>
      BY <3>1, <3>2, <3>3
    <3> QED
      BY <3>1, <3>2, <3>3, <3>4
  <2> HIDE DEF r, o
  <2>6. CASE o.max_key = Absent
    <3>1. ~ViolatesReplayKeyOrder(rows, o)
      BY <2>6, Zenon DEF ViolatesReplayKeyOrder
    <3>2. PICK i, j : Places(o, i, j)
      BY <2>1, AnsweredPlaces DEF o
    <3> QED
      BY <3>1, <3>2, Zenon DEF Places, o
  <2>7. CASE o.max_key # Absent
    <3> DEFINE x == <<o.max_time, o.max_seq, LabelFor(rows, o.max_key)>>
               y == <<r.max_time, r.max_seq, LabelFor(rows, r.max_key)>>
    <3>1. MaxInputReplayKey(rows, o) = x
      BY <2>7, Zenon DEF MaxInputReplayKey, FormatReplayKey
    <3>2. r.max_key # Absent
      <4>1. ASSUME r.max_key = Absent PROVE FALSE
        <5>1. MaxInputReplayKey(rows, r) = <<"-">>
          BY <4>1, Zenon DEF MaxInputReplayKey
        <5>2. <<"-">> = x
          BY <2>5, <3>1, <5>1
        <5>3. Len(<<"-">>) = 1 /\ Len(x) = 3
          OBVIOUS
        <5> HIDE DEF x
        <5> QED
          BY <5>2, <5>3
      <4> QED
        BY <4>1
    <3>3. MaxInputReplayKey(rows, r) = y
      BY <3>2, Zenon DEF MaxInputReplayKey, FormatReplayKey
    <3>4. x = y
      BY <2>5, <3>1, <3>3, Zenon
    <3>5. o.max_time = r.max_time /\ o.max_seq = r.max_seq
          /\ LabelFor(rows, o.max_key) = LabelFor(rows, r.max_key)
      BY <3>4
    <3>6. ~ViolatesReplayKeyOrder(rows, o)
      BY <2>4, <2>5, <2>7, <3>2, <3>5, Zenon DEF ViolatesReplayKeyOrder
    <3>7. PICK i, j : Places(o, i, j)
      BY <2>1, AnsweredPlaces DEF o
    <3> QED
      BY <3>6, <3>7, Zenon DEF Places, o
  <2> QED
    BY <2>6, <2>7
<1> QED
  BY <1>1, ReadInvariant, ControlInvariant, PTL

(***************************************************************************)
(* Numbers: induction up to a bound, sequences of partial results, powers  *)
(* of ten and truncated quotients.                                         *)
(***************************************************************************)
LEMMA UpTo ==
  ASSUME NEW N \in Nat, NEW P, 0 \in P, \A n \in 1..N : n - 1 \in P => n \in P
  PROVE  \A n \in 0..N : n \in P
<1> DEFINE Gaps == { n \in 0..N : n \notin P }
<1>1. SUFFICES ASSUME Gaps # {} PROVE FALSE
  OBVIOUS
<1>2. PICK m \in Gaps : \A n \in Gaps : m <= n
  <2>1. \A n \in Gaps : n \in Nat
    OBVIOUS
  <2> HIDE DEF Gaps
  <2> QED
    BY <1>1, <2>1, LeastNatural
<1>3. m \in 0..N /\ m \notin P
  BY <1>2
<1>4. m \in 1..N
  BY <1>3
<1>5. m - 1 \notin P
  BY <1>4, <1>3
<1>6. m - 1 \in Gaps /\ ~(m <= m - 1)
  BY <1>4, <1>5
<1> QED
  BY <1>2, <1>6

\* A function defined from its value one place before exists.
IsRun(f, N, S, base, moves) ==
  f \in [0..N -> S] /\ f[0] = base /\ \A n \in 1..N : f[n] = moves[n][f[n - 1]]

LEMMA StepByStep ==
  ASSUME NEW N \in Nat, NEW S, NEW base \in S, NEW moves \in [1..N -> [S -> S]]
  PROVE  \E f : IsRun(f, N, S, base, moves)
<1> DEFINE Runs(n) == { f \in [0..N -> S] :
                          f[0] = base /\ \A k \in 1..n : f[k] = moves[k][f[k - 1]] }
           P == { n \in 0..N : Runs(n) # {} }
<1>1. 0 \in P
  <2>1. [n \in 0..N |-> base] \in Runs(0)
    OBVIOUS
  <2> QED
    BY <2>1
<1>2. ASSUME NEW n \in 1..N, n - 1 \in P
      PROVE  n \in P
  <2>1. PICK f \in [0..N -> S] : f[0] = base /\ \A k \in 1..(n - 1) : f[k] = moves[k][f[k - 1]]
    BY <1>2
  <2> DEFINE g == [f EXCEPT ![n] = moves[n][f[n - 1]]]
  <2>2. f[n - 1] \in S /\ moves[n] \in [S -> S]
    BY <2>1
  <2>3. g \in [0..N -> S] /\ g[n] = moves[n][f[n - 1]] /\ \A k \in 0..N : k # n => g[k] = f[k]
    BY <2>1, <2>2
  <2> HIDE DEF g
  <2>4. g[0] = base /\ g[n] = moves[n][g[n - 1]]
    BY <2>1, <2>3
  <2>5. ASSUME NEW k \in 1..n
        PROVE  g[k] = moves[k][g[k - 1]]
    <3>1. CASE k = n
      BY <2>4, <3>1
    <3>2. CASE k # n
      <4>1. k \in 1..(n - 1) /\ k \in 0..N /\ k - 1 \in 0..N /\ k - 1 # n
        BY <3>2
      <4> QED
        BY <2>1, <2>3, <3>2, <4>1
    <3> QED
      BY <3>1, <3>2
  <2>6. g \in Runs(n)
    BY <2>3, <2>4, <2>5
  <2> QED
    BY <2>6
<1> HIDE DEF P
<1>3. N \in P
  <2>1. \A n \in 0..N : n \in P
    BY <1>1, <1>2, UpTo
  <2> QED
    BY <2>1
<1>4. PICK f : f \in Runs(N)
  BY <1>3 DEF P
<1> QED
  BY <1>4 DEF IsRun

\* The partial sums of a sequence.
Sums(s) == CHOOSE sum : sum = [n \in 0..Len(s) |-> IF n = 0 THEN 0 ELSE sum[n - 1] + s[n]]

LEMMA SumsGoOn ==
  ASSUME NEW N \in Nat, NEW s, Len(s) = N, \A n \in 1..N : s[n] \in Int
  PROVE  /\ Sums(s)[0] = 0
         /\ \A n \in 1..N : Sums(s)[n] = Sums(s)[n - 1] + s[n]
         /\ \A n \in 0..N : Sums(s)[n] \in Int
         /\ Total(s) = Sums(s)[N]
<1> DEFINE Is(f) == f = [n \in 0..N |-> IF n = 0 THEN 0 ELSE f[n - 1] + s[n]]
<1>1. PICK add \in [1..N -> [Int -> Int]] : \A n \in 1..N : \A x \in Int : add[n][x] = x + s[n]
  <2>1. [n \in 1..N |-> [x \in Int |-> x + s[n]]] \in [1..N -> [Int -> Int]]
    OBVIOUS
  <2> QED
    BY <2>1
<1>2. PICK f : f \in [0..N -> Int] /\ f[0] = 0 /\ \A n \in 1..N : f[n] = add[n][f[n - 1]]
  <2>1. 0 \in Int
    OBVIOUS
  <2>2. \E f : IsRun(f, N, Int, 0, add)
    BY <1>1, <2>1, StepByStep, Zenon
  <2> QED
    BY <2>2 DEF IsRun
<1>3. \A n \in 1..N : n - 1 \in 0..N /\ f[n] = f[n - 1] + s[n]
  <2> TAKE n \in 1..N
  <2>1. n - 1 \in 0..N /\ f[n - 1] \in Int
    BY <1>2
  <2> QED
    BY <1>1, <1>2, <2>1
<1>4. \A n \in 0..N : f[n] = IF n = 0 THEN 0 ELSE f[n - 1] + s[n]
  BY <1>2, <1>3
<1>5. Is(f)
  BY <1>2, <1>4
<1> DEFINE g == CHOOSE sum : Is(sum)
<1>6. g = Sums(s)
  BY Zenon DEF Sums
<1>7. Is(g)
  BY <1>5, Zenon
<1> HIDE DEF g
<1>8. g[0] = 0 /\ \A n \in 1..N : g[n] = g[n - 1] + s[n]
  <2>1. PICK h : h = g
    OBVIOUS
  <2>2. h = [n \in 0..N |-> IF n = 0 THEN 0 ELSE h[n - 1] + s[n]]
    BY <1>7, <2>1
  <2>3. \A n \in 0..N : h[n] = IF n = 0 THEN 0 ELSE h[n - 1] + s[n]
    BY <2>2
  <2>4. 0 \in 0..N /\ \A n \in 1..N : n \in 0..N /\ n # 0
    OBVIOUS
  <2> QED
    BY <2>1, <2>3, <2>4
<1>9. \A n \in 0..N : g[n] \in Int
  <2> DEFINE P == { n \in 0..N : g[n] \in Int }
  <2>1. 0 \in P
    BY <1>8
  <2>2. ASSUME NEW n \in 1..N, n - 1 \in P
        PROVE  n \in P
    <3>1. g[n - 1] \in Int /\ s[n] \in Int /\ g[n] = g[n - 1] + s[n] /\ n \in 0..N
      BY <1>8, <2>2
    <3>2. g[n] \in Int
      BY <3>1, SMTT(30)
    <3> QED
      BY <3>1, <3>2
  <2> HIDE DEF P
  <2>3. \A n \in 0..N : n \in P
    BY <2>1, <2>2, UpTo
  <2> QED
    BY <2>3 DEF P
<1>10. Total(s) = Sums(s)[N]
  BY Zenon DEF Total, Sums
<1> QED
  BY <1>6, <1>8, <1>9, <1>10

\* The number a sequence of digits starts with.
Values(d) == CHOOSE value : value = [n \in 0..Len(d) |-> IF n = 0 THEN 0 ELSE 10 * value[n - 1] + d[n]]

LEMMA ValuesGoOn ==
  ASSUME NEW N \in Nat, NEW d, Len(d) = N, \A n \in 1..N : d[n] \in Int
  PROVE  /\ Values(d)[0] = 0
         /\ \A n \in 1..N : Values(d)[n] = 10 * Values(d)[n - 1] + d[n]
         /\ \A n \in 0..N : Values(d)[n] \in Int
         /\ DigitsValue(d) = Values(d)[N]
<1> DEFINE Is(f) == f = [n \in 0..N |-> IF n = 0 THEN 0 ELSE 10 * f[n - 1] + d[n]]
<1>1. PICK add \in [1..N -> [Int -> Int]] :
        \A n \in 1..N : \A x \in Int : add[n][x] = 10 * x + d[n]
  <2>1. [n \in 1..N |-> [x \in Int |-> 10 * x + d[n]]] \in [1..N -> [Int -> Int]]
    OBVIOUS
  <2> QED
    BY <2>1
<1>2. PICK f : f \in [0..N -> Int] /\ f[0] = 0 /\ \A n \in 1..N : f[n] = add[n][f[n - 1]]
  <2>1. 0 \in Int
    OBVIOUS
  <2>2. \E f : IsRun(f, N, Int, 0, add)
    BY <1>1, <2>1, StepByStep, Zenon
  <2> QED
    BY <2>2 DEF IsRun
<1>3. \A n \in 1..N : n - 1 \in 0..N /\ f[n] = 10 * f[n - 1] + d[n]
  <2> TAKE n \in 1..N
  <2>1. n - 1 \in 0..N /\ f[n - 1] \in Int
    BY <1>2
  <2> QED
    BY <1>1, <1>2, <2>1
<1>4. \A n \in 0..N : f[n] = IF n = 0 THEN 0 ELSE 10 * f[n - 1] + d[n]
  BY <1>2, <1>3
<1>5. Is(f)
  BY <1>2, <1>4
<1> DEFINE g == CHOOSE value : Is(value)
<1>6. g = Values(d)
  BY Zenon DEF Values
<1>7. Is(g)
  BY <1>5, Zenon
<1> HIDE DEF g
<1>8. g[0] = 0 /\ \A n \in 1..N : g[n] = 10 * g[n - 1] + d[n]
  <2>1. PICK h : h = g
    OBVIOUS
  <2>2. h = [n \in 0..N |-> IF n = 0 THEN 0 ELSE 10 * h[n - 1] + d[n]]
    BY <1>7, <2>1
  <2>3. \A n \in 0..N : h[n] = IF n = 0 THEN 0 ELSE 10 * h[n - 1] + d[n]
    BY <2>2
  <2>4. 0 \in 0..N /\ \A n \in 1..N : n \in 0..N /\ n # 0
    OBVIOUS
  <2> QED
    BY <2>1, <2>3, <2>4
<1>9. \A n \in 0..N : g[n] \in Int
  <2> DEFINE P == { n \in 0..N : g[n] \in Int }
  <2>1. 0 \in P
    BY <1>8
  <2>2. ASSUME NEW n \in 1..N, n - 1 \in P
        PROVE  n \in P
    <3>1. g[n - 1] \in Int /\ d[n] \in Int /\ g[n] = 10 * g[n - 1] + d[n] /\ n \in 0..N
      BY <1>8, <2>2
    <3>2. PICK x \in Int : x = g[n - 1]
      BY <3>1
    <3>3. 10 * x + d[n] \in Int
      BY <3>1
    <3> QED
      BY <3>1, <3>2, <3>3
  <2> HIDE DEF P
  <2>3. \A n \in 0..N : n \in P
    BY <2>1, <2>2, UpTo
  <2> QED
    BY <2>3 DEF P
<1>10. DigitsValue(d) = Values(d)[N]
  BY Zenon DEF DigitsValue, Values
<1> QED
  BY <1>6, <1>8, <1>9, <1>10

\* The powers of ten up to one.
Powers(n) == CHOOSE power : power = [k \in 0..n |-> IF k = 0 THEN 1 ELSE 10 * power[k - 1]]

LEMMA PowersGoOn ==
  ASSUME NEW N \in Nat
  PROVE  /\ Powers(N)[0] = 1
         /\ \A n \in 1..N : Powers(N)[n] = 10 * Powers(N)[n - 1]
         /\ \A n \in 0..N : Powers(N)[n] \in Nat \ {0}
         /\ TenTo(N) = Powers(N)[N]
<1> DEFINE Is(f) == f = [n \in 0..N |-> IF n = 0 THEN 1 ELSE 10 * f[n - 1]]
<1>1. PICK add \in [1..N -> [Int -> Int]] : \A n \in 1..N : \A x \in Int : add[n][x] = 10 * x
  <2>1. [n \in 1..N |-> [x \in Int |-> 10 * x]] \in [1..N -> [Int -> Int]]
    OBVIOUS
  <2> QED
    BY <2>1
<1>2. PICK f : f \in [0..N -> Int] /\ f[0] = 1 /\ \A n \in 1..N : f[n] = add[n][f[n - 1]]
  <2>1. 1 \in Int
    OBVIOUS
  <2>2. \E f : IsRun(f, N, Int, 1, add)
    BY <1>1, <2>1, StepByStep, Zenon
  <2> QED
    BY <2>2 DEF IsRun
<1>3. \A n \in 1..N : n - 1 \in 0..N /\ f[n] = 10 * f[n - 1]
  <2> TAKE n \in 1..N
  <2>1. n - 1 \in 0..N /\ f[n - 1] \in Int
    BY <1>2
  <2> QED
    BY <1>1, <1>2, <2>1
<1>4. \A n \in 0..N : f[n] = IF n = 0 THEN 1 ELSE 10 * f[n - 1]
  BY <1>2, <1>3
<1>5. Is(f)
  BY <1>2, <1>4
<1> DEFINE g == CHOOSE power : Is(power)
<1>6. g = Powers(N)
  BY Zenon DEF Powers
<1>7. Is(g)
  BY <1>5, Zenon
<1> HIDE DEF g
<1>8. g[0] = 1 /\ \A n \in 1..N : g[n] = 10 * g[n - 1]
  <2>1. PICK h : h = g
    OBVIOUS
  <2>2. h = [n \in 0..N |-> IF n = 0 THEN 1 ELSE 10 * h[n - 1]]
    BY <1>7, <2>1
  <2>3. \A n \in 0..N : h[n] = IF n = 0 THEN 1 ELSE 10 * h[n - 1]
    BY <2>2
  <2>4. 0 \in 0..N /\ \A n \in 1..N : n \in 0..N /\ n # 0
    OBVIOUS
  <2> QED
    BY <2>1, <2>3, <2>4
<1>9. \A n \in 0..N : g[n] \in Nat \ {0}
  <2> DEFINE P == { n \in 0..N : g[n] \in Nat \ {0} }
  <2>1. 0 \in P
    BY <1>8
  <2>2. ASSUME NEW n \in 1..N, n - 1 \in P
        PROVE  n \in P
    <3>1. g[n - 1] \in Nat \ {0} /\ g[n] = 10 * g[n - 1] /\ n \in 0..N
      BY <1>8, <2>2
    <3>2. PICK x \in Nat \ {0} : x = g[n - 1]
      BY <3>1
    <3>3. 10 * x \in Nat \ {0}
      OBVIOUS
    <3> QED
      BY <3>1, <3>2, <3>3
  <2> HIDE DEF P
  <2>3. \A n \in 0..N : n \in P
    BY <2>1, <2>2, UpTo
  <2> QED
    BY <2>3 DEF P
<1>10. TenTo(N) = Powers(N)[N]
  BY Zenon DEF TenTo, Powers
<1> QED
  BY <1>6, <1>8, <1>9, <1>10

LEMMA TensGoOn ==
  /\ TenTo(0) = 1
  /\ \A n \in Nat : TenTo(n) \in Nat \ {0} /\ TenTo(n + 1) = 10 * TenTo(n)
<1>1. TenTo(0) = 1
  <2>1. 0 \in Nat
    OBVIOUS
  <2> QED
    BY <2>1, PowersGoOn
<1>2. ASSUME NEW n \in Nat
      PROVE  TenTo(n) \in Nat \ {0} /\ TenTo(n + 1) = 10 * TenTo(n)
  <2> DEFINE p == Powers(n)
             q == Powers(n + 1)
             P == { k \in 0..n : q[k] = p[k] }
  <2>1. /\ p[0] = 1 /\ \A k \in 1..n : p[k] = 10 * p[k - 1]
        /\ \A k \in 0..n : p[k] \in Nat \ {0}
        /\ TenTo(n) = p[n]
    BY PowersGoOn
  <2>2. /\ q[0] = 1 /\ \A k \in 1..(n + 1) : q[k] = 10 * q[k - 1]
        /\ TenTo(n + 1) = q[n + 1]
    <3>1. n + 1 \in Nat
      OBVIOUS
    <3> QED
      BY <3>1, PowersGoOn
  <2> HIDE DEF p, q
  <2>3. 0 \in P
    BY <2>1, <2>2
  <2>4. \A k \in 1..n : k - 1 \in P => k \in P
    BY <2>1, <2>2
  <2> HIDE DEF P
  <2>5. \A k \in 0..n : k \in P
    BY <2>3, <2>4, UpTo
  <2>6. q[n] = p[n]
    BY <2>5 DEF P
  <2>7. q[n + 1] = 10 * q[n]
    BY <2>2
  <2> QED
    BY <2>1, <2>2, <2>6, <2>7
<1> QED
  BY <1>1, <1>2

LEMMA TensMultiply ==
  ASSUME NEW a \in Nat, NEW b \in Nat
  PROVE  TenTo(a + b) = TenTo(a) * TenTo(b)
<1> DEFINE P == { n \in 0..b : TenTo(a + n) = TenTo(a) * TenTo(n) }
<1>1. 0 \in P
  BY TensGoOn
<1>2. ASSUME NEW n \in 1..b, n - 1 \in P
      PROVE  n \in P
  <2>1. PICK x \in Nat, y \in Nat : x = TenTo(a) /\ y = TenTo(n - 1)
    BY TensGoOn, SMTT(30)
  <2>2. TenTo(n) = 10 * y
    <3>1. n - 1 \in Nat /\ n - 1 + 1 = n
      OBVIOUS
    <3> QED
      BY <2>1, <3>1, TensGoOn
  <2>3. TenTo(a + n) = 10 * (x * y)
    <3>1. a + (n - 1) \in Nat /\ a + (n - 1) + 1 = a + n
      OBVIOUS
    <3>2. TenTo(a + (n - 1)) = x * y
      BY <1>2, <2>1
    <3> QED
      BY <3>1, <3>2, TensGoOn
  <2>4. 10 * (x * y) = x * (10 * y)
    OBVIOUS
  <2> QED
    BY <2>1, <2>2, <2>3, <2>4
<1> HIDE DEF P
<1>3. \A n \in 0..b : n \in P
  BY <1>1, <1>2, UpTo
<1> QED
  BY <1>3 DEF P

LEMMA TensOutgrow ==
  ASSUME NEW b \in Nat
  PROVE  b < TenTo(b)
<1> DEFINE P == { n \in 0..b : n < TenTo(n) }
<1>1. 0 \in P
  BY TensGoOn
<1>2. ASSUME NEW n \in 1..b, n - 1 \in P
      PROVE  n \in P
  <2>1. n - 1 \in Nat /\ n - 1 + 1 = n
    OBVIOUS
  <2>2. TenTo(n) = 10 * TenTo(n - 1) /\ TenTo(n - 1) \in Nat /\ n - 1 < TenTo(n - 1)
    BY <1>2, <2>1, TensGoOn
  <2> QED
    BY <2>2
<1> HIDE DEF P
<1>3. \A n \in 0..b : n \in P
  BY <1>1, <1>2, UpTo
<1> QED
  BY <1>3 DEF P

LEMMA DigitsStayBelow ==
  ASSUME NEW N \in Nat, NEW d, Len(d) = N, \A n \in 1..N : d[n] \in 0..9
  PROVE  DigitsValue(d) \in Nat /\ DigitsValue(d) < TenTo(N)
<1> DEFINE v == Values(d)
           P == { n \in 0..N : v[n] \in Nat /\ v[n] < TenTo(n) }
<1>1. \A n \in 1..N : d[n] \in Int
  OBVIOUS
<1>2. /\ v[0] = 0 /\ \A n \in 1..N : v[n] = 10 * v[n - 1] + d[n]
      /\ DigitsValue(d) = v[N]
  BY <1>1, ValuesGoOn
<1> HIDE DEF v
<1>3. 0 \in P
  <2>1. v[0] \in Nat /\ v[0] < TenTo(0)
    BY <1>2, TensGoOn
  <2> QED
    BY <2>1
<1>4. ASSUME NEW n \in 1..N, n - 1 \in P
      PROVE  n \in P
  <2>1. n - 1 \in Nat /\ n - 1 + 1 = n /\ n \in 0..N
    OBVIOUS
  <2>2. PICK x \in Nat, y \in Nat : x = v[n - 1] /\ y = TenTo(n - 1) /\ x < y
    BY <1>4, <2>1, TensGoOn
  <2>3. TenTo(n) = 10 * y
    BY <2>1, <2>2, TensGoOn
  <2>4. v[n] = 10 * x + d[n] /\ d[n] \in 0..9
    BY <1>2, <2>2
  <2>5. v[n] \in Nat /\ v[n] < 10 * y
    BY <2>2, <2>4, SMTT(30)
  <2> QED
    BY <2>1, <2>3, <2>5
<1> HIDE DEF P
<1>5. \A n \in 0..N : n \in P
  BY <1>3, <1>4, UpTo
<1>6. N \in P
  BY <1>5
<1> QED
  BY <1>2, <1>6 DEF P

\* Digits one after the other.
LEMMA DigitsJoin ==
  ASSUME NEW A \in Nat, NEW B \in Nat, NEW a, NEW b, NEW d,
         Len(a) = A, Len(b) = B, Len(d) = A + B,
         \A n \in 1..A : a[n] \in Int /\ d[n] = a[n],
         \A n \in 1..B : b[n] \in Int /\ d[A + n] = b[n]
  PROVE  DigitsValue(d) = DigitsValue(a) * TenTo(B) + DigitsValue(b)
<1> DEFINE u == Values(a)
           v == Values(b)
           w == Values(d)
           P == { n \in 0..A : w[n] = u[n] }
           Q == { n \in 0..B : w[A + n] = u[A] * TenTo(n) + v[n] }
<1>0. (\A n \in 1..A : a[n] \in Int) /\ (\A n \in 1..B : b[n] \in Int)
  OBVIOUS
<1>1. \A n \in 1..(A + B) : d[n] \in Int
  <2> TAKE n \in 1..(A + B)
  <2>1. n \in 1..A \/ (n - A \in 1..B /\ A + (n - A) = n)
    OBVIOUS
  <2>2. CASE n \in 1..A
    BY <2>2
  <2>3. CASE n - A \in 1..B /\ A + (n - A) = n
    <3>1. d[A + (n - A)] = b[n - A] /\ b[n - A] \in Int
      BY <2>3
    <3> QED
      BY <2>3, <3>1
  <2> QED
    BY <2>1, <2>2, <2>3
<1>2. /\ u[0] = 0 /\ \A n \in 1..A : u[n] = 10 * u[n - 1] + a[n]
      /\ \A n \in 0..A : u[n] \in Int
      /\ DigitsValue(a) = u[A]
  BY <1>0, ValuesGoOn, ZenonT(60)
<1>3. /\ v[0] = 0 /\ \A n \in 1..B : v[n] = 10 * v[n - 1] + b[n]
      /\ \A n \in 0..B : v[n] \in Int
      /\ DigitsValue(b) = v[B]
  BY <1>0, ValuesGoOn, ZenonT(60)
<1>4. /\ w[0] = 0 /\ \A n \in 1..(A + B) : w[n] = 10 * w[n - 1] + d[n]
      /\ DigitsValue(d) = w[A + B]
  <2>1. PICK C \in Nat : C = A + B
    OBVIOUS
  <2>2. Len(d) = C /\ \A n \in 1..C : d[n] \in Int
    BY <1>1, <2>1
  <2>3. /\ w[0] = 0 /\ \A n \in 1..C : w[n] = 10 * w[n - 1] + d[n]
        /\ DigitsValue(d) = w[C]
    BY <2>1, <2>2, ValuesGoOn, Zenon
  <2> QED
    BY <2>1, <2>3, Zenon
<1> HIDE DEF u, v, w
<1>5. \A n \in 0..A : n \in P
  <2>1. 0 \in P
    BY <1>2, <1>4
  <2>2. ASSUME NEW n \in 1..A, n - 1 \in P
        PROVE  n \in P
    <3>1. n \in 1..(A + B) /\ n \in 0..A /\ w[n - 1] = u[n - 1] /\ d[n] = a[n]
      BY <2>2
    <3>2. w[n] = 10 * w[n - 1] + d[n] /\ u[n] = 10 * u[n - 1] + a[n]
      BY <1>2, <1>4, <3>1
    <3>3. w[n] = u[n]
      BY <3>1, <3>2, Zenon
    <3> QED
      BY <3>1, <3>3
  <2> HIDE DEF P
  <2> QED
    BY <2>1, <2>2, UpTo
<1>6. w[A] = u[A]
  BY <1>5
<1>7. \A n \in 0..B : n \in Q
  <2>0. PICK c \in Int : c = u[A]
    BY <1>2
  <2>1. 0 \in Q
    <3>1. TenTo(0) = 1
      BY TensGoOn
    <3>2. w[A + 0] = u[A] * TenTo(0) + v[0]
      BY <1>3, <1>6, <2>0, <3>1
    <3> QED
      BY <3>2
  <2>2. ASSUME NEW n \in 1..B, n - 1 \in Q
        PROVE  n \in Q
    <3>1. n - 1 \in Nat /\ n - 1 + 1 = n /\ n - 1 \in 0..B /\ n \in 0..B /\ n \in Nat
      OBVIOUS
    <3>2. PICK t \in Nat : t = TenTo(n - 1) /\ TenTo(n) = 10 * t
      BY <3>1, TensGoOn
    <3>3. PICK x \in Int : x = v[n - 1]
      BY <1>3, <3>1
    <3>4. w[A + (n - 1)] = c * t + x
      BY <2>0, <2>2, <3>2, <3>3
    <3>5. A + n \in 1..(A + B) /\ A + n - 1 = A + (n - 1) /\ d[A + n] = b[n] /\ b[n] \in Int
      BY <3>1
    <3>6. w[A + n] = 10 * (c * t + x) + b[n]
      <4>1. w[A + n] = 10 * w[A + n - 1] + d[A + n]
        BY <1>4, <3>5
      <4> QED
        BY <3>4, <3>5, <4>1, Zenon
    <3>7. v[n] = 10 * x + b[n]
      BY <1>3, <3>3
    <3>8. 10 * (c * t + x) + b[n] = c * (10 * t) + (10 * x + b[n])
      BY <3>5
    <3>9. w[A + n] = u[A] * TenTo(n) + v[n]
      BY <2>0, <3>2, <3>6, <3>7, <3>8
    <3> QED
      BY <3>1, <3>9
  <2> HIDE DEF Q
  <2> QED
    BY <2>1, <2>2, UpTo
<1>8. w[A + B] = u[A] * TenTo(B) + v[B]
  BY <1>7
<1> QED
  BY <1>2, <1>3, <1>4, <1>8, Zenon

LEMMA ZerosAreNothing ==
  ASSUME NEW N \in Nat
  PROVE  DigitsValue([n \in 1..N |-> 0]) = 0
<1> DEFINE d == [n \in 1..N |-> 0]
           v == Values(d)
           P == { n \in 0..N : v[n] = 0 }
<1>1. Len(d) = N /\ \A n \in 1..N : d[n] = 0 /\ d[n] \in Int
  OBVIOUS
<1> HIDE DEF d
<1>2. /\ v[0] = 0 /\ \A n \in 1..N : v[n] = 10 * v[n - 1] + d[n]
      /\ DigitsValue(d) = v[N]
  <2>1. PICK e : e = d
    OBVIOUS
  <2>2. Len(e) = N /\ \A n \in 1..N : e[n] \in Int
    BY <1>1, <2>1
  <2>3. /\ Values(e)[0] = 0 /\ \A n \in 1..N : Values(e)[n] = 10 * Values(e)[n - 1] + e[n]
        /\ DigitsValue(e) = Values(e)[N]
    BY <2>2, ValuesGoOn
  <2> QED
    BY <2>1, <2>3, Zenon
<1> HIDE DEF v
<1>3. 0 \in P
  BY <1>2
<1>4. \A n \in 1..N : n - 1 \in P => n \in P
  BY <1>1, <1>2
<1> HIDE DEF P
<1>5. \A n \in 0..N : n \in P
  BY <1>3, <1>4, UpTo
<1>6. N \in P
  BY <1>5
<1> QED
  BY <1>2, <1>6 DEF P, d

\* Half of the digits cut off are less than a half unit, or the digit decides.
LEMMA CutDigits ==
  ASSUME NEW N \in Nat, NEW b, Len(b) = N + 1, \A n \in 1..(N + 1) : b[n] \in 0..9
  PROVE  /\ DigitsValue(b) \in Nat /\ DigitsValue(b) < TenTo(N + 1)
         /\ b[1] >= 5 => TenTo(N + 1) <= 2 * DigitsValue(b)
         /\ ~(b[1] >= 5) => 2 * DigitsValue(b) < TenTo(N + 1)
<1> DEFINE head == [n \in 1..1 |-> b[1]]
           rest == [n \in 1..N |-> b[n + 1]]
<1>1. Len(head) = 1 /\ head[1] = b[1] /\ b[1] \in 0..9 /\ 1 \in Nat
  OBVIOUS
<1>2. Len(rest) = N /\ \A n \in 1..N : rest[n] = b[1 + n] /\ rest[n] \in 0..9 /\ rest[n] \in Int
  OBVIOUS
<1> HIDE DEF head, rest
<1>3. DigitsValue(b) = DigitsValue(head) * TenTo(N) + DigitsValue(rest)
  <2>1. PICK one \in Nat : one = 1
    OBVIOUS
  <2>2. Len(b) = one + N /\ Len(head) = one /\ Len(rest) = N
    BY <1>1, <1>2, <2>1
  <2>3. \A n \in 1..one : head[n] \in Int /\ b[n] = head[n]
    BY <1>1, <2>1
  <2>4. \A n \in 1..N : rest[n] \in Int /\ b[one + n] = rest[n]
    BY <1>2, <2>1
  <2> QED
    BY <2>2, <2>3, <2>4, DigitsJoin, SMTT(30)
<1>4. DigitsValue(head) = b[1]
  <2>1. \A n \in 1..1 : head[n] \in Int
    BY <1>1
  <2>2. /\ Values(head)[0] = 0 /\ \A n \in 1..1 : Values(head)[n] = 10 * Values(head)[n - 1] + head[n]
        /\ DigitsValue(head) = Values(head)[1]
    BY <1>1, <2>1, ValuesGoOn
  <2> QED
    BY <1>1, <2>2
<1>5. DigitsValue(rest) \in Nat /\ DigitsValue(rest) < TenTo(N)
  BY <1>2, DigitsStayBelow
<1>6. PICK t \in Nat, r \in Nat, c \in 0..9 :
        t = TenTo(N) /\ r = DigitsValue(rest) /\ c = b[1] /\ TenTo(N + 1) = 10 * t
  BY <1>1, <1>5, TensGoOn
<1>7. r < t /\ DigitsValue(b) = c * t + r
  BY <1>3, <1>4, <1>5, <1>6
<1>8. c * t + r \in Nat /\ c * t + r < 10 * t
  BY <1>7
<1>9. c >= 5 => 10 * t <= 2 * (c * t + r)
  <2>1. ASSUME c >= 5 PROVE 5 * t <= c * t
    BY <2>1
  <2> QED
    BY <2>1
<1>10. ~(c >= 5) => 2 * (c * t + r) < 10 * t
  <2>1. ASSUME ~(c >= 5) PROVE c * t <= 4 * t
    BY <2>1
  <2> QED
    BY <1>7, <2>1
<1> QED
  BY <1>6, <1>7, <1>8, <1>9, <1>10

LEMMA ScaleIsTen ==
  /\ ScaleDigits \in Nat /\ FixedScale = TenTo(ScaleDigits) /\ FixedScale \in Nat \ {0}
  /\ NarrowMax \in Nat /\ WideMax \in Nat /\ NarrowMax < WideMax
BY ScaleAssumption, WidthAssumption

\* The kept digits, rounded, against all digits of the fraction.
LEMMA FractionIsNearest ==
  ASSUME NEW L \in Nat, NEW f, Len(f) = L, \A n \in 1..L : f[n] \in 0..9
  PROVE  LET kept  == DigitsValue(KeptDigits(f)) + (IF RoundsUp(f) THEN 1 ELSE 0)
             off == kept * TenTo(L) - DigitsValue(f) * FixedScale
         IN  /\ kept \in Nat /\ DigitsValue(f) \in Nat
             /\ -TenTo(L) < 2 * off /\ 2 * off <= TenTo(L)
<1> DEFINE D == ScaleDigits
           k == KeptDigits(f)
           K == DigitsValue(k)
           F == DigitsValue(f)
           r == IF RoundsUp(f) THEN 1 ELSE 0
<1>1. D \in Nat /\ FixedScale = TenTo(D) /\ FixedScale \in Nat \ {0}
  BY ScaleIsTen
<1>2. Len(k) = D /\ \A n \in 1..D : k[n] = IF n <= L THEN f[n] ELSE 0
  BY <1>1 DEF KeptDigits
<1>3. \A n \in 1..D : k[n] \in 0..9
  BY <1>1, <1>2
<1> HIDE DEF k
<1>4. K \in Nat /\ F \in Nat
  BY <1>1, <1>2, <1>3, DigitsStayBelow
<1>5. RoundsUp(f) <=> L > D /\ f[D + 1] >= 5
  BY DEF RoundsUp
<1>6. CASE L <= D
  <2>1. PICK B \in Nat : D = L + B
    <3>1. D - L \in Nat /\ D = L + (D - L)
      BY <1>1, <1>6
    <3> QED
      BY <3>1
  <2> DEFINE z == [n \in 1..B |-> 0]
  <2>2. Len(z) = B /\ \A n \in 1..B : z[n] = 0
    OBVIOUS
  <2>3. DigitsValue(z) = 0
    BY ZerosAreNothing
  <2> HIDE DEF z
  <2>4. K = F * TenTo(B) + DigitsValue(z)
    <3>1. Len(k) = L + B
      BY <1>2, <2>1
    <3>2. \A n \in 1..L : f[n] \in Int /\ k[n] = f[n]
      BY <1>1, <1>2, <2>1
    <3>3. \A n \in 1..B : z[n] \in Int /\ k[L + n] = z[n]
      BY <1>1, <1>2, <2>1, <2>2
    <3> QED
      BY <2>2, <3>1, <3>2, <3>3, DigitsJoin
  <2>5. FixedScale = TenTo(L) * TenTo(B)
    BY <1>1, <2>1, TensMultiply
  <2>6. PICK u \in Nat \ {0}, p \in Nat \ {0} : u = TenTo(L) /\ p = TenTo(B)
    BY TensGoOn
  <2>7. r = 0
    BY <1>1, <1>5, <1>6
  <2>8. PICK x \in Nat : x = F
    BY <1>4
  <2>9. K = x * p /\ (x * p) * u = x * (u * p)
    BY <2>3, <2>4, <2>6, <2>8
  <2>10. (K + r) * u = F * FixedScale
    BY <1>4, <2>5, <2>6, <2>7, <2>8, <2>9
  <2>11. PICK y \in Int : y = F * FixedScale
    BY <1>1, <1>4
  <2>12. -u < 2 * (y - y) /\ 2 * (y - y) <= u
    OBVIOUS
  <2> HIDE DEF K, F, r
  <2>13. K + r \in Nat
    BY <1>4, <2>7
  <2> QED
    BY <1>4, <2>6, <2>10, <2>11, <2>12, <2>13 DEF K, F, r, k
<1>7. CASE L > D
  <2>1. PICK N \in Nat : L = D + (N + 1)
    <3>1. L - D - 1 \in Nat /\ L = D + ((L - D - 1) + 1)
      BY <1>1, <1>7
    <3> QED
      BY <3>1
  <2> DEFINE b == [n \in 1..(N + 1) |-> f[D + n]]
  <2>2. Len(b) = N + 1 /\ b[1] = f[D + 1]
        /\ \A n \in 1..(N + 1) : b[n] = f[D + n] /\ b[n] \in 0..9 /\ b[n] \in Int
    BY <1>1, <2>1
  <2> HIDE DEF b
  <2>3. /\ DigitsValue(b) \in Nat /\ DigitsValue(b) < TenTo(N + 1)
        /\ b[1] >= 5 => TenTo(N + 1) <= 2 * DigitsValue(b)
        /\ ~(b[1] >= 5) => 2 * DigitsValue(b) < TenTo(N + 1)
    BY <2>2, CutDigits
  <2>4. PICK M \in Nat : M = N + 1
    OBVIOUS
  <2>5. F = K * TenTo(M) + DigitsValue(b)
    <3>1. Len(f) = D + M /\ Len(b) = M
      BY <2>1, <2>2, <2>4
    <3>2. \A n \in 1..D : k[n] \in Int /\ f[n] = k[n]
      BY <1>1, <1>2, <1>3, <2>1
    <3>3. \A n \in 1..M : b[n] \in Int /\ f[D + n] = b[n]
      BY <2>2, <2>4
    <3> QED
      BY <1>1, <1>2, <3>1, <3>2, <3>3, DigitsJoin
  <2>6. TenTo(L) = FixedScale * TenTo(M)
    BY <1>1, <2>1, <2>4, TensMultiply
  <2>7. PICK s \in Nat \ {0}, q \in Nat \ {0} : s = FixedScale /\ q = TenTo(M)
    BY <1>1, TensGoOn
  <2>8. PICK x \in Nat, y \in Nat : x = K /\ y = DigitsValue(b)
    BY <1>4, <2>3
  <2>9. y < q /\ (r = 1 => q <= 2 * y) /\ (r = 0 => 2 * y < q) /\ r \in {0, 1}
    <3>1. RoundsUp(f) <=> b[1] >= 5
      BY <1>1, <1>5, <1>7, <2>2
    <3> QED
      BY <2>3, <2>4, <2>7, <2>8, <3>1
  <2>10. PICK a \in {0, 1} : a = r
    BY <2>9
  <2>11. (x + a) * (s * q) - (x * q + y) * s = s * (a * q - y)
    OBVIOUS
  <2>12. PICK e \in Int : e = a * q - y
    OBVIOUS
  <2>13. -q < 2 * e /\ 2 * e <= q
    BY <2>9, <2>10, <2>12
  <2>14. -(s * q) < 2 * (s * e) /\ 2 * (s * e) <= s * q
    <3>1. PICK g \in Nat, h \in Nat : g = q + 2 * e - 1 /\ h = q - 2 * e
      <4>1. q + 2 * e - 1 \in Nat /\ q - 2 * e \in Nat
        BY <2>13
      <4> QED
        BY <4>1
    <3>2. s * g \in Nat /\ s * h \in Nat
      OBVIOUS
    <3>3. s * g = s * q + 2 * (s * e) - s /\ s * h = s * q - 2 * (s * e)
      BY <3>1
    <3>4. s * q \in Int /\ s * e \in Int
      OBVIOUS
    <3> QED
      BY <3>2, <3>3, <3>4
  <2>15. (K + r) * TenTo(L) - F * FixedScale = s * e
    BY <2>5, <2>6, <2>7, <2>8, <2>10, <2>11, <2>12
  <2>16. TenTo(L) = s * q
    BY <2>6, <2>7
  <2> HIDE DEF K, F, r
  <2>17. K + r \in Nat
    BY <1>4, <2>9
  <2> QED
    BY <1>4, <2>14, <2>15, <2>16, <2>17 DEF K, F, r, k
<1> QED
  BY <1>1, <1>6, <1>7

Joined(w, f, d, W, L) ==
  /\ Len(w) = W /\ \A n \in 1..W : w[n] \in 0..9 /\ d[n] = w[n]
  /\ Len(f) = L /\ \A n \in 1..L : f[n] \in 0..9 /\ d[W + n] = f[n]
  /\ Len(d) = W + L

\* The digits of a text, before and after the point.
LEMMA NumberParts ==
  ASSUME NEW numeral \in ScoreTexts, IsNumber(numeral),
         NEW w, NEW f, NEW d, w = numeral.whole, f = numeral.fraction, d = w \o f
  PROVE  \E W, L \in Nat : Joined(w, f, d, W, L)
<1>1. numeral.whole \in Seq(Digits \cup {NonDigit}) /\ numeral.fraction \in Seq(Digits \cup {NonDigit})
  BY DEF ScoreTexts
<1>2. w \in Seq(Digits \cup {NonDigit}) /\ f \in Seq(Digits \cup {NonDigit})
  BY <1>1
<1>3. PICK W \in Nat, L \in Nat : W = Len(w) /\ L = Len(f) /\ DOMAIN w = 1..W /\ DOMAIN f = 1..L
  BY <1>2, LenProperties
<1>4. (\A n \in 1..W : w[n] \in 0..9) /\ (\A n \in 1..L : f[n] \in 0..9)
  BY <1>3, Zenon DEF IsNumber, Digits
<1>5. Len(d) = W + L /\ \A n \in 1..(W + L) : d[n] = IF n <= W THEN w[n] ELSE f[n - W]
  <2>1. PICK T : w \in Seq(T) /\ f \in Seq(T)
    BY <1>2
  <2>2. /\ Len(w \o f) = Len(w) + Len(f)
        /\ \A n \in 1..(Len(w) + Len(f)) :
             (w \o f)[n] = IF n <= Len(w) THEN w[n] ELSE f[n - Len(w)]
    BY <2>1, ConcatProperties
  <2> QED
    BY <1>3, <2>2, Zenon
<1>6. \A n \in 1..W : d[n] = w[n]
  <2>1. \A n \in 1..W : n \in 1..(W + L) /\ n <= W
    OBVIOUS
  <2> QED
    BY <1>5, <2>1
<1>7. ASSUME NEW n \in 1..L
      PROVE  d[W + n] = f[n]
  <2>1. PICK m \in 1..(W + L) : m = W + n /\ ~(m <= W) /\ m - W = n
    <3>1. W + n \in 1..(W + L) /\ ~(W + n <= W) /\ W + n - W = n
      OBVIOUS
    <3> QED
      BY <3>1
  <2> QED
    BY <1>5, <2>1
<1> QED
  BY <1>3, <1>4, <1>5, <1>6, <1>7, Zenon DEF Joined

Exact(numeral) == DigitsValue(numeral.whole \o numeral.fraction) * FixedScale

Unit(numeral) == TenTo(Len(numeral.fraction))

\* What a text is read as is the nearest number of units.
LEMMA MagnitudeIsNearest ==
  ASSUME NEW numeral \in ScoreTexts, IsNumber(numeral)
  PROVE  /\ Magnitude(numeral) \in Nat /\ Exact(numeral) \in Nat /\ Unit(numeral) \in Nat \ {0}
         /\ -Unit(numeral) < 2 * (Magnitude(numeral) * Unit(numeral) - Exact(numeral))
         /\ 2 * (Magnitude(numeral) * Unit(numeral) - Exact(numeral)) <= Unit(numeral)
<1>1. PICK w, f, d : w = numeral.whole /\ f = numeral.fraction /\ d = w \o f
  OBVIOUS
<1>2. PICK W \in Nat, L \in Nat :
        /\ Len(w) = W /\ \A n \in 1..W : w[n] \in 0..9 /\ d[n] = w[n]
        /\ Len(f) = L /\ \A n \in 1..L : f[n] \in 0..9 /\ d[W + n] = f[n]
        /\ Len(d) = W + L
  <2>1. \E W, L \in Nat : Joined(w, f, d, W, L)
    BY <1>1, NumberParts, Zenon
  <2> QED
    BY <2>1, Zenon DEF Joined
<1>3. PICK x \in Nat : x = DigitsValue(w)
  BY <1>2, DigitsStayBelow
<1>4. PICK K \in Nat, y \in Nat :
        /\ K = DigitsValue(KeptDigits(f)) + (IF RoundsUp(f) THEN 1 ELSE 0)
        /\ y = DigitsValue(f)
        /\ -TenTo(L) < 2 * (K * TenTo(L) - y * FixedScale)
        /\ 2 * (K * TenTo(L) - y * FixedScale) <= TenTo(L)
  BY <1>2, FractionIsNearest
<1>5. DigitsValue(d) = DigitsValue(w) * TenTo(L) + DigitsValue(f)
  <2>1. \A n \in 1..W : w[n] \in Int /\ d[n] = w[n]
    BY <1>2
  <2>2. \A n \in 1..L : f[n] \in Int /\ d[W + n] = f[n]
    BY <1>2
  <2> QED
    BY <1>2, <2>1, <2>2, DigitsJoin, SMTT(30)
<1>6. PICK u \in Nat \ {0}, s \in Nat \ {0} : u = TenTo(L) /\ s = FixedScale
  BY TensGoOn, ScaleIsTen
<1>7. Magnitude(numeral) = x * s + K
  <2>1. Magnitude(numeral) = DigitsValue(w) * FixedScale + DigitsValue(KeptDigits(f))
                            + (IF RoundsUp(f) THEN 1 ELSE 0)
    BY <1>1, Zenon DEF Magnitude
  <2>2. DigitsValue(KeptDigits(f)) \in Nat
    <3>1. \A n \in 1..ScaleDigits : KeptDigits(f)[n] \in 0..9
      <4>1. ScaleDigits \in Nat
        BY ScaleIsTen
      <4>2. \A n \in 1..ScaleDigits : KeptDigits(f)[n] = IF n <= L THEN f[n] ELSE 0
        BY <1>2, <4>1 DEF KeptDigits
      <4> QED
        BY <1>2, <4>1, <4>2
    <3>2. Len(KeptDigits(f)) = ScaleDigits
      BY ScaleIsTen DEF KeptDigits
    <3> QED
      BY <3>1, <3>2, ScaleIsTen, DigitsStayBelow
  <2>3. PICK k \in Nat, r \in {0, 1} :
          k = DigitsValue(KeptDigits(f)) /\ r = IF RoundsUp(f) THEN 1 ELSE 0
    BY <2>2
  <2>4. x * s + k + r = x * s + (k + r)
    OBVIOUS
  <2> QED
    BY <1>3, <1>4, <1>6, <2>1, <2>3, <2>4
<1>8. Exact(numeral) = (x * u + y) * s /\ Unit(numeral) = u
  BY <1>2, <1>1, <1>3, <1>4, <1>5, <1>6 DEF Exact, Unit
<1>9. (x * s + K) * u - (x * u + y) * s = K * u - y * s
  OBVIOUS
<1>10. x * s + K \in Nat /\ (x * u + y) * s \in Nat
  OBVIOUS
<1> QED
  BY <1>4, <1>6, <1>7, <1>8, <1>9, <1>10

\* Only one number of units is nearest.
LEMMA NearestIsOne ==
  ASSUME NEW m \in Nat, NEW k \in Nat, NEW u \in Nat \ {0}, NEW e \in Nat,
         -u < 2 * (m * u - e), 2 * (m * u - e) <= u,
         -u < 2 * (k * u - e), 2 * (k * u - e) <= u
  PROVE  m = k
<1>1. ASSUME NEW a \in Nat, NEW b \in Nat, b < a,
             2 * (a * u - e) <= u, -u < 2 * (b * u - e)
      PROVE  FALSE
  <2>1. PICK c \in Nat : a = b + 1 + c
    <3>1. a - b - 1 \in Nat /\ a = b + 1 + (a - b - 1)
      BY <1>1
    <3> QED
      BY <3>1
  <2>2. a * u = b * u + u + c * u /\ c * u \in Nat /\ b * u \in Nat
    BY <2>1
  <2>3. PICK p \in Nat, q \in Nat, x \in Int : p = b * u /\ q = c * u /\ x = a * u
    BY <2>2
  <2>4. x = p + u + q /\ 2 * (x - e) <= u /\ -u < 2 * (p - e)
    BY <1>1, <2>2, <2>3
  <2> QED
    BY <2>4
<1>2. ~(m < k) /\ ~(k < m)
  BY <1>1
<1> QED
  BY <1>2

ScoresInv ==
  /\ texts \in Seq(ScoreTexts)
  /\ scores \in Seq(Int)
  /\ Len(scores) <= Len(texts)
  /\ \A n \in 1..Len(scores) : Readable(texts[n]) /\ scores[n] = Signed(texts[n])
  /\ refused => Len(scores) < Len(texts) /\ ~Readable(texts[Len(scores) + 1])

LEMMA SignedIsNumber ==
  ASSUME NEW numeral \in ScoreTexts, IsNumber(numeral)
  PROVE  /\ Signed(numeral) \in Int
         /\ AbsoluteValue(Signed(numeral)) = Magnitude(numeral)
         /\ Signed(numeral) # 0 => (Signed(numeral) < 0 <=> numeral.negative)
<1>1. PICK m \in Nat : m = Magnitude(numeral)
  BY MagnitudeIsNearest
<1>2. numeral.negative \in BOOLEAN
  BY DEF ScoreTexts
<1>3. Signed(numeral) = IF numeral.negative THEN -m ELSE m
  BY <1>1, Zenon DEF Signed
<1>4. CASE numeral.negative
  BY <1>1, <1>3, <1>4 DEF AbsoluteValue
<1>5. CASE ~numeral.negative
  BY <1>1, <1>3, <1>5 DEF AbsoluteValue
<1> QED
  BY <1>4, <1>5

LEMMA ScoresStart == ScoresInit => ScoresInv
<1> SUFFICES ASSUME ScoresInit PROVE ScoresInv
  OBVIOUS
<1>1. texts \in Seq(ScoreTexts) /\ scores = <<>> /\ refused = FALSE
  BY FeedAssumption DEF ScoresInit
<1>2. Len(texts) \in Nat /\ Len(scores) = 0 /\ scores \in Seq(Int)
  BY <1>1, LenProperties
<1> QED
  BY <1>1, <1>2 DEF ScoresInv

LEMMA ScoresGoOn == ScoresInv /\ [ScoresNext]_reading => ScoresInv'
<1> SUFFICES ASSUME ScoresInv, [ScoresNext]_reading PROVE ScoresInv'
  OBVIOUS
<1> DEFINE N == Len(scores)
<1>0. /\ texts \in Seq(ScoreTexts) /\ scores \in Seq(Int) /\ N \in Nat /\ Len(texts) \in Nat
      /\ N <= Len(texts)
      /\ \A n \in 1..N : Readable(texts[n]) /\ scores[n] = Signed(texts[n])
  BY LenProperties DEF ScoresInv
<1>1. CASE ReadText
  <2> DEFINE numeral == texts[N + 1]
  <2>1. /\ N < Len(texts) /\ Readable(numeral) /\ scores' = Append(scores, Signed(numeral))
        /\ texts' = texts /\ ~refused'
    BY <1>1 DEF ReadText, Coming
  <2>2. numeral \in ScoreTexts /\ IsNumber(numeral)
    <3>1. numeral \in ScoreTexts
      BY <1>0, <2>1, LenProperties
    <3> QED
      BY <2>1, <3>1, Zenon DEF Readable
  <2>3. Signed(numeral) \in Int
    BY <2>2, SignedIsNumber
  <2>4. scores' \in Seq(Int) /\ Len(scores') = N + 1 /\ scores'[N + 1] = Signed(numeral)
        /\ \A n \in 1..N : scores'[n] = scores[n]
    BY <1>0, <2>1, <2>3, AppendProperties
  <2>5. ASSUME NEW n \in 1..(N + 1)
        PROVE  Readable(texts[n]) /\ scores'[n] = Signed(texts[n])
    <3>1. n = N + 1 \/ n \in 1..N
      BY <1>0
    <3> QED
      BY <1>0, <2>1, <2>4, <3>1
  <2> QED
    BY <1>0, <2>1, <2>4, <2>5 DEF ScoresInv
<1>2. CASE RefuseText
  <2>1. /\ N < Len(texts) /\ ~Readable(texts[N + 1])
        /\ scores' = scores /\ texts' = texts
    BY <1>2, Zenon DEF RefuseText, Coming
  <2> QED
    BY <1>0, <2>1 DEF ScoresInv
<1>3. CASE Exhausted \/ UNCHANGED reading
  <2>1. texts' = texts /\ scores' = scores /\ refused' = refused
    BY <1>3 DEF Exhausted, reading
  <2> QED
    BY <2>1, Zenon DEF ScoresInv
<1> QED
  BY <1>1, <1>2, <1>3 DEF ScoresNext

LEMMA NearestMeansRead ==
  ASSUME NEW numeral \in ScoreTexts, IsNumber(numeral), NEW score \in Int
  PROVE  IsNearest(score, numeral) <=>
           /\ score # 0 => (score < 0 <=> numeral.negative)
           /\ AbsoluteValue(score) = Magnitude(numeral)
<1>1. PICK m \in Nat, e \in Nat, u \in Nat \ {0} :
        m = Magnitude(numeral) /\ e = Exact(numeral) /\ u = Unit(numeral)
        /\ -u < 2 * (m * u - e) /\ 2 * (m * u - e) <= u
  BY MagnitudeIsNearest
<1>2. PICK k \in Nat : k = AbsoluteValue(score)
  BY DEF AbsoluteValue
<1>3. IsNearest(score, numeral) <=>
        /\ score # 0 => (score < 0 <=> numeral.negative)
        /\ -u < 2 * (k * u - e) /\ 2 * (k * u - e) <= u
  <2>1. IsNearest(score, numeral) <=>
          /\ score # 0 => (score < 0 <=> numeral.negative)
          /\ -Unit(numeral) < 2 * (AbsoluteValue(score) * Unit(numeral) - Exact(numeral))
          /\ 2 * (AbsoluteValue(score) * Unit(numeral) - Exact(numeral)) <= Unit(numeral)
    BY Zenon DEF IsNearest, Unit, Exact
  <2> QED
    BY <1>1, <1>2, <2>1
<1>4. -u < 2 * (k * u - e) /\ 2 * (k * u - e) <= u => k = m
  BY <1>1, NearestIsOne
<1> QED
  BY <1>1, <1>2, <1>3, <1>4

(***************************************************************************)
(* The inductive invariant of reading: every score was read from its text, *)
(* and a refused text cannot be read.                                      *)
(***************************************************************************)
THEOREM ScoresInvariant == ScoresSpec => []ScoresInv
BY ScoresStart, ScoresGoOn, PTL DEF ScoresSpec

LEMMA ScoresKnown ==
  ASSUME ScoresInv
  PROVE  /\ Len(scores) \in Nat /\ DOMAIN scores = 1..Len(scores) /\ scores \in Seq(Int)
         /\ \A n \in 1..Len(scores) :
              /\ texts[n] \in ScoreTexts /\ Readable(texts[n]) /\ IsNumber(texts[n])
              /\ scores[n] = Signed(texts[n]) /\ scores[n] \in Int /\ FitsNarrow(scores[n])
<1>1. /\ Len(scores) \in Nat /\ DOMAIN scores = 1..Len(scores) /\ scores \in Seq(Int)
      /\ texts \in Seq(ScoreTexts) /\ Len(texts) \in Nat /\ Len(scores) <= Len(texts)
  BY LenProperties DEF ScoresInv
<1>2. \A n \in 1..Len(scores) : Readable(texts[n]) /\ scores[n] = Signed(texts[n])
  BY Zenon DEF ScoresInv
<1>3. \A n \in 1..Len(scores) : texts[n] \in ScoreTexts /\ scores[n] \in Int
  BY <1>1, LenProperties
<1> QED
  BY <1>1, <1>2, <1>3, Zenon DEF Readable

(***************************************************************************)
(* For every scale and widths, a score is the number of units nearest to   *)
(* its text, and a number is refused only when no i64 is nearest to it     *)
(* (event.rs:561-632).                                                     *)
(***************************************************************************)
THEOREM ReadingIsNearest == ScoresSpec => []ScoresAreNearest
<1>1. ScoresInv => ScoresAreNearest
  <2> SUFFICES ASSUME ScoresInv PROVE ScoresAreNearest
    OBVIOUS
  <2>1. ASSUME NEW n \in DOMAIN scores
        PROVE  IsNearest(scores[n], texts[n])
    <3>1. /\ texts[n] \in ScoreTexts /\ IsNumber(texts[n]) /\ scores[n] = Signed(texts[n])
          /\ scores[n] \in Int
      BY <2>1, ScoresKnown
    <3> QED
      BY <3>1, SignedIsNumber, NearestMeansRead
  <2>2. ASSUME refused, IsNumber(texts[Len(scores) + 1]),
               NEW score \in (-NarrowMax - 1)..NarrowMax, IsNearest(score, texts[Len(scores) + 1])
        PROVE  FALSE
    <3>1. PICK numeral : numeral = texts[Len(scores) + 1]
      OBVIOUS
    <3>2. numeral \in ScoreTexts /\ ~Readable(numeral) /\ IsNumber(numeral) /\ IsNearest(score, numeral)
      BY <2>2, <3>1, LenProperties DEF ScoresInv
    <3>3. /\ NarrowMax \in Nat /\ WideMax \in Nat /\ NarrowMax < WideMax /\ score \in Int
          /\ -NarrowMax - 1 <= score /\ score <= NarrowMax
      BY ScaleIsTen
    <3>4. /\ score # 0 => (score < 0 <=> numeral.negative)
          /\ AbsoluteValue(score) = Magnitude(numeral)
      BY <3>2, <3>3, NearestMeansRead
    <3>5. /\ Signed(numeral) \in Int /\ AbsoluteValue(Signed(numeral)) = Magnitude(numeral)
          /\ Signed(numeral) # 0 => (Signed(numeral) < 0 <=> numeral.negative)
      BY <3>2, SignedIsNumber
    <3>6. Signed(numeral) = score
      BY <3>3, <3>4, <3>5 DEF AbsoluteValue
    <3>7. FitsNarrow(Signed(numeral)) /\ FitsWide(Magnitude(numeral))
      BY <3>3, <3>4, <3>6 DEF FitsNarrow, FitsWide, AbsoluteValue
    <3> QED
      BY <3>2, <3>7, Zenon DEF Readable
  <2> QED
    BY <2>1, <2>2, Zenon DEF ScoresAreNearest
<1> QED
  BY <1>1, ScoresInvariant, PTL

LEMMA DivideOnce ==
  ASSUME NEW y \in Nat \ {0}, NEW a \in Nat, NEW r \in Nat, r < y
  PROVE  (y * a + r) \div y = a /\ (y * a + r) % y = r
<1>1. PICK x \in Nat : x = y * a + r
  OBVIOUS
<1>2. PICK q \in Nat, s \in Nat : q = x \div y /\ s = x % y /\ x = y * q + s /\ s < y
  <2>1. x = y * (x \div y) + (x % y) /\ x \div y \in Nat /\ x % y \in 0..(y - 1)
    OBVIOUS
  <2>2. x % y \in Nat /\ x % y < y
    BY <2>1
  <2> QED
    BY <2>1, <2>2
<1>3. ASSUME NEW b \in Nat, NEW c \in Nat, NEW t \in Nat, NEW u \in Nat,
             b < c, y * b + t = y * c + u, t < y
      PROVE  FALSE
  <2>1. PICK g \in Nat : c = b + 1 + g
    <3>1. c - b - 1 \in Nat /\ c = b + 1 + (c - b - 1)
      BY <1>3
    <3> QED
      BY <3>1
  <2>2. y * c = y * b + y + y * g /\ y * g \in Nat /\ y * b \in Nat
    BY <2>1
  <2>3. PICK i \in Nat, j \in Nat, k \in Nat : i = y * b /\ j = y * g /\ k = y * c
    BY <2>2
  <2>4. k = i + y + j /\ i + t = k + u /\ t < y
    BY <1>3, <2>2, <2>3
  <2> QED
    BY <2>4
<1>4. ~(a < q)
  BY <1>1, <1>2, <1>3
<1>5. ~(q < a)
  BY <1>1, <1>2, <1>3
<1>6. q = a
  BY <1>4, <1>5
<1>7. PICK p \in Nat : p = y * a
  OBVIOUS
<1>8. p + r = p + s
  BY <1>1, <1>2, <1>6, <1>7
<1>9. r = s
  BY <1>8
<1> QED
  BY <1>1, <1>2, <1>6, <1>9

LEMMA DivideTwice ==
  ASSUME NEW x \in Nat, NEW t \in Nat \ {0}
  PROVE  /\ x \div t \in Nat /\ (x \div t) % 10 \in 0..9
         /\ x \div t = 10 * (x \div (10 * t)) + ((x \div t) % 10)
<1>1. PICK q \in Nat, r \in Nat : q = x \div t /\ x = t * q + r /\ r < t
  <2>1. x = t * (x \div t) + (x % t) /\ x \div t \in Nat /\ x % t \in 0..(t - 1)
    OBVIOUS
  <2>2. x % t \in Nat /\ x % t < t
    BY <2>1
  <2> QED
    BY <2>1, <2>2
<1>2. PICK a \in Nat, b \in 0..9 : q = 10 * a + b /\ b = q % 10
  <2>1. q \div 10 \in Nat /\ q % 10 \in 0..9 /\ q = 10 * (q \div 10) + (q % 10)
    OBVIOUS
  <2> QED
    BY <2>1
<1>3. x = (10 * t) * a + (t * b + r)
  BY <1>1, <1>2
<1>4. t * b + r \in Nat /\ t * b + r < 10 * t
  <2>1. b = 0 \/ b = 1 \/ b = 2 \/ b = 3 \/ b = 4 \/ b = 5 \/ b = 6 \/ b = 7 \/ b = 8 \/ b = 9
    OBVIOUS
  <2> QED
    BY <1>1, <2>1
<1>5. x \div (10 * t) = a
  <2>1. PICK y \in Nat \ {0}, s \in Nat : y = 10 * t /\ s = t * b + r
    BY <1>4
  <2>2. (y * a + s) \div y = a
    BY <1>4, <2>1, DivideOnce
  <2> QED
    BY <1>3, <2>1, <2>2
<1>6. (x \div t) % 10 = b
  BY <1>1, <1>2
<1>7. PICK c \in Nat : c = x \div (10 * t) /\ c = a
  BY <1>5
<1>8. q = 10 * c + b
  BY <1>2, <1>7
<1>9. x \div t = 10 * (x \div (10 * t)) + ((x \div t) % 10)
  BY <1>1, <1>6, <1>7, <1>8, Zenon
<1> QED
  BY <1>1, <1>2, <1>6, <1>9, Zenon

\* The digits of a number, up to a power of ten above it.
LEMMA DigitsOfNumber ==
  ASSUME NEW N \in Nat, NEW x \in Nat, x < TenTo(N),
         NEW d, Len(d) = N, \A n \in 1..N : d[n] = DigitAt(x, N - n)
  PROVE  DigitsValue(d) = x /\ \A n \in 1..N : d[n] \in 0..9
<1> DEFINE v == Values(d)
           P == { n \in 0..N : v[n] = x \div TenTo(N - n) }
<1>1. \A k \in Nat : /\ TenTo(k) \in Nat \ {0}
                     /\ x \div TenTo(k) \in Nat /\ DigitAt(x, k) \in 0..9
                     /\ x \div TenTo(k) = 10 * (x \div TenTo(k + 1)) + DigitAt(x, k)
  <2> TAKE k \in Nat
  <2>1. PICK t \in Nat \ {0} : t = TenTo(k) /\ TenTo(k + 1) = 10 * t
    BY TensGoOn
  <2> QED
    BY <2>1, DivideTwice DEF DigitAt
<1>2. \A n \in 1..N : N - n \in Nat /\ d[n] \in 0..9 /\ d[n] \in Int
  <2> TAKE n \in 1..N
  <2>1. PICK k \in Nat : k = N - n
    <3>1. N - n \in Nat
      OBVIOUS
    <3> QED
      BY <3>1
  <2>2. d[n] = DigitAt(x, k) /\ DigitAt(x, k) \in 0..9
    BY <1>1, <2>1
  <2>3. d[n] \in 0..9
    BY <2>2, Zenon
  <2> QED
    BY <2>1, <2>3
<1>3. /\ v[0] = 0 /\ \A n \in 1..N : v[n] = 10 * v[n - 1] + d[n]
      /\ DigitsValue(d) = v[N]
  BY <1>2, ValuesGoOn
<1> HIDE DEF v
<1>4. 0 \in P
  <2>1. PICK t \in Nat \ {0} : t = TenTo(N)
    BY <1>1
  <2>2. x \div t = 0
    BY <2>1
  <2>3. N - 0 = N
    OBVIOUS
  <2> QED
    BY <1>3, <2>1, <2>2, <2>3
<1>5. ASSUME NEW n \in 1..N, n - 1 \in P
      PROVE  n \in P
  <2>1. N - n \in Nat /\ N - n + 1 = N - (n - 1) /\ n \in 0..N
    OBVIOUS
  <2>2. v[n - 1] = x \div TenTo(N - (n - 1))
    BY <1>5
  <2>3. v[n] = 10 * (x \div TenTo(N - n + 1)) + DigitAt(x, N - n)
    BY <1>3, <2>1, <2>2
  <2>4. v[n] = x \div TenTo(N - n)
    BY <1>1, <2>1, <2>3
  <2> QED
    BY <2>1, <2>4
<1> HIDE DEF P
<1>6. \A n \in 0..N : n \in P
  BY <1>4, <1>5, UpTo
<1>7. v[N] = x \div TenTo(N - N)
  BY <1>6 DEF P
<1>8. TenTo(N - N) = 1
  BY TensGoOn
<1>9. x \div 1 = x
  OBVIOUS
<1> QED
  BY <1>2, <1>3, <1>7, <1>8, <1>9

LEMMA WholeReadsBack ==
  ASSUME NEW x \in Nat
  PROVE  /\ DigitsValue(WholeDigits(x)) = x
         /\ Len(WholeDigits(x)) \in Nat \ {0} /\ DOMAIN WholeDigits(x) = 1..Len(WholeDigits(x))
         /\ \A n \in DOMAIN WholeDigits(x) : WholeDigits(x)[n] \in 0..9
<1> DEFINE Enough(k) == x < TenTo(k) /\ \A j \in 1..(k - 1) : x >= TenTo(j)
           c == CHOOSE k \in 1..(x + 1) : Enough(k)
           K == { k \in 1..(x + 1) : x < TenTo(k) }
<1>1. \E k \in 1..(x + 1) : Enough(k)
  <2>1. x + 1 \in K
    <3>1. PICK y \in Nat : y = x + 1
      OBVIOUS
    <3>2. y < TenTo(y) /\ TenTo(y) \in Nat
      BY TensOutgrow, TensGoOn
    <3>3. x < TenTo(y)
      BY <3>1, <3>2
    <3> QED
      BY <3>1, <3>3
  <2>2. \A k \in K : k \in Nat
    OBVIOUS
  <2>3. PICK k \in K : \A j \in K : k <= j
    <3> HIDE DEF K
    <3> QED
      BY <2>1, <2>2, LeastNatural
  <2>4. ASSUME NEW j \in 1..(k - 1)
        PROVE  x >= TenTo(j)
    <3>1. j \in 1..(x + 1) /\ ~(k <= j) /\ j \in Nat
      BY <2>3
    <3>2. ~(x < TenTo(j)) /\ TenTo(j) \in Nat
      BY <2>3, <3>1, TensGoOn
    <3> QED
      BY <3>2
  <2>5. Enough(k)
    BY <2>3, <2>4
  <2> QED
    BY <2>5
<1>2. c \in 1..(x + 1) /\ x < TenTo(c)
  <2>1. c \in 1..(x + 1) /\ Enough(c)
    <3> HIDE DEF Enough
    <3> QED
      BY <1>1, Zenon
  <2> QED
    BY <2>1
<1>3. WholeDigits(x) = [n \in 1..c |-> DigitAt(x, c - n)]
  BY Zenon DEF WholeDigits
<1> HIDE DEF c
<1>4. PICK d : d = WholeDigits(x)
  OBVIOUS
<1>5. c \in Nat \ {0}
  BY <1>2
<1>6. Len(d) = c /\ DOMAIN d = 1..c /\ \A n \in 1..c : d[n] = DigitAt(x, c - n)
  BY <1>3, <1>4, <1>5
<1>7. DigitsValue(d) = x /\ \A n \in 1..c : d[n] \in 0..9
  BY <1>2, <1>5, <1>6, DigitsOfNumber
<1> QED
  BY <1>4, <1>5, <1>6, <1>7

\* Only zeros are cut from the end.
LEMMA ZerosAreCut ==
  ASSUME NEW N \in Nat, NEW d \in Seq(0..9), Len(d) = N
  PROVE  \E k \in 0..N :
           /\ Len(WithoutTrailingZeros(d)) = k /\ DOMAIN WithoutTrailingZeros(d) = 1..k
           /\ \A n \in 1..k : WithoutTrailingZeros(d)[n] = d[n]
           /\ \A n \in 1..N : ~(n <= k) => d[n] = 0
<1> DEFINE I == { i \in 1..N : d[i] # 0 }
           k == IF I # {} THEN CHOOSE x \in I : \A y \in I : x >= y ELSE 0
<1>1. WithoutTrailingZeros(d) = SubSeq(d, 1, k)
  BY DEF WithoutTrailingZeros, SelectLastInSeq, Max
<1>2. k \in 0..N /\ \A n \in 1..N : ~(n <= k) => d[n] = 0
  <2>1. CASE I = {}
    BY <2>1
  <2>2. CASE I # {}
    <3>1. \E x \in I : \A y \in I : x >= y
      <4> DEFINE J == { j \in 0..N : \E i \in I : j = N - i }
      <4>1. J # {}
        <5>1. PICK i \in I : TRUE
          BY <2>2
        <5>2. N - i \in J
          OBVIOUS
        <5> QED
          BY <5>2
      <4>2. \A j \in J : j \in Nat
        OBVIOUS
      <4>3. PICK j \in J : \A h \in J : j <= h
        <5> HIDE DEF J
        <5> QED
          BY <4>1, <4>2, LeastNatural
      <4>4. PICK x \in I : j = N - x
        BY <4>3
      <4>5. ASSUME NEW y \in I
            PROVE  x >= y
        <5>1. N - y \in J
          OBVIOUS
        <5>2. j <= N - y
          BY <4>3, <5>1
        <5> QED
          BY <4>4, <5>2
      <4> QED
        BY <4>5
    <3>2. k \in I /\ \A y \in I : k >= y
      <4> HIDE DEF I
      <4> QED
        BY <2>2, <3>1, Zenon
    <3> QED
      BY <3>2, SMTT(30)
  <2> QED
    BY <2>1, <2>2
<1> HIDE DEF k
<1>3. /\ Len(SubSeq(d, 1, k)) = k /\ DOMAIN SubSeq(d, 1, k) = 1..k
      /\ \A n \in 1..k : SubSeq(d, 1, k)[n] = d[n]
  BY <1>2
<1> QED
  BY <1>1, <1>2, <1>3, Zenon

\* The fraction read back from its shown digits.
LEMMA FractionReadsBack ==
  ASSUME NEW x \in Nat, x < FixedScale
  PROVE  /\ DigitsValue(KeptDigits(Fraction(x))) = x
         /\ ~RoundsUp(Fraction(x))
         /\ \A n \in DOMAIN Fraction(x) : Fraction(x)[n] \in 0..9
<1> DEFINE D == ScaleDigits
           d == [n \in 1..D |-> DigitAt(x, D - n)]
<1>1. D \in Nat /\ FixedScale = TenTo(D)
  BY ScaleIsTen
<1>2. Len(d) = D /\ \A n \in 1..D : d[n] = DigitAt(x, D - n)
  BY <1>1
<1>3. DigitsValue(d) = x /\ \A n \in 1..D : d[n] \in 0..9
  <2> HIDE DEF d
  <2> QED
    BY <1>1, <1>2, DigitsOfNumber
<1>4. d \in Seq(0..9)
  <2>1. \A n \in 1..D : DigitAt(x, D - n) \in 0..9
    BY <1>2, <1>3, Zenon
  <2> QED
    BY <1>1, <2>1
<1>5. Fraction(x) = WithoutTrailingZeros(d)
  BY Zenon DEF Fraction
<1>6. d = [n \in 1..D |-> d[n]]
  BY <1>2
<1> HIDE DEF d
<1>7. PICK k \in 0..D :
        /\ Len(Fraction(x)) = k /\ DOMAIN Fraction(x) = 1..k
        /\ \A n \in 1..k : Fraction(x)[n] = d[n]
        /\ \A n \in 1..D : ~(n <= k) => d[n] = 0
  BY <1>1, <1>2, <1>4, <1>5, ZerosAreCut
<1>8. KeptDigits(Fraction(x)) = d
  <2>1. \A n \in 1..D : d[n] = IF n <= Len(Fraction(x)) THEN Fraction(x)[n] ELSE 0
    <3> TAKE n \in 1..D
    <3>1. CASE n <= k
      <4>1. n \in 1..k
        BY <1>7, <3>1
      <4> QED
        BY <1>7, <3>1, <4>1, Zenon
    <3>2. CASE ~(n <= k)
      BY <1>7, <3>2, Zenon
    <3> QED
      BY <3>1, <3>2
  <2> DEFINE f == [n \in 1..D |-> IF n <= Len(Fraction(x)) THEN Fraction(x)[n] ELSE 0]
  <2>2. f = [n \in 1..D |-> d[n]]
    BY <2>1, Zenon
  <2>3. KeptDigits(Fraction(x)) = f
    BY Zenon DEF KeptDigits
  <2> QED
    BY <1>6, <2>2, <2>3, Zenon
<1>9. ~RoundsUp(Fraction(x))
  BY <1>1, <1>7 DEF RoundsUp
<1>10. \A n \in DOMAIN Fraction(x) : Fraction(x)[n] \in 0..9
  <2> TAKE n \in DOMAIN Fraction(x)
  <2>1. n \in 1..k /\ n \in 1..D
    BY <1>1, <1>7
  <2> QED
    BY <1>3, <1>7, <2>1, Zenon
<1> QED
  BY <1>3, <1>8, <1>9, <1>10, Zenon

LEMMA ShownReadsBack ==
  ASSUME NEW score \in Int, FitsNarrow(score)
  PROVE  Readable(Shown(score)) /\ Signed(Shown(score)) = score
<1>1. PICK s \in Nat \ {0} : s = FixedScale
  BY ScaleIsTen
<1>2. PICK m \in Nat : m = ShownMagnitude(score) /\ m = AbsoluteValue(score)
  BY DEF ShownMagnitude, AbsoluteValue
<1>3. PICK x \in Nat, y \in Nat : x = m \div s /\ y = m % s /\ m = x * s + y /\ y < s
  <2>1. m = s * (m \div s) + (m % s) /\ m \div s \in Nat /\ m % s \in 0..(s - 1)
    OBVIOUS
  <2>2. m % s \in Nat /\ m % s < s
    BY <2>1
  <2> QED
    BY <2>1, <2>2
<1> DEFINE shown == Shown(score)
<1>4. shown.negative = (score < 0) /\ shown.whole = WholeDigits(x) /\ shown.fraction = Fraction(y)
  BY <1>1, <1>2, <1>3 DEF Shown
<1> HIDE DEF shown
<1>5. /\ DigitsValue(WholeDigits(x)) = x
      /\ Len(WholeDigits(x)) \in Nat \ {0}
      /\ \A n \in DOMAIN WholeDigits(x) : WholeDigits(x)[n] \in 0..9
  BY WholeReadsBack
<1>6. /\ DigitsValue(KeptDigits(Fraction(y))) = y
      /\ ~RoundsUp(Fraction(y))
      /\ \A n \in DOMAIN Fraction(y) : Fraction(y)[n] \in 0..9
  BY <1>1, <1>3, FractionReadsBack
<1>7. IsNumber(shown)
  <2>1. shown.whole # <<>>
    <3>1. PICK w : w = WholeDigits(x)
      OBVIOUS
    <3>2. Len(w) # 0
      BY <1>5, <3>1
    <3>3. w # <<>>
      BY <3>2
    <3> QED
      BY <1>4, <3>1, <3>3
  <2>2. \A n \in DOMAIN shown.whole : shown.whole[n] \in Digits
    BY <1>4, <1>5, Zenon DEF Digits
  <2>3. \A n \in DOMAIN shown.fraction : shown.fraction[n] \in Digits
    BY <1>4, <1>6, Zenon DEF Digits
  <2> QED
    BY <2>1, <2>2, <2>3, Zenon DEF IsNumber
<1>8. Magnitude(shown) = m
  <2>1. Magnitude(shown) = x * s + y + IF RoundsUp(Fraction(y)) THEN 1 ELSE 0
    BY <1>1, <1>4, <1>5, <1>6, Zenon DEF Magnitude
  <2>2. (IF RoundsUp(Fraction(y)) THEN 1 ELSE 0) = 0
    BY <1>6
  <2>3. x * s + y + 0 = m
    BY <1>3
  <2> QED
    BY <2>1, <2>2, <2>3, Zenon
<1>9. Signed(shown) = score
  <2>1. Signed(shown) = IF score < 0 THEN -m ELSE m
    BY <1>4, <1>8, Zenon DEF Signed
  <2> QED
    BY <1>2, <2>1 DEF AbsoluteValue
<1>10. FitsWide(m)
  BY <1>2, ScaleIsTen DEF FitsWide, FitsNarrow, AbsoluteValue
<1> QED
  BY <1>7, <1>8, <1>9, <1>10, Zenon DEF Readable, shown

(***************************************************************************)
(* For every scale and widths, the text a score is shown as is read back   *)
(* as the same score, the least i64 included (event.rs:180-201, 561-632).  *)
(***************************************************************************)
THEOREM ShowingLosesNothing == ScoresSpec => []ShownScoresReadBack
<1>1. ScoresInv => ShownScoresReadBack
  <2> SUFFICES ASSUME ScoresInv, NEW n \in DOMAIN scores
               PROVE  Readable(Shown(scores[n])) /\ Signed(Shown(scores[n])) = scores[n]
    BY Zenon DEF ShownScoresReadBack
  <2>1. scores[n] \in Int /\ FitsNarrow(scores[n])
    BY ScoresKnown
  <2> QED
    BY <2>1, ShownReadsBack
<1> QED
  BY <1>1, ScoresInvariant, PTL

\* Truncation keeps the order of quotients.
LEMMA TruncatesAsIs ==
  ASSUME NEW a \in Int, NEW p \in Nat \ {0}
  PROVE  /\ TruncatedDiv(a, p) \in Int
         /\ a >= 0 => \E r \in Nat : /\ TruncatedDiv(a, p) \in Nat /\ r < p
                                     /\ a = p * TruncatedDiv(a, p) + r
         /\ TruncatedDiv(-a, p) = -TruncatedDiv(a, p)
<1>1. ASSUME NEW x \in Nat
      PROVE  x \div p \in Nat /\ \E r \in Nat : r < p /\ x = p * (x \div p) + r
  <2>1. x = p * (x \div p) + (x % p) /\ x \div p \in Nat /\ x % p \in 0..(p - 1)
    OBVIOUS
  <2>2. x % p \in Nat /\ x % p < p
    BY <2>1
  <2> QED
    BY <2>1, <2>2
<1>2. CASE a > 0
  <2>1. PICK b \in Int : b = -a /\ b < 0 /\ -b = a
    BY <1>2
  <2>2. PICK x \in Nat : x = a
    BY <1>2
  <2>3. TruncatedDiv(x, p) = x \div p /\ TruncatedDiv(b, p) = -(x \div p)
    BY <2>1, <2>2 DEF TruncatedDiv
  <2>4. PICK y \in Nat, r \in Nat : y = x \div p /\ r < p /\ x = p * y + r
    BY <1>1
  <2>5. TruncatedDiv(a, p) = y /\ TruncatedDiv(-a, p) = -y
    BY <2>1, <2>2, <2>3, <2>4
  <2>6. a = p * TruncatedDiv(a, p) + r
    BY <2>2, <2>4, <2>5
  <2>7. TruncatedDiv(-a, p) = -TruncatedDiv(a, p)
    BY <2>5
  <2>8. TruncatedDiv(a, p) \in Nat /\ TruncatedDiv(a, p) \in Int
    BY <2>4, <2>5
  <2> QED
    BY <2>4, <2>6, <2>7, <2>8, Zenon
<1>3. CASE a = 0
  <2>1. TruncatedDiv(0, p) = 0 \div p
    BY DEF TruncatedDiv
  <2>2. 0 \div p = 0
    OBVIOUS
  <2>3. -a = 0
    <3>1. a \in Int /\ a >= 0 /\ a <= 0
      BY <1>3
    <3> QED
      BY <3>1
  <2>4. TruncatedDiv(a, p) = 0 /\ TruncatedDiv(-a, p) = 0
    BY <1>3, <2>1, <2>2, <2>3, Zenon
  <2> QED
    BY <1>3, <2>4
<1>4. CASE a < 0
  <2>1. TruncatedDiv(a, p) = -((-a) \div p) /\ TruncatedDiv(-a, p) = (-a) \div p /\ -a \in Nat
    BY <1>4 DEF TruncatedDiv
  <2>2. PICK x \in Nat : x = -a
    BY <2>1
  <2>3. x \div p \in Nat
    BY <1>1
  <2>4. TruncatedDiv(a, p) = -(x \div p) /\ TruncatedDiv(-a, p) = x \div p
    BY <2>1, <2>2
  <2> QED
    BY <1>4, <2>3, <2>4
<1> QED
  BY <1>2, <1>3, <1>4

LEMMA QuotientsKeepOrder ==
  ASSUME NEW a \in Nat, NEW b \in Nat, NEW p \in Nat \ {0}, NEW q \in Nat \ {0}, a * q <= b * p
  PROVE  TruncatedDiv(a, p) <= TruncatedDiv(b, q)
<1>0. a \in Int /\ a >= 0 /\ b \in Int /\ b >= 0
  OBVIOUS
<1>1. PICK x \in Nat, r \in Nat : x = TruncatedDiv(a, p) /\ a = p * x + r /\ r < p
  BY <1>0, TruncatesAsIs
<1>2. PICK y \in Nat, s \in Nat : y = TruncatedDiv(b, q) /\ b = q * y + s /\ s < q
  BY <1>0, TruncatesAsIs
<1>3. ASSUME y < x PROVE FALSE
  <2>1. PICK g \in Nat, h \in Nat : x = y + 1 + g /\ q = s + 1 + h
    <3>1. x - y - 1 \in Nat /\ q - s - 1 \in Nat
      BY <1>2, <1>3
    <3> QED
      BY <3>1
  <2>2. a * q - b * p = q * p * g + r * q + p * (h + 1)
    <3>1. a * q = (p * (y + 1 + g) + r) * q /\ b * p = (q * y + s) * p
      BY <1>1, <1>2, <2>1
    <3>2. q * p = (s + 1 + h) * p
      BY <2>1
    <3>3. PICK c \in Nat : c = q * p /\ c = s * p + p + h * p
      BY <3>2
    <3>4. (p * (y + 1 + g) + r) * q = (q * p) * y + q * p + (q * p) * g + r * q
      OBVIOUS
    <3>5. (q * y + s) * p = (q * p) * y + s * p
      OBVIOUS
    <3>6. PICK i \in Nat, j \in Nat, k \in Nat, l \in Nat, m \in Nat :
            i = c * y /\ j = c * g /\ k = r * q /\ l = s * p /\ m = h * p
      OBVIOUS
    <3>7. a * q = i + c + j + k /\ b * p = i + l /\ c = l + p + m
      BY <3>1, <3>3, <3>4, <3>5, <3>6
    <3>8. a * q - b * p = j + k + (p + m)
      BY <3>7
    <3>9. q * p * g + r * q + p * (h + 1) = j + k + (p + m)
      BY <3>3, <3>6
    <3> QED
      BY <3>8, <3>9
  <2>3. q * p * g \in Nat /\ r * q \in Nat /\ p * (h + 1) \in Nat /\ p * (h + 1) >= p
    OBVIOUS
  <2>4. PICK u \in Nat, v \in Nat, w \in Nat :
          u = q * p * g /\ v = r * q /\ w = p * (h + 1) /\ w >= p
    BY <2>3
  <2>5. PICK c \in Int, d \in Int : c = a * q /\ d = b * p /\ c <= d
    OBVIOUS
  <2>6. c - d = u + v + w
    BY <2>2, <2>4, <2>5
  <2> QED
    BY <2>4, <2>5, <2>6
<1> QED
  BY <1>1, <1>2, <1>3

LEMMA TruncationKeepsOrder ==
  ASSUME NEW a \in Int, NEW b \in Int, NEW p \in Nat \ {0}, NEW q \in Nat \ {0}, a * q <= b * p
  PROVE  TruncatedDiv(a, p) <= TruncatedDiv(b, q)
<1>1. TruncatedDiv(a, p) \in Int /\ TruncatedDiv(b, q) \in Int
  BY TruncatesAsIs
<1>2. CASE a >= 0 /\ b >= 0
  BY <1>2, QuotientsKeepOrder
<1>3. CASE a < 0 /\ b < 0
  <2>1. PICK x \in Nat, y \in Nat : x = -a /\ y = -b
    BY <1>3
  <2>2. y * p <= x * q
    BY <2>1
  <2>3. TruncatedDiv(y, q) <= TruncatedDiv(x, p)
    BY <2>2, QuotientsKeepOrder
  <2>4. TruncatedDiv(x, p) = -TruncatedDiv(a, p) /\ TruncatedDiv(y, q) = -TruncatedDiv(b, q)
    BY <2>1, TruncatesAsIs
  <2> QED
    BY <1>1, <2>3, <2>4
<1>4. CASE a < 0 /\ b >= 0
  <2>1. PICK x \in Nat : x = -a
    BY <1>4
  <2>2. TruncatedDiv(x, p) = -TruncatedDiv(a, p) /\ TruncatedDiv(x, p) \in Nat
    BY <2>1, TruncatesAsIs
  <2>3. TruncatedDiv(b, q) \in Nat
    BY <1>4, TruncatesAsIs
  <2> QED
    BY <1>1, <2>2, <2>3
<1>5. CASE a >= 0 /\ b < 0
  <2>1. a * q >= 0 /\ b * p < 0
    BY <1>5
  <2> QED
    BY <2>1
<1> QED
  BY <1>2, <1>3, <1>4, <1>5

LEMMA TotalsMirrored ==
  ASSUME NEW N \in Nat, NEW s, NEW t, Len(s) = N, Len(t) = N,
         \A n \in 1..N : s[n] \in Int /\ t[n] = -s[n]
  PROVE  Total(s) \in Int /\ Total(t) = -Total(s)
<1> DEFINE u == Sums(s)
           v == Sums(t)
           P == { n \in 0..N : v[n] = -u[n] }
<1>1. /\ u[0] = 0 /\ \A n \in 1..N : u[n] = u[n - 1] + s[n]
      /\ \A n \in 0..N : u[n] \in Int
      /\ Total(s) = u[N]
  BY SumsGoOn
<1>2. /\ v[0] = 0 /\ \A n \in 1..N : v[n] = v[n - 1] + t[n]
      /\ Total(t) = v[N]
  <2>1. \A n \in 1..N : t[n] \in Int
    OBVIOUS
  <2> QED
    BY <2>1, SumsGoOn
<1> HIDE DEF u, v
<1>3. 0 \in P
  BY <1>1, <1>2
<1>4. ASSUME NEW n \in 1..N, n - 1 \in P
      PROVE  n \in P
  <2>1. n \in 0..N /\ n - 1 \in 0..N /\ v[n - 1] = -u[n - 1]
    BY <1>4
  <2>2. PICK x \in Int, y \in Int : x = u[n - 1] /\ y = s[n]
    BY <1>1, <2>1
  <2>3. u[n] = x + y /\ v[n] = -x + -y
    BY <1>1, <1>2, <2>1, <2>2
  <2> QED
    BY <2>1, <2>3
<1> HIDE DEF P
<1>5. \A n \in 0..N : n \in P
  BY <1>3, <1>4, UpTo
<1>6. N \in P
  BY <1>5
<1> QED
  BY <1>1, <1>2, <1>6 DEF P

LEMMA TotalsBounded ==
  ASSUME NEW N \in Nat, NEW s, Len(s) = N, NEW M \in Nat,
         \A n \in 1..N : s[n] \in Int /\ -M <= s[n] /\ s[n] <= M
  PROVE  Total(s) \in Int /\ -(N * M) <= Total(s) /\ Total(s) <= N * M
<1> DEFINE u == Sums(s)
           P == { n \in 0..N : -(n * M) <= u[n] /\ u[n] <= n * M }
<1>1. /\ u[0] = 0 /\ \A n \in 1..N : u[n] = u[n - 1] + s[n]
      /\ \A n \in 0..N : u[n] \in Int
      /\ Total(s) = u[N]
  BY SumsGoOn
<1> HIDE DEF u
<1>2. 0 \in P
  BY <1>1
<1>3. ASSUME NEW n \in 1..N, n - 1 \in P
      PROVE  n \in P
  <2>1. n \in 0..N /\ n - 1 \in 0..N /\ -((n - 1) * M) <= u[n - 1] /\ u[n - 1] <= (n - 1) * M
    BY <1>3
  <2>2. PICK x \in Int, y \in Int, z \in Int : x = u[n - 1] /\ y = s[n] /\ z = (n - 1) * M
    BY <1>1, <2>1
  <2>3. n * M = z + M
    BY <2>2
  <2>4. u[n] = x + y /\ -M <= y /\ y <= M /\ -z <= x /\ x <= z
    BY <1>1, <2>1, <2>2
  <2> QED
    BY <2>1, <2>3, <2>4
<1> HIDE DEF P
<1>4. \A n \in 0..N : n \in P
  BY <1>2, <1>3, UpTo
<1>5. N \in P
  BY <1>4
<1> QED
  BY <1>1, <1>5 DEF P

LEMMA MeansMirrored ==
  ASSUME NEW N \in Nat \ {0}, NEW s, NEW t, Len(s) = N, Len(t) = N,
         \A n \in 1..N : s[n] \in Int /\ t[n] = -s[n] /\ s[n] <= NarrowMax /\ -s[n] <= NarrowMax
  PROVE  MeanScore(s) \in Int /\ MeanScore(t) = -MeanScore(s)
<1>1. PICK M \in Nat : M = NarrowMax
  BY ScaleIsTen
<1>2. \A n \in 1..N : s[n] \in Int /\ -M <= s[n] /\ s[n] <= M
  BY <1>1
<1>3. Total(s) \in Int /\ -(N * M) <= Total(s) /\ Total(s) <= N * M
  BY <1>2, TotalsBounded
<1>4. Total(t) = -Total(s)
  BY TotalsMirrored
<1>5. PICK a \in Int : a = Total(s) /\ -a = Total(t) /\ -(N * M) <= a /\ a <= N * M
  BY <1>3, <1>4
<1>6. PICK x \in Int : x = TruncatedDiv(a, N) /\ TruncatedDiv(-a, N) = -x
  BY TruncatesAsIs
<1>7. TruncatedDiv(M, 1) = M /\ TruncatedDiv(-M, 1) = -M
  <2>1. M \div 1 = M
    OBVIOUS
  <2>2. 1 \in Nat \ {0} /\ M \in Int
    OBVIOUS
  <2>3. TruncatedDiv(M, 1) = M
    BY <2>1 DEF TruncatedDiv
  <2> QED
    BY <2>2, <2>3, TruncatesAsIs
<1>8. x <= M
  <2>1. a * 1 <= M * N /\ 1 \in Nat \ {0} /\ M \in Int
    BY <1>5
  <2>2. TruncatedDiv(a, N) <= TruncatedDiv(M, 1)
    <3>1. PICK one \in Nat \ {0} : one = 1
      OBVIOUS
    <3>2. a * one <= M * N
      BY <2>1, <3>1
    <3>3. TruncatedDiv(a, N) <= TruncatedDiv(M, one)
      BY <2>1, <3>2, TruncationKeepsOrder
    <3> QED
      BY <3>1, <3>3
  <2> QED
    BY <1>6, <1>7, <2>2
<1>9. -M <= x
  <2>1. PICK one \in Nat \ {0}, b \in Int : one = 1 /\ b = -M
    OBVIOUS
  <2>2. b * N <= a * one
    BY <1>5, <2>1
  <2>3. TruncatedDiv(b, one) <= TruncatedDiv(a, N)
    BY <2>2, TruncationKeepsOrder
  <2> QED
    BY <1>6, <1>7, <2>1, <2>3
<1>10. Clamped(x) = x /\ Clamped(-x) = -x
  BY <1>1, <1>8, <1>9 DEF Clamped
<1>11. MeanScore(s) = Clamped(TruncatedDiv(a, N)) /\ MeanScore(t) = Clamped(TruncatedDiv(-a, N))
  BY <1>5, Zenon DEF MeanScore
<1> QED
  BY <1>6, <1>10, <1>11

EndsWith(s, M, k, t) ==
  /\ t \in Seq(Int) /\ Len(t) = k /\ DOMAIN t = 1..k
  /\ \A i \in 1..k : t[i] = s[M - k + i] /\ t[i] \in Int

LEMMA LastOfThem ==
  ASSUME NEW M \in Nat, NEW s \in Seq(Int), Len(s) = M, NEW k \in Nat \ {0}, k <= M,
         NEW t, t = SubSeq(s, M - k + 1, M)
  PROVE  EndsWith(s, M, k, t)
<1>1. PICK m \in Int, n \in Int : m = M - k + 1 /\ n = M
  OBVIOUS
<1>2. \A i \in m..n : s[i] \in Int
  BY <1>1
<1>3. /\ t \in Seq(Int) /\ Len(t) = IF m <= n THEN n - m + 1 ELSE 0
      /\ \A i \in 1..(n - m + 1) : t[i] = s[m + i - 1]
  <2>1. t = SubSeq(s, m, n)
    BY <1>1
  <2> QED
    BY <1>2, <2>1, SubSeqProperties
<1>4. m <= n /\ n - m + 1 = k
  BY <1>1
<1>5. Len(t) = k /\ DOMAIN t = 1..k
  BY <1>3, <1>4
<1>6. ASSUME NEW i \in 1..k
      PROVE  t[i] = s[M - k + i] /\ t[i] \in Int
  <2>1. PICK j \in 1..M : j = m + i - 1 /\ j = M - k + i
    <3>1. m + i - 1 = M - k + i /\ m + i - 1 \in 1..M
      BY <1>1
    <3> QED
      BY <3>1
  <2>2. t[i] = s[j]
    <3>1. i \in 1..(n - m + 1)
      BY <1>4
    <3> QED
      BY <1>3, <2>1, <3>1
  <2> QED
    BY <2>1, <2>2
<1> QED
  BY <1>3, <1>5, <1>6, Zenon DEF EndsWith

\* The newest of the newest are the newest.
LEMMA LastOfLast ==
  ASSUME NEW M \in Nat, NEW s \in Seq(Int), Len(s) = M,
         NEW k \in Nat \ {0}, NEW h \in Nat \ {0}, k <= h, h <= M
  PROVE  SubSeq(SubSeq(s, M - h + 1, M), h - k + 1, h) = SubSeq(s, M - k + 1, M)
<1>1. PICK w : w = SubSeq(s, M - h + 1, M)
  OBVIOUS
<1>2. w \in Seq(Int) /\ Len(w) = h /\ \A i \in 1..h : w[i] = s[M - h + i]
  <2>1. EndsWith(s, M, h, w)
    BY <1>1, LastOfThem
  <2> QED
    BY <2>1 DEF EndsWith
<1>3. PICK t : t = SubSeq(w, h - k + 1, h)
  OBVIOUS
<1>4. t \in Seq(Int) /\ Len(t) = k /\ DOMAIN t = 1..k /\ \A i \in 1..k : t[i] = w[h - k + i]
  <2>1. EndsWith(w, h, k, t)
    BY <1>2, <1>3, LastOfThem
  <2> QED
    BY <2>1 DEF EndsWith
<1>5. k <= M
  OBVIOUS
<1>6. PICK u : u = SubSeq(s, M - k + 1, M)
  OBVIOUS
<1>7. u \in Seq(Int) /\ Len(u) = k /\ DOMAIN u = 1..k /\ \A i \in 1..k : u[i] = s[M - k + i]
  <2>1. EndsWith(s, M, k, u)
    BY <1>5, <1>6, LastOfThem
  <2> QED
    BY <2>1 DEF EndsWith
<1>8. ASSUME NEW i \in 1..k
      PROVE  t[i] = u[i]
  <2>1. PICK j \in 1..h : j = h - k + i
    <3>1. h - k + i \in 1..h
      OBVIOUS
    <3> QED
      BY <3>1
  <2>2. w[j] = s[M - h + j] /\ M - h + j = M - k + i
    BY <1>2, <2>1
  <2> QED
    BY <1>4, <1>7, <2>1, <2>2
<1>9. t = u
  BY <1>4, <1>7, <1>8
<1> QED
  BY <1>1, <1>3, <1>6, <1>9

\* A trend is seen where it is at least the gate, on either side.
LEMMA TrendsMirrored ==
  ASSUME NEW trend \in Int, NEW gate \in Int, NEW minus \in Int, minus = -trend,
         NEW x, x = IF trend > 0 /\ trend >= gate THEN 1
                    ELSE IF trend < 0 /\ trend <= -gate THEN -1 ELSE 0,
         NEW y, y = IF minus > 0 /\ minus >= gate THEN 1
                    ELSE IF minus < 0 /\ minus <= -gate THEN -1 ELSE 0
  PROVE  y = -x
<1>1. CASE trend > 0 /\ trend >= gate
  BY <1>1
<1>2. CASE ~(trend > 0 /\ trend >= gate) /\ trend < 0 /\ trend <= -gate
  BY <1>2
<1>3. CASE ~(trend > 0 /\ trend >= gate) /\ ~(trend < 0 /\ trend <= -gate)
  <2>1. x = 0 /\ y = 0
    BY <1>3
  <2> QED
    BY <2>1
<1> QED
  BY <1>1, <1>2, <1>3

LEMMA ClampingKeepsOrder ==
  ASSUME NEW a \in Int, NEW b \in Int, a <= b
  PROVE  Clamped(a) \in Int /\ Clamped(b) \in Int /\ Clamped(a) <= Clamped(b)
BY ScaleIsTen DEF Clamped

\* What the signal compares: the means and the gate of a window.
SlowMean(w) == MeanScore(w)
FastMean(w) == MeanScore(SubSeq(w, Slow - Fast + 1, Slow))
Gate(w) ==
  Larger(AbsoluteValue(MinTrend),
         TruncatedDiv(MeanAbsoluteDeviation(w, MeanScore(w)), Larger(Divisor, 1)))

LEMMA SignalOfWindow ==
  ASSUME NEW w \in Seq(Int), Len(w) = Slow
  PROVE  /\ SlowMean(w) \in Int /\ FastMean(w) \in Int /\ Gate(w) \in Int
         /\ Momentum(w) = IF FastMean(w) - SlowMean(w) > 0 /\ FastMean(w) - SlowMean(w) >= Gate(w) THEN 1
                          ELSE IF FastMean(w) - SlowMean(w) < 0 /\ FastMean(w) - SlowMean(w) <= -Gate(w)
                               THEN -1 ELSE 0
<1>1. /\ Fast \in Nat \ {0} /\ Slow \in Nat \ {0} /\ Fast <= Slow
      /\ MinTrend \in Int /\ Divisor \in Int /\ NarrowMax \in Nat
  BY SignalAssumption, ScaleIsTen
<1>2. ASSUME NEW N \in Nat \ {0}, NEW s, Len(s) = N, \A n \in 1..N : s[n] \in Int
      PROVE  Total(s) \in Int /\ Clamped(TruncatedDiv(Total(s), N)) \in Int
  <2>1. PICK a \in Int : a = Total(s)
    BY <1>2, SumsGoOn
  <2>2. PICK x \in Int : x = TruncatedDiv(a, N)
    BY TruncatesAsIs
  <2>3. Clamped(x) \in Int
    BY <1>1 DEF Clamped
  <2> QED
    BY <2>1, <2>2, <2>3
<1>3. DOMAIN w = 1..Slow /\ \A n \in 1..Slow : w[n] \in Int
  BY <1>1
<1>4. SlowMean(w) \in Int
  BY <1>1, <1>2, <1>3 DEF SlowMean, MeanScore
<1>5. FastMean(w) \in Int
  <2>1. PICK t : t = SubSeq(w, Slow - Fast + 1, Slow)
    OBVIOUS
  <2>2. Len(t) = Fast /\ \A n \in 1..Fast : t[n] \in Int
    <3>1. EndsWith(w, Slow, Fast, t)
      BY <1>1, <2>1, LastOfThem
    <3> QED
      BY <3>1 DEF EndsWith
  <2>3. MeanScore(t) \in Int
    BY <1>1, <1>2, <2>2 DEF MeanScore
  <2> QED
    BY <2>1, <2>3, Zenon DEF FastMean
<1>6. Gate(w) \in Int
  <2>1. PICK c \in Int : c = MeanScore(w)
    BY <1>4 DEF SlowMean
  <2>2. PICK v : v = [i \in DOMAIN w |-> AbsoluteValue(w[i] - c)]
    OBVIOUS
  <2>3. Len(v) = Slow /\ \A n \in 1..Slow : v[n] \in Int
    BY <1>1, <1>3, <2>2 DEF AbsoluteValue
  <2>4. PICK e \in Int : e = MeanAbsoluteDeviation(w, c)
    <3>1. MeanAbsoluteDeviation(w, c) = Clamped(TruncatedDiv(Total(v), Slow))
      BY <2>2 DEF MeanAbsoluteDeviation
    <3>2. Clamped(TruncatedDiv(Total(v), Slow)) \in Int
      BY <1>1, <1>2, <2>3
    <3> QED
      BY <3>1, <3>2
  <2>5. PICK l \in Nat \ {0} : l = Larger(Divisor, 1)
    BY <1>1 DEF Larger
  <2>6. PICK g \in Int : g = TruncatedDiv(e, l)
    BY TruncatesAsIs
  <2>7. Gate(w) = Larger(AbsoluteValue(MinTrend), g)
    BY <2>1, <2>4, <2>5, <2>6 DEF Gate
  <2>8. AbsoluteValue(MinTrend) \in Int
    BY <1>1 DEF AbsoluteValue
  <2> QED
    BY <2>7, <2>8 DEF Larger
<1>7. Momentum(w) = IF FastMean(w) - SlowMean(w) > 0 /\ FastMean(w) - SlowMean(w) >= Gate(w) THEN 1
                    ELSE IF FastMean(w) - SlowMean(w) < 0 /\ FastMean(w) - SlowMean(w) <= -Gate(w)
                         THEN -1 ELSE 0
  <2>1. ~(Len(w) < Slow)
    BY <1>1
  <2> QED
    BY <2>1 DEF Momentum, MomentumSignal, FastMean, SlowMean, Gate
<1> QED
  BY <1>4, <1>5, <1>6, <1>7, Zenon

LEMMA MirrorsOfWindow ==
  ASSUME NEW w \in Seq(Int), Len(w) = Slow, NEW v, v = [n \in DOMAIN w |-> -w[n]],
         \A n \in 1..Slow : w[n] <= NarrowMax /\ -w[n] <= NarrowMax
  PROVE  Momentum(v) = -Momentum(w)
<1>1. /\ Fast \in Nat \ {0} /\ Slow \in Nat \ {0} /\ Fast <= Slow
      /\ NarrowMax \in Nat /\ Slow \in Nat
  BY SignalAssumption, ScaleIsTen
<1>2. DOMAIN w = 1..Slow /\ \A n \in 1..Slow : w[n] \in Int
  BY <1>1
<1>3. v \in Seq(Int) /\ Len(v) = Slow /\ DOMAIN v = 1..Slow /\ \A n \in 1..Slow : v[n] = -w[n]
  BY <1>1, <1>2
<1>4. SlowMean(w) \in Int /\ SlowMean(v) = -SlowMean(w)
  <2>1. \A n \in 1..Slow : w[n] \in Int /\ v[n] = -w[n] /\ w[n] <= NarrowMax /\ -w[n] <= NarrowMax
    BY <1>2, <1>3
  <2> QED
    BY <1>1, <1>3, <2>1, MeansMirrored DEF SlowMean
<1>5. FastMean(w) \in Int /\ FastMean(v) = -FastMean(w)
  <2>1. PICK s : s = SubSeq(w, Slow - Fast + 1, Slow)
    OBVIOUS
  <2>2. PICK t : t = SubSeq(v, Slow - Fast + 1, Slow)
    OBVIOUS
  <2>3. EndsWith(w, Slow, Fast, s)
    BY <1>1, <2>1, LastOfThem
  <2>4. EndsWith(v, Slow, Fast, t)
    BY <1>1, <1>3, <2>2, LastOfThem
  <2>5. ASSUME NEW n \in 1..Fast
        PROVE  s[n] \in Int /\ t[n] = -s[n] /\ s[n] <= NarrowMax /\ -s[n] <= NarrowMax
    <3>1. PICK m \in 1..Slow : m = Slow - Fast + n
      <4>1. Slow - Fast + n \in 1..Slow
        BY <1>1
      <4> QED
        BY <4>1
    <3>2. s[n] = w[m] /\ t[n] = v[m]
      BY <2>3, <2>4, <3>1 DEF EndsWith
    <3> QED
      BY <1>2, <1>3, <3>2
  <2>6. Len(s) = Fast /\ Len(t) = Fast
    BY <2>3, <2>4 DEF EndsWith
  <2>7. MeanScore(s) \in Int /\ MeanScore(t) = -MeanScore(s)
    BY <1>1, <2>5, <2>6, MeansMirrored
  <2> QED
    BY <2>1, <2>2, <2>7, Zenon DEF FastMean
<1>6. Gate(v) = Gate(w)
  <2>1. PICK c \in Int, d \in Int : c = MeanScore(w) /\ d = MeanScore(v) /\ d = -c
    <3>1. MeanScore(w) \in Int /\ MeanScore(v) = -MeanScore(w)
      BY <1>4, Zenon DEF SlowMean
    <3>2. -MeanScore(w) \in Int
      BY <3>1
    <3> QED
      BY <3>1, <3>2, Zenon
  <2>2. [i \in DOMAIN v |-> AbsoluteValue(v[i] - d)] = [i \in DOMAIN w |-> AbsoluteValue(w[i] - c)]
    <3>1. ASSUME NEW i \in 1..Slow
          PROVE  AbsoluteValue(v[i] - d) = AbsoluteValue(w[i] - c)
      <4>1. PICK x \in Int, y \in Int : x = w[i] /\ y = v[i] /\ y = -x
        BY <1>2, <1>3
      <4>2. PICK p \in Int, q \in Int : p = y - d /\ q = x - c /\ p = -q
        <5>1. y = -x /\ d = -c
          BY <2>1, <4>1
        <5>2. y - d \in Int /\ x - c \in Int /\ y - d = -(x - c)
          BY <5>1
        <5> QED
          BY <5>2
      <4>3. AbsoluteValue(p) = AbsoluteValue(q)
        BY <4>2, SMTT(30) DEF AbsoluteValue
      <4> QED
        BY <4>1, <4>2, <4>3, Zenon
    <3> QED
      BY <1>2, <1>3, <3>1, Zenon
  <2>3. MeanAbsoluteDeviation(v, d) = MeanAbsoluteDeviation(w, c)
    BY <1>3, <2>2, Zenon DEF MeanAbsoluteDeviation
  <2> QED
    BY <2>1, <2>3, Zenon DEF Gate
<1>7. PICK f \in Int, s \in Int, g \in Int :
        /\ f = FastMean(w) /\ s = SlowMean(w) /\ g = Gate(w)
        /\ Momentum(w) = IF f - s > 0 /\ f - s >= g THEN 1
                         ELSE IF f - s < 0 /\ f - s <= -g THEN -1 ELSE 0
  <2>1. FastMean(w) \in Int /\ SlowMean(w) \in Int /\ Gate(w) \in Int
    BY SignalOfWindow
  <2> QED
    BY <2>1, SignalOfWindow
<1>8. PICK a \in Int, b \in Int : a = -f /\ b = -s
  OBVIOUS
<1>9. Momentum(v) = IF a - b > 0 /\ a - b >= g THEN 1
                    ELSE IF a - b < 0 /\ a - b <= -g THEN -1 ELSE 0
  <2>1. FastMean(v) = a /\ SlowMean(v) = b /\ Gate(v) = g
    BY <1>4, <1>5, <1>6, <1>7, <1>8
  <2>2. Momentum(v) = IF FastMean(v) - SlowMean(v) > 0 /\ FastMean(v) - SlowMean(v) >= Gate(v) THEN 1
                      ELSE IF FastMean(v) - SlowMean(v) < 0 /\ FastMean(v) - SlowMean(v) <= -Gate(v)
                           THEN -1 ELSE 0
    BY <1>3, SignalOfWindow
  <2> QED
    BY <2>1, <2>2, Zenon
<1>10. PICK p \in Int, m \in Int : p = f - s /\ m = a - b /\ m = -p
  <2>1. f - s \in Int /\ a - b \in Int /\ a - b = -(f - s)
    BY <1>8
  <2> QED
    BY <2>1
<1> QED
  BY <1>7, <1>9, <1>10, TrendsMirrored

\* The sign of a trend that is seen is the sign of the exact trend.
LEMMA TrendsAreExact ==
  ASSUME NEW w \in Seq(Int), Len(w) = Slow,
         NEW t \in Seq(Int), Len(t) = Fast, t = SubSeq(w, Slow - Fast + 1, Slow),
         NEW signal, signal = Momentum(w), signal # 0,
         NEW trend, trend = Total(t) * Slow - Total(w) * Fast
  PROVE  signal = Signum(trend)
<1>1. Fast \in Nat \ {0} /\ Slow \in Nat \ {0} /\ Fast <= Slow
  BY SignalAssumption
<1>2. PICK F \in Int, S \in Int : F = Total(t) /\ S = Total(w)
  <2>1. Fast \in Nat /\ Slow \in Nat
    BY <1>1
  <2>2. (\A n \in 1..Fast : t[n] \in Int) /\ (\A n \in 1..Slow : w[n] \in Int)
    BY <2>1
  <2>3. ASSUME NEW N \in Nat, NEW s, Len(s) = N, \A n \in 1..N : s[n] \in Int
        PROVE  Total(s) \in Int
    <3>1. Total(s) = Sums(s)[N] /\ \A n \in 0..N : Sums(s)[n] \in Int
      BY <2>3, SumsGoOn
    <3> QED
      BY <3>1
  <2>4. Total(t) \in Int /\ Total(w) \in Int
    BY <2>1, <2>2, <2>3
  <2> QED
    BY <2>4
<1>3. PICK x \in Int, y \in Int : x = TruncatedDiv(F, Fast) /\ y = TruncatedDiv(S, Slow)
  BY <1>1, TruncatesAsIs
<1>4. PICK f \in Int, s \in Int, g \in Int :
        /\ f = FastMean(w) /\ s = SlowMean(w) /\ g = Gate(w)
        /\ signal = IF f - s > 0 /\ f - s >= g THEN 1
                    ELSE IF f - s < 0 /\ f - s <= -g THEN -1 ELSE 0
  <2>1. FastMean(w) \in Int /\ SlowMean(w) \in Int /\ Gate(w) \in Int
    BY SignalOfWindow
  <2> QED
    BY <2>1, SignalOfWindow
<1>5. f = Clamped(x) /\ s = Clamped(y)
  <2>1. f = MeanScore(t)
    BY <1>4, Zenon DEF FastMean
  <2>2. s = MeanScore(w)
    BY <1>4, Zenon DEF SlowMean
  <2> QED
    BY <1>2, <1>3, <2>1, <2>2, Zenon DEF MeanScore
<1>6. PICK e \in Int : e = trend /\ e = F * Slow - S * Fast
  BY <1>1, <1>2
<1>7. CASE f - s > 0 /\ f - s >= g
  <2>1. ASSUME ~(e > 0) PROVE FALSE
    <3>1. F * Slow <= S * Fast
      <4>1. PICK c \in Int, d \in Int : c = F * Slow /\ d = S * Fast
        BY <1>1
      <4>2. c - d <= 0
        BY <1>6, <2>1, <4>1
      <4>3. c <= d
        BY <4>2
      <4> QED
        BY <4>1, <4>3
    <3>2. x <= y
      BY <1>1, <1>3, <3>1, TruncationKeepsOrder
    <3> QED
      BY <1>5, <1>7, <3>2, ClampingKeepsOrder
  <2> QED
    BY <1>4, <1>6, <1>7, <2>1 DEF Signum
<1>8. CASE ~(f - s > 0 /\ f - s >= g) /\ f - s < 0 /\ f - s <= -g
  <2>1. ASSUME ~(e < 0) PROVE FALSE
    <3>1. S * Fast <= F * Slow
      <4>1. PICK c \in Int, d \in Int : c = F * Slow /\ d = S * Fast
        BY <1>1
      <4>2. c - d >= 0
        BY <1>6, <2>1, <4>1
      <4>3. d <= c
        BY <4>2
      <4> QED
        BY <4>1, <4>3
    <3>2. y <= x
      BY <1>1, <1>3, <3>1, TruncationKeepsOrder
    <3> QED
      BY <1>5, <1>8, <3>2, ClampingKeepsOrder
  <2> QED
    BY <1>4, <1>6, <1>8, <2>1 DEF Signum
<1>9. CASE ~(f - s > 0 /\ f - s >= g) /\ ~(f - s < 0 /\ f - s <= -g)
  BY <1>4, <1>9
<1> QED
  BY <1>7, <1>8, <1>9

(***************************************************************************)
(* For every window, gate and widths, the momentum signal points from the  *)
(* exact slow mean to the exact fast mean or is neutral, and mirrored      *)
(* scores give the mirrored signal (state.rs:219-254, 360-391).            *)
(***************************************************************************)
THEOREM MomentumFavoursNeither == ScoresSpec => []MomentumIsFair
<1>1. ScoresInv => MomentumIsFair
  <2> SUFFICES ASSUME ScoresInv, Len(scores) >= Slow,
                      NEW w, w = LastScores(Slow), NEW t, t = LastScores(Fast)
               PROVE  /\ Momentum(w) # 0 => Momentum(w) = Signum(Total(t) * Slow - Total(w) * Fast)
                      /\ (\A n \in DOMAIN w : -w[n] <= NarrowMax)
                         => Momentum([ n \in DOMAIN w |-> -w[n] ]) = -Momentum(w)
    BY Zenon DEF MomentumIsFair
  <2>1. PICK N \in Nat : N = Len(scores) /\ scores \in Seq(Int) /\ Slow <= N
    BY ScoresKnown, SignalAssumption
  <2>2. Fast \in Nat \ {0} /\ Slow \in Nat \ {0} /\ Fast <= Slow /\ Fast <= N
    BY <2>1, SignalAssumption
  <2>3. EndsWith(scores, N, Slow, w)
    <3>1. w = SubSeq(scores, N - Slow + 1, N)
      BY <2>1, Zenon DEF LastScores
    <3> QED
      BY <2>1, <2>2, <3>1, LastOfThem
  <2>4. EndsWith(scores, N, Fast, t) /\ t = SubSeq(w, Slow - Fast + 1, Slow)
    <3>1. t = SubSeq(scores, N - Fast + 1, N)
      BY <2>1, Zenon DEF LastScores
    <3>2. EndsWith(scores, N, Fast, t)
      BY <2>1, <2>2, <3>1, LastOfThem
    <3>3. SubSeq(SubSeq(scores, N - Slow + 1, N), Slow - Fast + 1, Slow) = SubSeq(scores, N - Fast + 1, N)
      BY <2>1, <2>2, LastOfLast
    <3>4. w = SubSeq(scores, N - Slow + 1, N)
      BY <2>1, Zenon DEF LastScores
    <3> QED
      BY <3>1, <3>2, <3>3, <3>4, Zenon
  <2>5. w \in Seq(Int) /\ Len(w) = Slow /\ DOMAIN w = 1..Slow
    BY <2>3, Zenon DEF EndsWith
  <2>6. t \in Seq(Int) /\ Len(t) = Fast
    BY <2>4, Zenon DEF EndsWith
  <2>7. ASSUME NEW n \in 1..Slow
        PROVE  w[n] <= NarrowMax
    <3>1. PICK m \in 1..N : m = N - Slow + n
      <4>1. N - Slow + n \in 1..N
        BY <2>1, <2>2
      <4> QED
        BY <4>1
    <3>2. w[n] = scores[m]
      BY <2>3, <3>1 DEF EndsWith
    <3>3. FitsNarrow(scores[m])
      BY <2>1, ScoresKnown
    <3> QED
      BY <3>2, <3>3 DEF FitsNarrow
  <2>8. Momentum(w) # 0 => Momentum(w) = Signum(Total(t) * Slow - Total(w) * Fast)
    BY <2>4, <2>5, <2>6, TrendsAreExact, ZenonT(30)
  <2>9. (\A n \in DOMAIN w : -w[n] <= NarrowMax)
           => Momentum([ n \in DOMAIN w |-> -w[n] ]) = -Momentum(w)
    <3> SUFFICES ASSUME \A n \in 1..Slow : -w[n] <= NarrowMax,
                        NEW v, v = [ n \in DOMAIN w |-> -w[n] ]
                 PROVE  Momentum(v) = -Momentum(w)
      BY <2>5, Zenon
    <3>1. \A n \in 1..Slow : w[n] <= NarrowMax /\ -w[n] <= NarrowMax
      BY <2>7
    <3> QED
      BY <2>5, <3>1, MirrorsOfWindow, Zenon
  <2> QED
    BY <2>8, <2>9
<1> QED
  BY <1>1, ScoresInvariant, PTL

LEMMA ProductsKeepOrder ==
  ASSUME NEW a \in Nat, NEW b \in Nat, NEW c \in Nat, NEW d \in Nat, a <= b, c <= d
  PROVE  a * c \in Nat /\ b * d \in Nat /\ a * c <= b * d
<1>1. PICK e \in Nat, f \in Nat : b = a + e /\ d = c + f
  <2>1. b - a \in Nat /\ d - c \in Nat /\ b = a + (b - a) /\ d = c + (d - c)
    OBVIOUS
  <2> QED
    BY <2>1
<1>2. b * d = a * c + (a * f + e * c + e * f)
  BY <1>1
<1>3. a * c \in Nat /\ a * f + e * c + e * f \in Nat
  OBVIOUS
<1>4. PICK x \in Nat, y \in Nat : x = a * c /\ y = a * f + e * c + e * f
  BY <1>3
<1> QED
  BY <1>2, <1>4

LEMMA SquaresKeepOrder ==
  ASSUME NEW x \in Int, NEW g \in Nat, -g <= x, x <= g
  PROVE  x * x \in Nat /\ x * x <= g * g
<1>1. PICK a \in Nat : a <= g /\ (a = x \/ a = -x)
  <2>1. CASE x >= 0
    BY <2>1
  <2>2. CASE x < 0
    <3>1. -x \in Nat /\ -x <= g
      BY <2>2
    <3> QED
      BY <3>1
  <2> QED
    BY <2>1, <2>2
<1>2. x * x = a * a
  <2>1. CASE a = x
    BY <2>1
  <2>2. CASE a = -x
    <3>1. x = -a
      BY <2>2
    <3>2. (-a) * (-a) = a * a
      OBVIOUS
    <3> QED
      BY <3>1, <3>2
  <2> QED
    BY <1>1, <2>1, <2>2
<1>3. a * a \in Nat /\ a * a <= g * g
  BY <1>1, ProductsKeepOrder
<1> QED
  BY <1>2, <1>3

Deviates(N, s, q, a, T) ==
  \A n \in 1..N :
    s[n] \in Int /\ q[n] = s[n] * s[n] /\ a[n] = (s[n] * N - T) * (s[n] * N - T)

AddsUpTo(N, q, a, T) == Total(q) \in Int /\ Total(a) = N * (N * Total(q) - T * T)

\* The squared deviations add up to the count times the variance.
LEMMA SpreadIsVariance ==
  ASSUME NEW N \in Nat, NEW s, Len(s) = N, NEW q, Len(q) = N, NEW a, Len(a) = N,
         NEW T \in Int, T = Total(s), Deviates(N, s, q, a, T)
  PROVE  AddsUpTo(N, q, a, T)
<1> DEFINE u == Sums(s)
           v == Sums(q)
           w == Sums(a)
           P == { n \in 0..N : w[n] = N * (N * v[n]) - 2 * (N * (T * u[n])) + n * (T * T) }
<1>1. \A n \in 1..N : s[n] \in Int /\ q[n] \in Int /\ a[n] \in Int
  <2> TAKE n \in 1..N
  <2>1. PICK x \in Int : x = s[n]
    BY DEF Deviates
  <2>2. q[n] = x * x /\ a[n] = (x * N - T) * (x * N - T)
    BY <2>1 DEF Deviates
  <2> QED
    BY <2>1, <2>2
<1>2. /\ u[0] = 0 /\ \A n \in 1..N : u[n] = u[n - 1] + s[n]
      /\ \A n \in 0..N : u[n] \in Int
      /\ T = u[N]
  BY <1>1, SumsGoOn
<1>3. /\ v[0] = 0 /\ \A n \in 1..N : v[n] = v[n - 1] + q[n]
      /\ \A n \in 0..N : v[n] \in Int
      /\ Total(q) = v[N]
  BY <1>1, SumsGoOn
<1>4. /\ w[0] = 0 /\ \A n \in 1..N : w[n] = w[n - 1] + a[n]
      /\ Total(a) = w[N]
  BY <1>1, SumsGoOn
<1> HIDE DEF u, v, w
<1>5. 0 \in P
  <2>1. w[0] = N * (N * v[0]) - 2 * (N * (T * u[0])) + 0 * (T * T)
    BY <1>2, <1>3, <1>4
  <2> QED
    BY <2>1
<1>6. ASSUME NEW n \in 1..N, n - 1 \in P
      PROVE  n \in P
  <2>1. n \in 0..N /\ n - 1 \in 0..N
    OBVIOUS
  <2>2. PICK x \in Int, y \in Int, z \in Int, k \in Int :
          x = s[n] /\ y = u[n - 1] /\ z = v[n - 1] /\ k = n - 1
    <3>1. s[n] \in Int /\ u[n - 1] \in Int /\ v[n - 1] \in Int /\ n - 1 \in Int
      BY <1>1, <1>2, <1>3, <2>1
    <3> QED
      BY <3>1, Zenon
  <2>3. w[n - 1] = N * (N * z) - 2 * (N * (T * y)) + k * (T * T)
    BY <1>6, <2>2
  <2>4. u[n] = y + x /\ v[n] = z + x * x /\ n = k + 1
    BY <1>2, <1>3, <2>2, SMTT(30) DEF Deviates
  <2>5. w[n] = N * (N * z) - 2 * (N * (T * y)) + k * (T * T) + (x * N - T) * (x * N - T)
    BY <1>4, <2>2, <2>3 DEF Deviates
  <2>6. N * (N * z) - 2 * (N * (T * y)) + k * (T * T) + (x * N - T) * (x * N - T)
          = N * (N * (z + x * x)) - 2 * (N * (T * (y + x))) + (k + 1) * (T * T)
    <3>1. (x * N - T) * (x * N - T) = N * (N * (x * x)) - 2 * (N * (T * x)) + T * T
      OBVIOUS
    <3>2. N * (N * (z + x * x)) = N * (N * z) + N * (N * (x * x))
      OBVIOUS
    <3>3. N * (T * (y + x)) = N * (T * y) + N * (T * x)
      OBVIOUS
    <3>4. (k + 1) * (T * T) = k * (T * T) + T * T
      OBVIOUS
    <3>5. PICK b \in Int, c \in Int, d \in Int, e \in Int, f \in Int, g \in Int :
            /\ b = N * (N * (x * x)) /\ c = N * (T * x) /\ d = T * T
            /\ e = N * (N * z) /\ f = N * (T * y) /\ g = k * (T * T)
      OBVIOUS
    <3>6. PICK h \in Int : h = (x * N - T) * (x * N - T)
      OBVIOUS
    <3>7. h = b - 2 * c + d
      BY <3>1, <3>5, <3>6, Zenon
    <3>8. e - 2 * f + g + h = (e + b) - 2 * (f + c) + (g + d)
      BY <3>7
    <3> QED
      BY <3>2, <3>3, <3>4, <3>5, <3>6, <3>8, Zenon
  <2>7. w[n] = N * (N * v[n]) - 2 * (N * (T * u[n])) + n * (T * T)
    BY <2>4, <2>5, <2>6, Zenon
  <2> QED
    BY <2>1, <2>7
<1> HIDE DEF P
<1>7. \A n \in 0..N : n \in P
  BY <1>5, <1>6, UpTo
<1>8. w[N] = N * (N * v[N]) - 2 * (N * (T * u[N])) + N * (T * T)
  BY <1>7 DEF P
<1>9. PICK z \in Int : z = v[N]
  BY <1>3
<1>10. w[N] = N * (N * z) - 2 * (N * (T * T)) + N * (T * T)
  BY <1>2, <1>8, <1>9, Zenon
<1>11. N * (N * z) - 2 * (N * (T * T)) + N * (T * T) = N * (N * z - T * T)
  OBVIOUS
<1> QED
  BY <1>3, <1>4, <1>9, <1>10, <1>11, Zenon DEF AddsUpTo

\* One of them is the furthest from zero.
LEMMA OneIsFurthest ==
  ASSUME NEW N \in Nat \ {0}, NEW s, \A n \in 1..N : s[n] \in Int
  PROVE  \E j \in 1..N : \A i \in 1..N : AbsoluteValue(s[i]) <= AbsoluteValue(s[j])
<1> DEFINE Furthest(n, j) == \A i \in 1..n : AbsoluteValue(s[i]) <= AbsoluteValue(s[j])
           P == { n \in 0..N : n = 0 \/ \E j \in 1..n : Furthest(n, j) }
<1>0. \A n \in 1..N : AbsoluteValue(s[n]) \in Nat
  BY DEF AbsoluteValue
<1>1. 0 \in P
  OBVIOUS
<1>2. ASSUME NEW n \in 1..N, n - 1 \in P
      PROVE  n \in P
  <2>1. CASE n = 1
    <3>1. Furthest(1, 1)
      <4>1. AbsoluteValue(s[1]) \in Nat
        BY <1>0
      <4>2. \A i \in 1..1 : i = 1
        OBVIOUS
      <4> QED
        BY <4>1, <4>2
    <3> QED
      BY <2>1, <3>1
  <2>2. CASE n # 1
    <3>1. PICK j \in 1..(n - 1) : Furthest(n - 1, j)
      BY <1>2, <2>2
    <3>2. AbsoluteValue(s[n]) \in Nat /\ AbsoluteValue(s[j]) \in Nat
      BY <1>0
    <3>3. \A i \in 1..n : i = n \/ i \in 1..(n - 1)
      OBVIOUS
    <3>4. CASE AbsoluteValue(s[n]) <= AbsoluteValue(s[j])
      <4>1. Furthest(n, j)
        BY <3>1, <3>3, <3>4
      <4> QED
        BY <4>1
    <3>5. CASE AbsoluteValue(s[j]) <= AbsoluteValue(s[n])
      <4>1. ASSUME NEW i \in 1..n PROVE AbsoluteValue(s[i]) <= AbsoluteValue(s[n])
        <5>1. AbsoluteValue(s[i]) \in Nat
          BY <1>0
        <5>2. CASE i = n
          BY <3>2, <5>2
        <5>3. CASE i \in 1..(n - 1)
          <6>1. AbsoluteValue(s[i]) <= AbsoluteValue(s[j])
            BY <3>1, <5>3
          <6> QED
            BY <3>2, <3>5, <5>1, <6>1
        <5> QED
          BY <3>3, <5>2, <5>3
      <4>2. Furthest(n, n)
        BY <4>1
      <4> QED
        BY <4>2
    <3> QED
      BY <3>2, <3>4, <3>5
  <2> QED
    BY <2>1, <2>2
<1> HIDE DEF P
<1>3. \A n \in 0..N : n \in P
  BY <1>1, <1>2, UpTo
<1>4. N \in P
  BY <1>3
<1> QED
  BY <1>4 DEF P

LEMMA TotalOfOne ==
  ASSUME NEW s, Len(s) = 1, s[1] \in Int
  PROVE  Total(s) = s[1]
<1>1. PICK one \in Nat : one = 1
  OBVIOUS
<1>2. Len(s) = one /\ \A n \in 1..one : s[n] \in Int
  BY <1>1
<1>3. /\ Sums(s)[0] = 0 /\ \A n \in 1..one : Sums(s)[n] = Sums(s)[n - 1] + s[n]
      /\ Total(s) = Sums(s)[one]
  BY <1>2, SumsGoOn
<1>4. Sums(s)[1] = Sums(s)[0] + s[1]
  <2>1. 1 \in 1..one /\ 1 - 1 = 0
    BY <1>1
  <2> QED
    BY <1>3, <2>1
<1> QED
  BY <1>1, <1>3, <1>4

LEMMA DeviationsBounded ==
  ASSUME NEW N \in Nat \ {0}, NEW s, Len(s) = N, \A n \in 1..N : s[n] \in Int,
         NEW M \in Nat, \A n \in 1..N : AbsoluteValue(s[n]) <= M,
         NEW T \in Int, T = Total(s), NEW g \in Nat, g = 2 * (N * M)
  PROVE  \A n \in 1..N : /\ -g <= s[n] * N /\ s[n] * N <= g
                         /\ -g <= s[n] * N - T /\ s[n] * N - T <= g
<1>1. \A n \in 1..N : s[n] \in Int /\ -M <= s[n] /\ s[n] <= M
  BY DEF AbsoluteValue
<1>2. -(N * M) <= T /\ T <= N * M
  <2>1. N \in Nat
    OBVIOUS
  <2> QED
    BY <1>1, <2>1, TotalsBounded
<1>3. PICK h \in Nat : h = N * M /\ g = 2 * h
  OBVIOUS
<1> SUFFICES ASSUME NEW n \in 1..N
             PROVE  /\ -g <= s[n] * N /\ s[n] * N <= g
                    /\ -g <= s[n] * N - T /\ s[n] * N - T <= g
  OBVIOUS
<1>4. PICK x \in Int : x = s[n] /\ -M <= x /\ x <= M
  BY <1>1
<1>5. PICK y \in Int : y = x * N /\ -h <= y /\ y <= h
  <2>1. PICK e \in Nat, f \in Nat : e = M - x /\ f = M + x
    <3>1. M - x \in Nat /\ M + x \in Nat
      BY <1>4
    <3> QED
      BY <3>1
  <2>2. e * N \in Nat /\ f * N \in Nat /\ e * N = M * N - x * N /\ f * N = M * N + x * N
    BY <2>1
  <2>3. PICK y \in Int : y = x * N
    OBVIOUS
  <2>4. M * N = h
    BY <1>3
  <2>5. h - y >= 0 /\ h + y >= 0
    BY <2>2, <2>3, <2>4
  <2> QED
    BY <2>3, <2>5
<1> QED
  BY <1>2, <1>3, <1>4, <1>5, SMTT(30)

LEMMA PartsOfSpread ==
  ASSUME NEW N \in Nat, NEW a \in Seq(Int), Len(a) = N, NEW G \in Nat,
         \A n \in 1..N : a[n] \in Nat /\ a[n] <= G, NEW n \in 0..N
  PROVE  /\ Total(SubSeq(a, 1, n)) \in Int
         /\ -(N * G) <= Total(SubSeq(a, 1, n)) /\ Total(SubSeq(a, 1, n)) <= N * G
<1>1. PICK b : b = SubSeq(a, 1, n)
  OBVIOUS
<1>2. Len(b) = n /\ \A i \in 1..n : b[i] = a[i]
  BY <1>1
<1>3. \A i \in 1..n : b[i] \in Int /\ -G <= b[i] /\ b[i] <= G
  <2> TAKE i \in 1..n
  <2>1. i \in 1..N /\ b[i] = a[i]
    BY <1>2
  <2>2. a[i] \in Nat /\ a[i] <= G
    BY <2>1
  <2> QED
    BY <2>1, <2>2
<1>4. Total(b) \in Int /\ -(n * G) <= Total(b) /\ Total(b) <= n * G
  <2>1. n \in Nat
    OBVIOUS
  <2> QED
    BY <1>2, <1>3, <2>1, TotalsBounded
<1>5. n * G \in Nat /\ N * G \in Nat /\ n * G <= N * G
  BY ProductsKeepOrder
<1>6. PICK x \in Nat, y \in Nat : x = n * G /\ y = N * G /\ x <= y
  BY <1>5
<1>7. PICK z \in Int : z = Total(b) /\ -x <= z /\ z <= x
  BY <1>4, <1>6, Zenon
<1>8. -y <= z /\ z <= y
  <2>1. x <= y
    BY <1>6, Zenon
  <2>2. -x <= z /\ z <= x
    BY <1>7, Zenon
  <2> QED
    BY <2>1, <2>2
<1>9. Total(b) \in Int /\ -(N * G) <= Total(b) /\ Total(b) <= N * G
  BY <1>6, <1>7, <1>8, Zenon
<1> QED
  BY <1>1, <1>9, Zenon

\* Dividing both sides by the count.
LEMMA SidesDivided ==
  ASSUME NEW N \in Nat \ {0}, NEW d \in Int, NEW S \in Int, NEW t \in Int, NEW V \in Int
  PROVE  /\ d * d * N * S * S \in Int /\ t * t * (N * V) \in Int
         /\ d * d * N * S * S < t * t * (N * V) <=> ~((d * S) * (d * S) >= t * t * V)
<1>1. PICK A \in Int, B \in Int : A = (d * S) * (d * S) /\ B = t * t * V
  OBVIOUS
<1>2. d * d * N * S * S = N * A
  <2>1. d * d * N * S * S = N * ((d * S) * (d * S))
    OBVIOUS
  <2> QED
    BY <1>1, <2>1
<1>3. t * t * (N * V) = N * B
  <2>1. t * t * (N * V) = N * (t * t * V)
    OBVIOUS
  <2> QED
    BY <1>1, <2>1
<1>4. N * A < N * B <=> A < B
  <2>1. ASSUME A < B PROVE N * A < N * B
    <3>1. PICK e \in Nat : B = A + 1 + e
      <4>1. B - A - 1 \in Nat /\ B = A + 1 + (B - A - 1)
        BY <2>1
      <4> QED
        BY <4>1
    <3>2. N * B = N * A + N + N * e /\ N * e \in Nat
      BY <3>1
    <3>3. PICK x \in Int, y \in Nat : x = N * A /\ y = N * e
      BY <3>2
    <3> QED
      BY <3>2, <3>3
  <2>2. ASSUME ~(A < B) PROVE ~(N * A < N * B)
    <3>1. PICK e \in Nat : A = B + e
      <4>1. A - B \in Nat /\ A = B + (A - B)
        BY <2>2
      <4> QED
        BY <4>1
    <3>2. N * A = N * B + N * e /\ N * e \in Nat
      BY <3>1
    <3>3. PICK x \in Int, y \in Nat : x = N * B /\ y = N * e
      BY <3>2
    <3> QED
      BY <3>2, <3>3
  <2> QED
    BY <2>1, <2>2
<1>5. A < B <=> ~(A >= B)
  OBVIOUS
<1>6. N * A \in Int /\ N * B \in Int
  OBVIOUS
<1> QED
  BY <1>1, <1>2, <1>3, <1>4, <1>5, <1>6, Zenon

LEMMA TotalsNatural ==
  ASSUME NEW N \in Nat, NEW a, Len(a) = N, \A n \in 1..N : a[n] \in Nat
  PROVE  Total(a) \in Nat
<1> DEFINE u == Sums(a)
           P == { n \in 0..N : u[n] \in Nat }
<1>1. \A n \in 1..N : a[n] \in Int
  OBVIOUS
<1>2. /\ u[0] = 0 /\ \A n \in 1..N : u[n] = u[n - 1] + a[n]
      /\ Total(a) = u[N]
  BY <1>1, SumsGoOn
<1> HIDE DEF u
<1>3. 0 \in P
  BY <1>2
<1>4. ASSUME NEW n \in 1..N, n - 1 \in P
      PROVE  n \in P
  <2>1. n \in 0..N /\ u[n - 1] \in Nat /\ a[n] \in Nat /\ u[n] = u[n - 1] + a[n]
    BY <1>2, <1>4
  <2>2. u[n] \in Nat
    BY <2>1
  <2> QED
    BY <2>1, <2>2
<1> HIDE DEF P
<1>5. \A n \in 0..N : n \in P
  BY <1>3, <1>4, UpTo
<1>6. N \in P
  BY <1>5
<1> QED
  BY <1>2, <1>6 DEF P

\* What the z-score decides on.
Fires(N, d, V) == V # 0 /\ (d * FixedScale) * (d * FixedScale) >= Threshold * Threshold * V

IsDecided(N, s, V, d) ==
  /\ V \in Int /\ d \in Int /\ d = ZDelta(s, N)
  /\ Total(SquaredDeltas(s)) = N * V
  /\ ZScoreSignal(s, Threshold) =
       IF \/ N < 2
          \/ ~DeviationsFit(s)
          \/ d = 0
          \/ ~FitsWide(d * d * N * FixedScale * FixedScale)
          \/ ~FitsWide(Threshold * Threshold)
          \/ ~FitsWide(Threshold * Threshold * (N * V))
          \/ ~Fires(N, d, V)
       THEN 0
       ELSE Signum(d)

LEMMA ZScoreDecides ==
  ASSUME NEW N \in Nat \ {0}, NEW s \in Seq(Int), Len(s) = N,
         NEW q, Len(q) = N, \A n \in 1..N : q[n] = s[n] * s[n],
         NEW T \in Int, T = Total(s), NEW V, V = N * Total(q) - T * T,
         NEW d, d = N * s[N] - T
  PROVE  IsDecided(N, s, V, d)
<1>1. PICK a : a = SquaredDeltas(s)
  OBVIOUS
<1>2. Len(a) = N /\ \A n \in 1..N : a[n] = (s[n] * N - T) * (s[n] * N - T)
  BY <1>1 DEF SquaredDeltas, ZDelta
<1>3. Total(q) \in Int /\ Total(a) = N * (N * Total(q) - T * T)
  <2>1. Deviates(N, s, q, a, T)
    BY <1>2 DEF Deviates
  <2>2. N \in Nat
    OBVIOUS
  <2>3. AddsUpTo(N, q, a, T)
    BY <1>2, <2>1, <2>2, SpreadIsVariance
  <2> QED
    BY <2>3, Zenon DEF AddsUpTo
<1>4. V \in Int /\ Total(a) = N * V
  <2>1. PICK x \in Int : x = Total(q)
    BY <1>3
  <2>2. N * x - T * T \in Int
    OBVIOUS
  <2> QED
    BY <1>3, <2>1, <2>2, Zenon
<1>5. d \in Int /\ d = ZDelta(s, N)
  <2>1. PICK x \in Int : x = s[N]
    OBVIOUS
  <2>2. N * x - T \in Int /\ N * x - T = x * N - T
    OBVIOUS
  <2> QED
    BY <2>1, <2>2, Zenon DEF ZDelta
<1>6. PICK t \in Int, S \in Nat \ {0} : t = Threshold /\ S = FixedScale
  BY SignalAssumption, ScaleIsTen
<1>7. AbsoluteValue(t) * AbsoluteValue(t) = t * t
  <2>1. CASE t < 0
    <3>1. AbsoluteValue(t) = -t /\ (-t) * (-t) = t * t
      BY <2>1 DEF AbsoluteValue
    <3> QED
      BY <3>1
  <2>2. CASE ~(t < 0)
    BY <2>2 DEF AbsoluteValue
  <2> QED
    BY <2>1, <2>2
<1>8. (d * d * N * S * S < t * t * (N * V)) <=> ~((d * S) * (d * S) >= t * t * V)
  <2>1. S \in Int
    OBVIOUS
  <2> QED
    BY <1>4, <1>5, <2>1, SidesDivided, Zenon
<1>9. N * V = 0 <=> V = 0
  <2>1. ASSUME V # 0 PROVE N * V # 0
    BY <1>4, <2>1
  <2>2. N * 0 = 0
    OBVIOUS
  <2> QED
    BY <2>1, <2>2
<1>10. ZScoreSignal(s, t) =
         IF \/ N < 2
            \/ ~DeviationsFit(s)
            \/ N * V = 0
            \/ d = 0
            \/ ~FitsWide(d * d * N * S * S)
            \/ ~FitsWide(t * t)
            \/ ~FitsWide(t * t * (N * V))
            \/ d * d * N * S * S < t * t * (N * V)
         THEN 0
         ELSE Signum(d)
  BY <1>1, <1>4, <1>5, <1>6, <1>7, Zenon DEF ZScoreSignal
<1>11. Fires(N, d, V) <=> V # 0 /\ (d * S) * (d * S) >= t * t * V
  BY <1>6, Zenon DEF Fires
<1>12. ZScoreSignal(s, t) =
         IF \/ N < 2
            \/ ~DeviationsFit(s)
            \/ d = 0
            \/ ~FitsWide(d * d * N * S * S)
            \/ ~FitsWide(t * t)
            \/ ~FitsWide(t * t * (N * V))
            \/ ~Fires(N, d, V)
         THEN 0
         ELSE Signum(d)
  BY <1>8, <1>9, <1>10, <1>11, Zenon
<1> QED
  BY <1>1, <1>4, <1>5, <1>6, <1>12, Zenon DEF IsDecided

\* A number between the two sides of one that fits.
LEMMA SmallOnesFit ==
  ASSUME NEW x \in Int, NEW a \in Nat, NEW W \in Nat, W = WideMax,
         -a <= x, x <= a, a <= W
  PROVE  FitsWide(x)
BY DEF FitsWide

LEMMA SmallSizesFit ==
  ASSUME NEW x \in Nat, NEW a \in Nat, NEW W \in Nat, W = WideMax, x <= a, a <= W
  PROVE  FitsWide(x)
BY DEF FitsWide

\* Where a score with all its factors fits, so does every intermediate value.
LEMMA RoomIsEnough ==
  ASSUME NEW N \in Nat \ {0}, NEW s \in Seq(Int), Len(s) = N,
         NEW T \in Int, T = Total(s), NEW V \in Int, Total(SquaredDeltas(s)) = N * V, V # 0,
         NEW d \in Int, d = ZDelta(s, N),
         NEW L \in Nat \ {0}, FixedScale <= L, AbsoluteValue(Threshold) <= L,
         \A n \in 1..N : FitsWide((2 * N * s[n] * L) * (2 * N * s[n] * L) * N)
  PROVE  /\ DeviationsFit(s)
         /\ FitsWide(d * d * N * FixedScale * FixedScale)
         /\ FitsWide(Threshold * Threshold)
         /\ FitsWide(Threshold * Threshold * (N * V))
<1>0. PICK W \in Nat \ {0} : W = WideMax
  BY ScaleIsTen, WidthAssumption
<1>1. \A n \in 1..N : s[n] \in Int
  OBVIOUS
<1>2. PICK j \in 1..N : \A i \in 1..N : AbsoluteValue(s[i]) <= AbsoluteValue(s[j])
  BY <1>1, OneIsFurthest
<1>3. PICK M \in Nat : M = AbsoluteValue(s[j])
  <2>1. PICK x0 \in Int : x0 = s[j]
    BY <1>1, Zenon
  <2>2. AbsoluteValue(x0) \in Nat
    BY DEF AbsoluteValue
  <2> QED
    BY <2>1, <2>2, Zenon
<1>4. PICK g \in Nat : g = 2 * (N * M)
  OBVIOUS
<1>5. (g * L) * (g * L) * N <= W
  <2>1. PICK x \in Int : x = s[j] /\ (M = x \/ M = -x)
    BY <1>1, <1>3 DEF AbsoluteValue
  <2>2. (2 * N * x * L) * (2 * N * x * L) * N = (2 * N * M * L) * (2 * N * M * L) * N
    <3>1. CASE M = x
      BY <3>1
    <3>2. CASE M = -x
      <4>1. x = -M
        BY <2>1, <3>2
      <4>2. PICK y \in Int : y = 2 * N * M * L /\ 2 * N * x * L = -y
        <5>1. 2 * N * M * L \in Int /\ 2 * N * (-M) * L = -(2 * N * M * L)
          OBVIOUS
        <5> QED
          BY <4>1, <5>1
      <4>3. (-y) * (-y) * N = y * y * N
        OBVIOUS
      <4> QED
        BY <4>2, <4>3, Zenon
    <3> QED
      BY <2>1, <3>1, <3>2
  <2>3. FitsWide((2 * N * x * L) * (2 * N * x * L) * N)
    BY <2>1
  <2>4. PICK y \in Int : y = (2 * N * M * L) * (2 * N * M * L) * N
    OBVIOUS
  <2>5. y <= W
    BY <1>0, <2>2, <2>3, <2>4 DEF FitsWide
  <2>6. 2 * N * M * L = g * L
    <3>1. 2 * N * M * L = 2 * (N * M) * L
      OBVIOUS
    <3> QED
      BY <1>4, <3>1
  <2> QED
    BY <2>4, <2>5, <2>6
<1>6. PICK G \in Nat, K \in Nat \ {0}, r \in Nat :
        G = g * g /\ K = L * L /\ r = N * (G * K) /\ r <= W
  <2>1. g * g \in Nat /\ L * L \in Nat \ {0}
    OBVIOUS
  <2>2. (g * L) * (g * L) * N = N * ((g * g) * (L * L))
    OBVIOUS
  <2>3. N * ((g * g) * (L * L)) \in Nat
    OBVIOUS
  <2> QED
    BY <1>5, <2>1, <2>2, <2>3
<1>7. /\ \A n \in 1..N : s[n] \in Int /\ -g <= s[n] * N /\ s[n] * N <= g
                         /\ -g <= s[n] * N - T /\ s[n] * N - T <= g
  <2>1. \A n \in 1..N : AbsoluteValue(s[n]) <= M
    BY <1>2, <1>3
  <2> QED
    BY <1>1, <1>4, <2>1, DeviationsBounded
<1>8. N * G \in Nat /\ N * G <= r /\ G <= N * G /\ g <= G /\ N * G <= W /\ G <= W /\ g <= W
  <2>1. N * G \in Nat
    OBVIOUS
  <2>2. PICK h \in Nat : h = N * G
    BY <2>1
  <2>3. r = h * K
    <3>1. N * (G * K) = (N * G) * K
      OBVIOUS
    <3> QED
      BY <1>6, <2>2, <3>1
  <2>4. h * 1 <= h * K /\ G * 1 <= G * N /\ g * 1 <= g * g
    <3>1. PICK one \in Nat : one = 1
      OBVIOUS
    <3>2. h * one <= h * K
      BY <3>1, ProductsKeepOrder
    <3>3. G * one <= G * N
      BY <3>1, ProductsKeepOrder
    <3>4. g * one <= g * g
      <4>1. CASE g = 0
        BY <3>1, <4>1
      <4>2. CASE g # 0
        <5>1. one <= g
          BY <3>1, <4>2
        <5> QED
          BY <3>1, <5>1, ProductsKeepOrder
      <4> QED
        BY <4>1, <4>2
    <3> QED
      BY <3>1, <3>2, <3>3, <3>4
  <2>5. h <= r
    BY <2>2, <2>3, <2>4
  <2>6. G <= h
    <3>1. G * N = h /\ G * 1 = G
      BY <2>2
    <3> QED
      BY <2>4, <3>1
  <2>7. g <= G
    BY <1>6, <2>4
  <2>8. r <= W
    BY <1>6
  <2>9. h <= W /\ G <= W /\ g <= W
    BY <2>5, <2>6, <2>7, <2>8
  <2> QED
    BY <2>2, <2>5, <2>6, <2>7, <2>9, Zenon
<1>9. ASSUME NEW n \in 1..N
      PROVE  /\ SquaredDeltas(s)[n] \in Nat /\ SquaredDeltas(s)[n] <= G
             /\ FitsWide(s[n] * N) /\ FitsWide(ZDelta(s, n)) /\ FitsWide(SquaredDeltas(s)[n])
  <2>1. PICK y \in Int : y = s[n] * N /\ -g <= y /\ y <= g
    <3>1. PICK x0 \in Int : x0 = s[n]
      BY <1>1, Zenon
    <3>2. x0 * N \in Int
      OBVIOUS
    <3>3. s[n] * N \in Int
      BY <3>1, <3>2, Zenon
    <3> QED
      BY <1>7, <3>3, Zenon
  <2>2. PICK x \in Int : x = s[n] * N - T /\ -g <= x /\ x <= g
    <3>1. s[n] * N - T \in Int
      BY <2>1
    <3> QED
      BY <1>7, <3>1
  <2>3. ZDelta(s, n) = x
    BY <2>2, Zenon DEF ZDelta
  <2>4. SquaredDeltas(s)[n] = x * x
    BY <2>3 DEF SquaredDeltas
  <2>5. x * x \in Nat /\ x * x <= G
    BY <1>6, <2>2, SquaresKeepOrder
  <2>6. PICK z \in Nat : z = x * x /\ z <= G
    BY <2>5
  <2>7. FitsWide(y) /\ FitsWide(x) /\ FitsWide(z)
    <3>1. G <= W /\ g <= W
      BY <1>8
    <3>2. -g <= y /\ y <= g /\ -g <= x /\ x <= g /\ z <= G
      BY <2>1, <2>2, <2>6
    <3>3. FitsWide(x) /\ FitsWide(y)
      BY <1>0, <3>1, <3>2, SmallOnesFit, Zenon
    <3>4. FitsWide(z)
      BY <1>0, <3>1, <3>2, SmallSizesFit, Zenon
    <3> QED
      BY <3>3, <3>4, Zenon
  <2> QED
    BY <2>1, <2>3, <2>4, <2>6, <2>7, Zenon
<1>10. SquaredDeltas(s) \in Seq(Int) /\ Len(SquaredDeltas(s)) = N /\ DOMAIN s = 1..N
  <2>1. SquaredDeltas(s) = [n \in 1..N |-> ZDelta(s, n) * ZDelta(s, n)]
    BY DEF SquaredDeltas
  <2>2. \A n \in 1..N : ZDelta(s, n) * ZDelta(s, n) \in Int
    <3> TAKE n \in 1..N
    <3>1. SquaredDeltas(s)[n] = ZDelta(s, n) * ZDelta(s, n)
      BY <2>1
    <3> QED
      BY <1>9, <3>1
  <2>3. DOMAIN s = 1..N
    OBVIOUS
  <2> QED
    BY <2>1, <2>2, <2>3
<1>11. DeviationsFit(s)
  <2>1. ASSUME NEW n \in DOMAIN s
        PROVE  FitsWide(Total(SubSeq(SquaredDeltas(s), 1, n)))
    <3>1. n \in 0..N /\ N \in Nat
      BY <1>10
    <3>2. PICK a \in Seq(Int) : a = SquaredDeltas(s) /\ Len(a) = N
      BY <1>10
    <3>3. \A i \in 1..N : a[i] \in Nat /\ a[i] <= G
      BY <1>9, <3>2
    <3>4. PICK x \in Int : x = Total(SubSeq(a, 1, n)) /\ -(N * G) <= x /\ x <= N * G
      BY <3>1, <3>2, <3>3, PartsOfSpread
    <3>5. PICK h \in Nat : h = N * G /\ h <= W
      BY <1>8, Zenon
    <3>6. -h <= x /\ x <= h
      BY <3>4, <3>5, Zenon
    <3>7. FitsWide(x)
      BY <1>0, <3>5, <3>6, SmallOnesFit, Zenon
    <3> QED
      BY <3>2, <3>4, <3>7, Zenon
  <2>2. \A n \in DOMAIN s : /\ FitsWide(s[n] * Len(s))
                            /\ FitsWide(ZDelta(s, n))
                            /\ FitsWide(SquaredDeltas(s)[n])
    BY <1>9, <1>10
  <2> QED
    BY <2>1, <2>2, Zenon DEF DeviationsFit
<1>12. PICK t \in Int, S \in Nat : t = Threshold /\ S = FixedScale
  BY SignalAssumption, ScaleIsTen
<1>13. t * t \in Nat /\ t * t <= K /\ S * S \in Nat /\ S * S <= K
  <2>1. -L <= t /\ t <= L
    BY <1>12 DEF AbsoluteValue
  <2>2. L \in Nat
    OBVIOUS
  <2>3. t * t \in Nat /\ t * t <= L * L
    BY <2>1, <2>2, SquaresKeepOrder
  <2>4. S <= L
    BY <1>12
  <2>5. S * S \in Nat /\ S * S <= L * L
    BY <2>2, <2>4, ProductsKeepOrder
  <2> QED
    BY <1>6, <2>3, <2>5
<1>14. FitsWide(d * d * N * S * S)
  <2>1. -g <= d /\ d <= g
    <3>1. N \in 1..N /\ Len(s) = N
      OBVIOUS
    <3>2. d = s[N] * N - T
      BY DEF ZDelta
    <3> QED
      BY <1>7, <3>1, <3>2
  <2>2. PICK e \in Nat, f \in Nat : e = d * d /\ e <= G /\ f = S * S /\ f <= K
    BY <1>6, <1>13, <2>1, SquaresKeepOrder
  <2>3. e * f \in Nat /\ G * K \in Nat /\ e * f <= G * K
    BY <2>2, ProductsKeepOrder
  <2>4. PICK h \in Nat, i \in Nat : h = e * f /\ i = G * K /\ h <= i
    BY <2>3
  <2>5. N * h \in Nat /\ N * i \in Nat /\ N * h <= N * i
    <3>1. N \in Nat /\ N <= N
      OBVIOUS
    <3> QED
      BY <2>4, <3>1, ProductsKeepOrder
  <2>6. d * d * N * S * S = N * h
    <3>1. d * d * N * S * S = N * ((d * d) * (S * S))
      OBVIOUS
    <3> QED
      BY <2>2, <2>4, <3>1
  <2>7. r = N * i /\ r <= W
    BY <1>6, <2>4, Zenon
  <2>8. PICK z \in Nat : z = N * h /\ z <= r
    BY <2>5, <2>7, Zenon
  <2>9. r <= W
    BY <1>6, Zenon
  <2>10. FitsWide(z)
    BY <1>0, <2>8, <2>9, SmallSizesFit, Zenon
  <2> QED
    BY <2>6, <2>8, <2>10, Zenon
<1>15. PICK y \in Int : y = N * V /\ -(N * G) <= y /\ y <= N * G /\ y >= 0
  <2>1. PICK a \in Seq(Int) : a = SquaredDeltas(s) /\ Len(a) = N
    BY <1>10
  <2>2. \A i \in 1..N : a[i] \in Nat /\ a[i] <= G
    BY <1>9, <2>1
  <2>3. SubSeq(a, 1, N) = a /\ N \in 0..N /\ N \in Nat
    BY <2>1
  <2>4. Total(a) \in Int /\ -(N * G) <= Total(a) /\ Total(a) <= N * G
    <3>1. PICK n \in 0..N : n = N
      BY <2>3
    <3>2. /\ Total(SubSeq(a, 1, n)) \in Int
          /\ -(N * G) <= Total(SubSeq(a, 1, n)) /\ Total(SubSeq(a, 1, n)) <= N * G
      BY <2>1, <2>2, <2>3, PartsOfSpread
    <3> QED
      BY <2>3, <3>1, <3>2
  <2>5. Total(a) \in Nat
    <3>1. \A i \in 1..N : a[i] \in Nat
      BY <2>2
    <3> QED
      BY <2>1, <2>3, <3>1, TotalsNatural
  <2>6. Total(a) = N * V
    BY <2>1
  <2> QED
    BY <2>4, <2>5, <2>6
<1>16. FitsWide(t * t) /\ FitsWide(t * t * (N * V))
  <2>1. PICK p \in Nat : p = t * t /\ p <= K
    BY <1>13
  <2>2. PICK z \in Nat, h \in Nat : z = y /\ h = N * G /\ z <= h
    BY <1>8, <1>15
  <2>3. z # 0
    BY <1>15, <2>2
  <2>4. p * z \in Nat /\ K * h \in Nat /\ p * z <= K * h
    BY <2>1, <2>2, ProductsKeepOrder
  <2>5. K * h = r
    <3>1. K * (N * G) = N * (G * K)
      OBVIOUS
    <3> QED
      BY <1>6, <2>2, <3>1
  <2>6. p <= p * z
    <3>1. PICK one \in Nat : one = 1 /\ one <= z
      BY <2>3
    <3>2. p * one <= p * z
      BY <3>1, ProductsKeepOrder
    <3> QED
      BY <3>1, <3>2
  <2>7. PICK x \in Nat : x = p * z /\ x <= r /\ p <= x
    BY <2>4, <2>5, <2>6, Zenon
  <2>8. FitsWide(p) /\ FitsWide(x)
    <3>1. r <= W
      BY <1>6
    <3>2. p <= x /\ x <= r
      BY <2>7
    <3>3. p <= r
      BY <3>2
    <3> QED
      BY <1>0, <3>1, <3>2, <3>3, SmallSizesFit, Zenon
  <2>9. t * t * (N * V) = x
    BY <1>15, <2>1, <2>2, <2>7, Zenon
  <2> QED
    BY <2>1, <2>8, <2>9
<1> QED
  BY <1>11, <1>12, <1>14, <1>16, Zenon

(***************************************************************************)
(* For every scale, widths and threshold, the z-score signal fires only on *)
(* scores at least the threshold of deviations away from the mean, and     *)
(* always then where no intermediate value overflows (state.rs:298-384).   *)
(***************************************************************************)
THEOREM ZScoresAreExact == ScoresSpec => []ZScoreIsExact
<1>1. ScoresInv => ZScoreIsExact
  <2> SUFFICES ASSUME ScoresInv, scores # <<>>, NEW signal, signal = ZScoreSignal(scores, Threshold)
               PROVE  /\ signal # 0 => FiresExactly /\ signal = Signum(Deviation)
                      /\ Roomy /\ FiresExactly => signal = Signum(Deviation)
    BY Zenon DEF ZScoreIsExact
  <2>1. PICK s \in Seq(Int) : s = scores
    BY ScoresKnown
  <2>2. PICK N \in Nat \ {0} : N = Len(s) /\ DOMAIN s = 1..N
    <3>1. Len(s) \in Nat /\ Len(s) # 0 /\ DOMAIN s = 1..Len(s)
      BY <2>1
    <3> QED
      BY <3>1
  <2>3. PICK q : q = [ n \in DOMAIN s |-> s[n] * s[n] ]
    OBVIOUS
  <2>4. Len(q) = N /\ \A n \in 1..N : q[n] = s[n] * s[n]
    BY <2>2, <2>3
  <2>5. PICK T \in Int : T = Total(s)
    <3>1. \A n \in 1..N : s[n] \in Int
      BY <2>2
    <3>2. N \in Nat /\ Len(s) = N
      BY <2>2
    <3>3. Total(s) = Sums(s)[N] /\ \A n \in 0..N : Sums(s)[n] \in Int
      BY <3>1, <3>2, SumsGoOn
    <3> QED
      BY <3>2, <3>3
  <2>6. PICK V : V = N * Total(q) - T * T
    OBVIOUS
  <2>7. PICK d : d = N * s[N] - T
    OBVIOUS
  <2>8. V = Variance /\ d = Deviation
    BY <2>1, <2>2, <2>3, <2>5, <2>6, <2>7, Zenon DEF Variance, Deviation, SumOfSquares
  <2>9. FiresExactly <=> Fires(N, d, V)
    BY <2>8, Zenon DEF FiresExactly, Fires
  <2>10. /\ V \in Int /\ d \in Int /\ d = ZDelta(s, N)
         /\ Total(SquaredDeltas(s)) = N * V
         /\ signal =
              IF \/ N < 2
                 \/ ~DeviationsFit(s)
                 \/ d = 0
                 \/ ~FitsWide(d * d * N * FixedScale * FixedScale)
                 \/ ~FitsWide(Threshold * Threshold)
                 \/ ~FitsWide(Threshold * Threshold * (N * V))
                 \/ ~Fires(N, d, V)
              THEN 0
              ELSE Signum(d)
    <3>1. IsDecided(N, s, V, d)
      BY <2>2, <2>4, <2>5, <2>6, <2>7, ZScoreDecides
    <3> QED
      BY <2>1, <3>1, Zenon DEF IsDecided
  <2>11. signal # 0 => FiresExactly /\ signal = Signum(Deviation)
    BY <2>8, <2>9, <2>10, Zenon
  <2>12. ASSUME Roomy, FiresExactly
         PROVE  signal = Signum(Deviation)
    <3>1. CASE d = 0
      <4>1. Signum(0) = 0
        BY DEF Signum
      <4>2. signal = 0
        BY <2>10, <3>1, Zenon
      <4> QED
        BY <2>8, <3>1, <4>1, <4>2, Zenon
    <3>2. CASE d # 0
      <4>1. PICK L \in Nat \ {0} :
              /\ L = Larger(FixedScale, AbsoluteValue(Threshold))
              /\ FixedScale <= L /\ AbsoluteValue(Threshold) <= L
        <5>1. PICK S \in Nat \ {0}, t \in Nat : S = FixedScale /\ t = AbsoluteValue(Threshold)
          BY ScaleIsTen, SignalAssumption DEF AbsoluteValue
        <5>2. Larger(S, t) \in Nat \ {0} /\ S <= Larger(S, t) /\ t <= Larger(S, t)
          BY DEF Larger
        <5> QED
          BY <5>1, <5>2
      <4>2. \A n \in 1..N : FitsWide((2 * N * s[n] * L) * (2 * N * s[n] * L) * N)
        BY <2>1, <2>2, <2>12, <4>1, Zenon DEF Roomy
      <4>3. V # 0 /\ Fires(N, d, V)
        BY <2>9, <2>12, Zenon DEF Fires
      <4>4. /\ DeviationsFit(s)
            /\ FitsWide(d * d * N * FixedScale * FixedScale)
            /\ FitsWide(Threshold * Threshold)
            /\ FitsWide(Threshold * Threshold * (N * V))
        BY <2>2, <2>5, <2>10, <4>1, <4>2, <4>3, RoomIsEnough
      <4>5. ~(N < 2)
        <5>1. ASSUME N = 1 PROVE FALSE
          <6>1. PICK x \in Int : x = s[1]
            BY <2>2
          <6>2. Len(s) = 1 /\ Len(q) = 1 /\ q[1] = x * x
            BY <2>2, <2>4, <5>1, <6>1
          <6>3. x * x \in Int
            OBVIOUS
          <6>4. Total(s) = x /\ Total(q) = x * x
            BY <6>1, <6>2, <6>3, TotalOfOne
          <6>5. V = 1 * (x * x) - x * x
            BY <2>5, <2>6, <5>1, <6>4, Zenon
          <6> QED
            BY <4>3, <6>3, <6>5
        <5> QED
          BY <5>1
      <4> QED
        BY <2>8, <2>10, <3>2, <4>3, <4>4, <4>5, Zenon
    <3> QED
      BY <3>1, <3>2
  <2> QED
    BY <2>11, <2>12
<1> QED
  BY <1>1, ScoresInvariant, PTL

(***************************************************************************)
(* The order of flags.  The groups of an accepted list of words are        *)
(* followed to their places after two neighbours changed places.           *)
(***************************************************************************)
Takes(command, word) == Args!TakesValue(Args!FlagsOf(command), word)

\* S are the positions among the first L words of w at which a group starts.
AreGroups(command, w, L, S) ==
  /\ S \subseteq 1..L
  /\ \A n \in 1..L : n \in S <=> ~(n > 1 /\ n - 1 \in S /\ Takes(command, w[n - 1]))

LEMMA OneGrouping ==
  ASSUME NEW command, NEW w, NEW L \in Nat, NEW S, NEW T,
         AreGroups(command, w, L, S), AreGroups(command, w, L, T)
  PROVE  S = T
<1> DEFINE P == { n \in 0..L : n \in S <=> n \in T }
<1>1. 0 \in P
  BY DEF AreGroups
<1>2. ASSUME NEW n \in 1..L, n - 1 \in P
      PROVE  n \in P
  <2>1. n \in S <=> ~(n > 1 /\ n - 1 \in S /\ Takes(command, w[n - 1]))
    BY Zenon DEF AreGroups
  <2>2. n \in T <=> ~(n > 1 /\ n - 1 \in T /\ Takes(command, w[n - 1]))
    BY Zenon DEF AreGroups
  <2>3. n \in 0..L
    OBVIOUS
  <2> QED
    BY <1>2, <2>1, <2>2, <2>3, Zenon
<1> HIDE DEF P
<1>3. \A n \in 0..L : n \in P
  BY <1>1, <1>2, UpTo
<1>4. \A n \in 1..L : n \in S <=> n \in T
  BY <1>3 DEF P
<1> QED
  BY <1>4, Zenon DEF AreGroups

LEMMA StartsAreGroups ==
  ASSUME NEW command, NEW w, NEW L \in Nat, DOMAIN w = 1..L
  PROVE  AreGroups(command, w, L, Args!Starts(command, w))
<1> DEFINE Opens(f, n) == ~(n > 1 /\ f[n - 1] /\ Takes(command, w[n - 1]))
           Is(f) == f = [n \in DOMAIN w |-> Opens(f, n)]
           turn == [n \in 1..L |-> [b \in BOOLEAN |-> ~(n > 1 /\ b /\ Takes(command, w[n - 1]))]]
<1>1. turn \in [1..L -> [BOOLEAN -> BOOLEAN]]
  OBVIOUS
<1>2. PICK moves \in [1..L -> [BOOLEAN -> BOOLEAN]] : moves = turn
  BY <1>1
<1>3. PICK f : IsRun(f, L, BOOLEAN, FALSE, moves)
  <2>1. FALSE \in BOOLEAN
    OBVIOUS
  <2> QED
    BY <2>1, StepByStep, Zenon
<1>4. /\ \A n \in 0..L : f[n] \in BOOLEAN
      /\ \A n \in 1..L : f[n] = moves[n][f[n - 1]]
  BY <1>3 DEF IsRun
<1>5. \A n \in 1..L : f[n] = ~(n > 1 /\ f[n - 1] /\ Takes(command, w[n - 1]))
  <2> TAKE n \in 1..L
  <2>1. n - 1 \in 0..L
    OBVIOUS
  <2>2. f[n - 1] \in BOOLEAN /\ f[n] = moves[n][f[n - 1]]
    BY <1>4, <2>1, Zenon
  <2>3. \A b \in BOOLEAN : moves[n][b] = ~(n > 1 /\ b /\ Takes(command, w[n - 1]))
    BY <1>2, Zenon
  <2> QED
    BY <2>2, <2>3, Zenon
<1> DEFINE h == [n \in 1..L |-> f[n]]
<1>6. Is(h)
  <2>1. \A n \in 1..L : h[n] = Opens(h, n)
    <3> TAKE n \in 1..L
    <3>1. h[n] = ~(n > 1 /\ f[n - 1] /\ Takes(command, w[n - 1]))
      BY <1>5, Zenon
    <3>2. CASE n > 1
      <4>1. n - 1 \in 1..L
        BY <3>2
      <4>2. h[n - 1] = f[n - 1]
        BY <4>1, Zenon
      <4> QED
        BY <3>1, <4>2, Zenon
    <3>3. CASE ~(n > 1)
      BY <3>1, <3>3, Zenon
    <3> QED
      BY <3>2, <3>3
  <2> QED
    BY <2>1, Zenon
<1> DEFINE g == CHOOSE starts : Is(starts)
<1>7. Is(g)
  <2> HIDE DEF h, Is
  <2> QED
    BY <1>6, Zenon
<1>8. Args!Starts(command, w) = { n \in 1..L : g[n] }
  BY Zenon DEF Args!Starts, Takes
<1> HIDE DEF g
<1>9. \A n \in 1..L : g[n] = ~(n > 1 /\ g[n - 1] /\ Takes(command, w[n - 1]))
  BY <1>7, Zenon
<1>10. ASSUME NEW n \in 1..L
       PROVE  g[n] <=> ~(n > 1 /\ (n - 1 \in 1..L /\ g[n - 1]) /\ Takes(command, w[n - 1]))
  <2>1. n > 1 => n - 1 \in 1..L
    OBVIOUS
  <2> QED
    BY <1>9, <2>1, Zenon
<1> QED
  BY <1>8, <1>10, Zenon DEF AreGroups

LEMMA AcceptedWords ==
  ASSUME NEW command, NEW w, NEW L \in Nat, DOMAIN w = 1..L, Args!Accepted(command, w)
  PROVE  /\ \A n \in Args!Starts(command, w) : Args!Problem(command, w, n) = "none"
         /\ command \in Args!GeneratingCommands =>
              Args!ScenarioText(w) \in DOMAIN Args!ScenarioNamed
<1>1. Args!ArgumentError(command, w) = "none"
  BY Zenon DEF Args!Accepted
<1>2. command \in Args!GeneratingCommands => Args!ScenarioText(w) \in DOMAIN Args!ScenarioNamed
  BY <1>1, Zenon DEF Args!ArgumentError
<1>3. ASSUME Args!Problems(command, w) # {}
      PROVE  FALSE
  <2>1. Args!Min(Args!Problems(command, w)) \in Args!Problems(command, w)
    <3>1. \A n \in Args!Problems(command, w) : n \in 1..L
      BY Zenon DEF Args!Problems, Args!Starts
    <3> QED
      BY <1>3, <3>1, FirstPosition
  <2>2. Args!Problem(command, w, Args!Min(Args!Problems(command, w))) # "none"
    BY <2>1, Zenon DEF Args!Problems
  <2> QED
    BY <1>1, <1>2, <1>3, <2>2, Zenon DEF Args!ArgumentError
<1> QED
  BY <1>2, <1>3, Zenon DEF Args!Problems

\* Every flag that takes a value has one.
HaveValues(command, w, L, S) ==
  \A n \in S : Takes(command, w[n]) => n < L

LEMMA AcceptedIsComplete ==
  ASSUME NEW command, NEW w, NEW L \in Nat, DOMAIN w = 1..L, Len(w) = L,
         Args!Accepted(command, w)
  PROVE  /\ HaveValues(command, w, L, Args!Starts(command, w))
         /\ command \in Args!GeneratingCommands =>
              \A n \in Args!Starts(command, w) : w[n] \in DOMAIN Args!FlagsOf(command)
<1>1. ASSUME NEW n \in Args!Starts(command, w)
      PROVE  /\ Takes(command, w[n]) => n < L
             /\ command \in Args!GeneratingCommands => w[n] \in DOMAIN Args!FlagsOf(command)
  <2>1. Args!Problem(command, w, n) = "none"
    BY AcceptedWords
  <2>2. ASSUME command \in Args!GeneratingCommands
        PROVE  w[n] \in DOMAIN Args!FlagsOf(command)
    <3>1. command \notin Args!FileCommands
      BY <2>2 DEF Args!GeneratingCommands, Args!FileCommands
    <3> QED
      BY <2>1, <3>1, Zenon DEF Args!Problem
  <2>3. ASSUME Takes(command, w[n])
        PROVE  n # L
    <3>1. w[n] \in DOMAIN Args!FlagsOf(command)
      BY <2>3, Zenon DEF Takes, Args!TakesValue
    <3> QED
      BY <2>1, <2>3, <3>1, Zenon DEF Args!Problem, Takes
  <2>4. n \in 1..L
    BY Zenon DEF Args!Starts
  <2> QED
    BY <2>2, <2>3, <2>4
<1> QED
  BY <1>1, Zenon DEF HaveValues

Size(command, word) == IF Takes(command, word) THEN 2 ELSE 1

\* The group at n of S ends before e, and there another one starts or none.
EndsAt(L, S, n, e) ==
  /\ n \in 1..L /\ e > n /\ e <= L + 1
  /\ e <= L => e \in S
  /\ \A p \in S : p > n => e <= p

LEMMA NextGroup ==
  ASSUME NEW command, NEW w, NEW L \in Nat, NEW S, AreGroups(command, w, L, S),
         HaveValues(command, w, L, S), NEW n \in S, NEW e \in Int, e = n + Size(command, w[n])
  PROVE  EndsAt(L, S, n, e)
<1>1. n \in 1..L /\ (Takes(command, w[n]) => n < L)
  BY Zenon DEF AreGroups, HaveValues
<1>2. CASE Takes(command, w[n])
  <2>1. e = n + 2 /\ n + 1 \in 1..L
    BY <1>1, <1>2 DEF Size
  <2>2. PICK m \in 1..L : m = n + 1 /\ m - 1 = n /\ m > 1
    BY <1>1, <2>1
  <2>3. m \notin S
    BY <1>2, <2>2, Zenon DEF AreGroups
  <2>4. e <= L => e \in S
    <3> SUFFICES ASSUME e <= L PROVE e \in S
      OBVIOUS
    <3>1. e \in 1..L /\ e - 1 = m
      BY <1>1, <2>1, <2>2
    <3> QED
      BY <2>3, <3>1, Zenon DEF AreGroups
  <2>5. \A p \in S : p > n => e <= p
    <3> TAKE p \in S
    <3>1. p \in 1..L /\ p # m
      BY <2>3, Zenon DEF AreGroups
    <3> QED
      BY <1>1, <2>1, <2>2, <3>1
  <2> QED
    BY <1>1, <2>1, <2>4, <2>5 DEF EndsAt
<1>3. CASE ~Takes(command, w[n])
  <2>1. e = n + 1
    BY <1>3 DEF Size
  <2>2. e <= L => e \in S
    <3> SUFFICES ASSUME e <= L PROVE e \in S
      OBVIOUS
    <3>1. e \in 1..L /\ e - 1 = n
      BY <1>1, <2>1
    <3> QED
      BY <1>3, <3>1, Zenon DEF AreGroups
  <2>3. \A p \in S : p > n => e <= p
    <3> TAKE p \in S
    <3>1. p \in 1..L
      BY Zenon DEF AreGroups
    <3> QED
      BY <1>1, <2>1, <3>1
  <2> QED
    BY <1>1, <2>1, <2>2, <2>3 DEF EndsAt
<1> QED
  BY <1>2, <1>3

\* Where a group ends.
LEMMA GroupEnds ==
  ASSUME NEW L \in Nat, Len(Given) = L, NEW S, S = GroupStarts,
         AreGroups(Command, Given, L, S), HaveValues(Command, Given, L, S),
         NEW n \in S, NEW e \in Int, e = n + Size(Command, Given[n])
  PROVE  GroupEnd(n) = e
<1> DEFINE Ends == S \cup {L + 1}
           Ending(k) == k > n /\ \A j \in S : j > n => k <= j
<1>1. /\ n \in 1..L /\ e > n /\ e <= L + 1
      /\ e <= L => e \in S
      /\ \A p \in S : p > n => e <= p
  <2>1. EndsAt(L, S, n, e)
    BY NextGroup, Zenon
  <2> QED
    BY <2>1, Zenon DEF EndsAt
<1>2. e \in Ends /\ Ending(e)
  BY <1>1
<1>3. ASSUME NEW k \in Ends, Ending(k)
      PROVE  k = e
  <2>1. \A p \in S : p \in 1..L
    BY Zenon DEF AreGroups
  <2>2. k \in Int
    BY <2>1
  <2>3. CASE e \in S
    <3>1. k <= e
      BY <1>1, <1>3, <2>3
    <3>2. e <= k
      <4>1. CASE k \in S
        BY <1>1, <1>3, <4>1
      <4>2. CASE k = L + 1
        BY <1>1, <4>2
      <4> QED
        BY <4>1, <4>2
    <3> QED
      BY <2>2, <3>1, <3>2
  <2>4. CASE e \notin S
    <3>1. e = L + 1
      BY <1>1, <2>4
    <3>2. k \notin S
      <4> SUFFICES ASSUME k \in S PROVE FALSE
        OBVIOUS
      <4>1. e <= k /\ k \in 1..L
        BY <1>1, <1>3, <2>1
      <4> QED
        BY <3>1, <4>1
    <3> QED
      BY <3>1, <3>2
  <2> QED
    BY <2>3, <2>4
<1>4. GroupEnd(n) = CHOOSE k \in Ends : Ending(k)
  BY Zenon DEF GroupEnd
<1> HIDE DEF Ends, Ending
<1> QED
  BY <1>2, <1>3, <1>4, Zenon

\* Where the word at n was before the groups from i to j and from j to k changed places.
Old(i, j, k, n) ==
  IF n < i \/ n >= k THEN n ELSE IF n < i + (k - j) THEN n + (j - i) ELSE n - (k - j)

Rearranged(w, v, L, i, j, k) == \A n \in 1..L : v[n] = w[Old(i, j, k, n)]

\* The N words after the first a.
IsCut(s, w, X, a, N) == s \in Seq(X) /\ Len(s) = N /\ \A n \in 1..N : s[n] = w[a + n]

IsGlued(v, p, q, X, M, N) ==
  /\ v \in Seq(X) /\ Len(v) = M + N
  /\ \A n \in 1..M : v[n] = p[n]
  /\ \A n \in 1..N : v[M + n] = q[n]

LEMMA CutOut ==
  ASSUME NEW X, NEW w \in Seq(X), NEW a \in Nat, NEW N \in Nat, a + N <= Len(w)
  PROVE  IsCut(SubSeq(w, a + 1, a + N), w, X, a, N)
<1>1. Len(SubSeq(w, a + 1, a + N)) = N
  OBVIOUS
<1>2. \A n \in 1..N : SubSeq(w, a + 1, a + N)[n] = w[a + n]
  OBVIOUS
<1>3. SubSeq(w, a + 1, a + N) \in Seq(X)
  OBVIOUS
<1> QED
  BY <1>1, <1>2, <1>3, Zenon DEF IsCut

LEMMA GluedTogether ==
  ASSUME NEW X, NEW p \in Seq(X), NEW q \in Seq(X), NEW M \in Nat, NEW N \in Nat,
         Len(p) = M, Len(q) = N, NEW v, v = p \o q
  PROVE  IsGlued(v, p, q, X, M, N)
<1>1. v \in Seq(X) /\ Len(v) = M + N
  OBVIOUS
<1>2. \A n \in 1..M : v[n] = p[n]
  OBVIOUS
<1>3. \A n \in 1..N : v[M + n] = q[n]
  OBVIOUS
<1> QED
  BY <1>1, <1>2, <1>3, Zenon DEF IsGlued

LEMMA SwappedWords ==
  ASSUME NEW X, Given \in Seq(X), NEW L \in Nat, Len(Given) = L,
         NEW i \in 1..L, NEW j \in 1..L, NEW k \in 1..(L + 1), i < j, j < k, GroupEnd(j) = k
  PROVE  /\ Len(Swapped(i, j)) = L /\ DOMAIN Swapped(i, j) = 1..L
         /\ Rearranged(Given, Swapped(i, j), L, i, j, k)
<1>1. PICK w \in Seq(X) : w = Given /\ Len(w) = L
  OBVIOUS
<1>2. PICK p, q, r, s : /\ p = SubSeq(w, 1, i - 1) /\ q = SubSeq(w, j, k - 1)
                        /\ r = SubSeq(w, i, j - 1) /\ s = SubSeq(w, k, L)
  OBVIOUS
<1>3. IsCut(p, w, X, 0, i - 1) /\ IsCut(q, w, X, j - 1, k - j)
      /\ IsCut(r, w, X, i - 1, j - i) /\ IsCut(s, w, X, k - 1, L - k + 1)
  <2>1. \A a, n \in Nat : a + n <= L => IsCut(SubSeq(w, a + 1, a + n), w, X, a, n)
    BY <1>1, CutOut
  <2>2. /\ 0 \in Nat /\ i - 1 \in Nat /\ 0 + (i - 1) <= L /\ 0 + 1 = 1 /\ 0 + (i - 1) = i - 1
        /\ j - 1 \in Nat /\ k - j \in Nat /\ j - 1 + (k - j) <= L
        /\ j - 1 + 1 = j /\ j - 1 + (k - j) = k - 1
        /\ j - i \in Nat /\ i - 1 + (j - i) <= L /\ i - 1 + 1 = i /\ i - 1 + (j - i) = j - 1
        /\ k - 1 \in Nat /\ L - k + 1 \in Nat /\ k - 1 + (L - k + 1) <= L
        /\ k - 1 + 1 = k /\ k - 1 + (L - k + 1) = L
    OBVIOUS
  <2>3. IsCut(SubSeq(w, 1, i - 1), w, X, 0, i - 1)
    BY <2>1, <2>2, Zenon
  <2>4. IsCut(SubSeq(w, j, k - 1), w, X, j - 1, k - j)
    BY <2>1, <2>2, Zenon
  <2>5. IsCut(SubSeq(w, i, j - 1), w, X, i - 1, j - i)
    BY <2>1, <2>2, Zenon
  <2>6. IsCut(SubSeq(w, k, L), w, X, k - 1, L - k + 1)
    BY <2>1, <2>2, Zenon
  <2> QED
    BY <1>2, <2>3, <2>4, <2>5, <2>6, Zenon
<1>4. PICK A \in Nat, B \in Nat, C \in Nat, D \in Nat :
        A = i - 1 /\ B = k - j /\ C = j - i /\ D = L - k + 1 /\ A + B + C + D = L
  <2>1. /\ i - 1 \in Nat /\ k - j \in Nat /\ j - i \in Nat /\ L - k + 1 \in Nat
        /\ i - 1 + (k - j) + (j - i) + (L - k + 1) = L
    OBVIOUS
  <2> QED
    BY <2>1, Zenon
<1>5. PICK x, y, v : x = p \o q /\ y = x \o r /\ v = y \o s
  OBVIOUS
<1>6. IsGlued(x, p, q, X, A, B) /\ IsGlued(y, x, r, X, A + B, C) /\ IsGlued(v, y, s, X, A + B + C, D)
  <2>1. IsGlued(x, p, q, X, A, B)
    <3>1. p \in Seq(X) /\ Len(p) = A /\ q \in Seq(X) /\ Len(q) = B
      BY <1>3, <1>4, Zenon DEF IsCut
    <3> QED
      BY <1>5, <3>1, GluedTogether, Zenon
  <2>2. x \in Seq(X) /\ Len(x) = A + B /\ A + B \in Nat
    BY <2>1 DEF IsGlued
  <2>3. IsGlued(y, x, r, X, A + B, C)
    <3>1. r \in Seq(X) /\ Len(r) = C
      BY <1>3, <1>4, Zenon DEF IsCut
    <3> QED
      BY <1>5, <2>2, <3>1, GluedTogether, Zenon
  <2>4. y \in Seq(X) /\ Len(y) = A + B + C /\ A + B + C \in Nat
    BY <2>2, <2>3 DEF IsGlued
  <2>5. IsGlued(v, y, s, X, A + B + C, D)
    <3>1. s \in Seq(X) /\ Len(s) = D
      BY <1>3, <1>4, Zenon DEF IsCut
    <3> QED
      BY <1>5, <2>4, <3>1, GluedTogether, Zenon
  <2> QED
    BY <2>1, <2>3, <2>5
<1>7. v = Swapped(i, j)
  BY <1>1, <1>2, <1>5, Zenon DEF Swapped
<1>8. v \in Seq(X) /\ Len(v) = L /\ DOMAIN v = 1..L
  <2>1. v \in Seq(X) /\ Len(v) = L
    BY <1>4, <1>6, Zenon DEF IsGlued
  <2> QED
    BY <2>1
<1>9. ASSUME NEW n \in 1..L
      PROVE  v[n] = w[Old(i, j, k, n)]
  <2>1. CASE n < i
    <3>1. n \in 1..A /\ n \in 1..(A + B) /\ n \in 1..(A + B + C) /\ Old(i, j, k, n) = n /\ 0 + n = n
      BY <1>4, <2>1 DEF Old
    <3>2. p[n] = w[0 + n]
      BY <1>3, <1>4, <3>1, Zenon DEF IsCut
    <3> QED
      BY <1>6, <3>1, <3>2, Zenon DEF IsGlued
  <2>2. CASE i <= n /\ n < i + (k - j)
    <3>1. PICK m \in 1..B : A + m = n
      <4>1. n - A \in 1..B /\ A + (n - A) = n
        BY <1>4, <2>2
      <4> QED
        BY <4>1
    <3>2. /\ Old(i, j, k, n) = j - 1 + m
          /\ A + m \in 1..(A + B) /\ A + m \in 1..(A + B + C)
      BY <1>4, <2>2, <3>1 DEF Old
    <3>3. q[m] = w[j - 1 + m]
      BY <1>3, <1>4, <3>1, Zenon DEF IsCut
    <3> QED
      BY <1>6, <3>1, <3>2, <3>3, Zenon DEF IsGlued
  <2>3. CASE i + (k - j) <= n /\ n < k
    <3>1. PICK m \in 1..C : A + B + m = n
      <4>1. n - (A + B) \in 1..C /\ A + B + (n - (A + B)) = n
        BY <1>4, <2>3
      <4> QED
        BY <4>1
    <3>2. Old(i, j, k, n) = i - 1 + m /\ A + B + m \in 1..(A + B + C)
      BY <1>4, <2>3, <3>1 DEF Old
    <3>3. r[m] = w[i - 1 + m]
      BY <1>3, <1>4, <3>1, Zenon DEF IsCut
    <3> QED
      BY <1>6, <3>1, <3>2, <3>3, Zenon DEF IsGlued
  <2>4. CASE k <= n
    <3>1. PICK m \in 1..D : A + B + C + m = n
      <4>1. n - (A + B + C) \in 1..D /\ A + B + C + (n - (A + B + C)) = n
        BY <1>4, <2>4
      <4> QED
        BY <4>1
    <3>2. Old(i, j, k, n) = k - 1 + m
      BY <1>4, <2>4, <3>1 DEF Old
    <3>3. s[m] = w[k - 1 + m]
      BY <1>3, <1>4, <3>1, Zenon DEF IsCut
    <3> QED
      BY <1>6, <3>1, <3>2, <3>3, Zenon DEF IsGlued
  <2> QED
    BY <2>1, <2>2, <2>3, <2>4
<1> QED
  BY <1>1, <1>7, <1>8, <1>9, Zenon DEF Rearranged

\* The groups at i and j of S are neighbours, and the second ends before k.
AreNeighbours(command, w, L, S, i, j, k) ==
  /\ AreGroups(command, w, L, S)
  /\ i \in S /\ j \in S /\ k \in Int
  /\ j = i + Size(command, w[i]) /\ k = j + Size(command, w[j])
  /\ EndsAt(L, S, i, j) /\ EndsAt(L, S, j, k)

LEMMA Neighbours ==
  ASSUME NEW command, NEW w, NEW L \in Nat, NEW S, NEW i, NEW j, NEW k,
         AreNeighbours(command, w, L, S, i, j, k)
  PROVE  /\ i \in 1..L /\ j \in 1..L /\ k \in 1..(L + 1)
         /\ \/ j = i + 1 /\ ~Takes(command, w[i])
            \/ j = i + 2 /\ Takes(command, w[i]) /\ i + 1 \notin S
         /\ \/ k = j + 1 /\ ~Takes(command, w[j])
            \/ k = j + 2 /\ Takes(command, w[j]) /\ j + 1 \notin S
         /\ k \in S \/ k = L + 1
<1>1. /\ i \in 1..L /\ j > i /\ j <= L + 1 /\ \A p \in S : p > i => j <= p
      /\ j \in 1..L /\ k > j /\ k <= L + 1 /\ \A p \in S : p > j => k <= p
      /\ k <= L => k \in S
      /\ k \in Int
  BY Zenon DEF AreNeighbours, EndsAt
<1>2. j = i + Size(command, w[i]) /\ k = j + Size(command, w[j])
  BY Zenon DEF AreNeighbours
<1>3. \/ j = i + 1 /\ ~Takes(command, w[i])
      \/ j = i + 2 /\ Takes(command, w[i])
  BY <1>2, Zenon DEF Size
<1>4. \/ k = j + 1 /\ ~Takes(command, w[j])
      \/ k = j + 2 /\ Takes(command, w[j])
  BY <1>2, Zenon DEF Size
<1>5. j = i + 2 => i + 1 \notin S
  BY <1>1
<1>6. k = j + 2 => j + 1 \notin S
  BY <1>1
<1>7. k \in 1..(L + 1) /\ (k \in S \/ k = L + 1)
  BY <1>1
<1> QED
  BY <1>1, <1>3, <1>4, <1>5, <1>6, <1>7, Zenon

LEMMA SwappedGroups ==
  ASSUME NEW command, NEW w, NEW v, NEW L \in Nat, NEW S, NEW i, NEW j, NEW k,
         AreNeighbours(command, w, L, S, i, j, k), Rearranged(w, v, L, i, j, k),
         NEW T, T = { n \in 1..L : Old(i, j, k, n) \in S }
  PROVE  AreGroups(command, v, L, T)
<1> DEFINE old(n) == Old(i, j, k, n)
           Follows(n) == n > 1 /\ n - 1 \in T /\ Takes(command, v[n - 1])
           Followed(n) == n > 1 /\ n - 1 \in S /\ Takes(command, w[n - 1])
<1>1. /\ i \in 1..L /\ j \in 1..L /\ k \in 1..(L + 1)
      /\ \/ j = i + 1 /\ ~Takes(command, w[i])
         \/ j = i + 2 /\ Takes(command, w[i]) /\ i + 1 \notin S
      /\ \/ k = j + 1 /\ ~Takes(command, w[j])
         \/ k = j + 2 /\ Takes(command, w[j]) /\ j + 1 \notin S
      /\ k \in S \/ k = L + 1
  BY Neighbours
<1>2. i \in S /\ j \in S /\ \A n \in 1..L : n \in S <=> ~Followed(n)
  BY Zenon DEF AreNeighbours, AreGroups
<1>3. \A n \in 1..L : v[n] = w[old(n)] /\ (n \in T <=> old(n) \in S)
  BY Zenon DEF Rearranged
<1>4. \A n \in 1..L : n < i \/ n >= k => old(n) = n
  BY Zenon DEF Old
<1>5. old(i) = j /\ old(i + (k - j)) = i
  BY <1>1 DEF Old
<1>6. k = j + 2 => old(i + 1) = j + 1
  BY <1>1 DEF Old
<1>7. j = i + 2 => old(i + (k - j) + 1) = i + 1
  BY <1>1 DEF Old
<1> HIDE DEF old
<1>8. ASSUME NEW n \in 1..L
      PROVE  n \in T <=> ~Follows(n)
  <2>1. CASE n < i \/ n > k
    <3>1. n \in T <=> n \in S
      BY <1>1, <1>3, <1>4, <2>1
    <3>2. Follows(n) <=> Followed(n)
      <4>1. CASE n > 1
        <5>1. n - 1 \in 1..L /\ (n - 1 < i \/ n - 1 >= k)
          BY <1>1, <2>1, <4>1
        <5>2. old(n - 1) = n - 1
          BY <1>4, <5>1, Zenon
        <5> QED
          BY <1>3, <5>1, <5>2, Zenon
      <4>2. CASE ~(n > 1)
        BY <4>2, Zenon
      <4> QED
        BY <4>1, <4>2
    <3> QED
      BY <1>2, <3>1, <3>2, Zenon
  <2>2. CASE n = i
    <3>1. n \in T
      BY <1>2, <1>3, <1>5, <2>2, Zenon
    <3>2. ~Follows(n)
      <4> SUFFICES ASSUME n > 1, n - 1 \in T, Takes(command, v[n - 1]) PROVE FALSE
        BY Zenon
      <4>1. n - 1 \in 1..L /\ n - 1 < i
        BY <1>1, <2>2
      <4>2. old(n - 1) = n - 1
        BY <1>4, <4>1, Zenon
      <4>3. Followed(n)
        BY <1>3, <4>1, <4>2, Zenon
      <4> QED
        BY <1>2, <2>2, <4>3, Zenon
    <3> QED
      BY <3>1, <3>2, Zenon
  <2>3. CASE n = i + 1 /\ k = j + 2
    <3>1. n \notin T
      BY <1>1, <1>3, <1>6, <2>3
    <3>2. n > 1 /\ n - 1 = i /\ i \in T /\ v[i] = w[j] /\ Takes(command, w[j])
      BY <1>1, <1>2, <1>3, <1>5, <2>3
    <3> QED
      BY <3>1, <3>2, Zenon
  <2>4. CASE n = i + (k - j)
    <3>1. n \in T
      BY <1>2, <1>3, <1>5, <2>4, Zenon
    <3>2. CASE k = j + 1
      <4>1. n - 1 = i /\ ~Takes(command, w[j]) /\ v[i] = w[j]
        BY <1>1, <1>3, <1>5, <2>4, <3>2
      <4> QED
        BY <3>1, <4>1, Zenon
    <3>3. CASE k = j + 2
      <4>1. n - 1 = i + 1 /\ i + 1 \in 1..L /\ j + 1 \notin S
        BY <1>1, <2>4, <3>3
      <4>2. i + 1 \notin T
        BY <1>3, <1>6, <3>3, <4>1, Zenon
      <4> QED
        BY <3>1, <4>1, <4>2, Zenon
    <3> QED
      BY <1>1, <3>2, <3>3
  <2>5. CASE n = i + (k - j) + 1 /\ j = i + 2
    <3>1. n \notin T
      <4>1. i + 1 \notin S
        BY <1>1, <2>5
      <4> QED
        BY <1>3, <1>7, <2>5, <4>1, Zenon
    <3>2. PICK m \in 1..L : m = i + (k - j) /\ n - 1 = m /\ n > 1
      <4>1. i + (k - j) \in 1..L /\ n - 1 = i + (k - j) /\ n > 1
        BY <1>1, <2>5
      <4> QED
        BY <4>1, Zenon
    <3>3. m \in T /\ v[m] = w[i] /\ Takes(command, w[i])
      <4>1. j # i + 1
        BY <1>1, <2>5
      <4> QED
        BY <1>1, <1>2, <1>3, <1>5, <3>2, <4>1, Zenon
    <3> QED
      BY <3>1, <3>2, <3>3, Zenon
  <2>6. CASE n = k
    <3>1. n \in T
      <4>1. n \in S /\ n >= k
        BY <1>1, <2>6
      <4> QED
        BY <1>3, <1>4, <4>1, Zenon
    <3>2. CASE j = i + 1
      <4>1. PICK m \in 1..L : m = i + (k - j) /\ n - 1 = m
        <5>1. i + (k - j) \in 1..L /\ n - 1 = i + (k - j)
          BY <1>1, <2>6, <3>2
        <5> QED
          BY <5>1, Zenon
      <4>2. ~Takes(command, w[i])
        BY <1>1, <3>2
      <4>3. v[m] = w[i]
        BY <1>3, <1>5, <4>1, Zenon
      <4> QED
        BY <3>1, <4>1, <4>2, <4>3, Zenon
    <3>3. CASE j = i + 2
      <4>1. PICK m \in 1..L : m = i + (k - j) + 1 /\ n - 1 = m
        <5>1. i + (k - j) + 1 \in 1..L /\ n - 1 = i + (k - j) + 1
          BY <1>1, <2>6, <3>3
        <5> QED
          BY <5>1, Zenon
      <4>2. i + 1 \notin S
        BY <1>1, <3>3
      <4>3. m \notin T
        BY <1>3, <1>7, <3>3, <4>1, <4>2, Zenon
      <4> QED
        BY <3>1, <4>1, <4>3, Zenon
    <3> QED
      BY <1>1, <3>2, <3>3
  <2> QED
    BY <1>1, <2>1, <2>2, <2>3, <2>4, <2>5, <2>6
<1> QED
  BY <1>8, Zenon DEF AreGroups

\* The groups T of v are the groups S of w in the same order, but for the one at i, which f
\* takes from j, and the one at e, which it takes from i.
Matching(command, w, v, S, T, f, i, j, e) ==
  /\ \A n \in T : f[n] \in S /\ v[n] = w[f[n]] /\ (Takes(command, v[n]) => v[n + 1] = w[f[n] + 1])
  /\ \A p \in S : \E n \in T : f[n] = p
  /\ i \in T /\ e \in T /\ f[i] = j /\ f[e] = i
  /\ \A m, n \in T : m < n /\ ~(m = i /\ n = e) => f[m] < f[n]

LEMMA GroupsMatch ==
  ASSUME NEW command, NEW w, NEW v, NEW L \in Nat, NEW S, NEW i, NEW j, NEW k,
         AreNeighbours(command, w, L, S, i, j, k), HaveValues(command, w, L, S),
         Rearranged(w, v, L, i, j, k),
         NEW T, T = { n \in 1..L : Old(i, j, k, n) \in S },
         NEW f, f = [n \in 1..L |-> Old(i, j, k, n)]
  PROVE  Matching(command, w, v, S, T, f, i, j, i + (k - j))
<1>1. /\ i \in 1..L /\ j \in 1..L /\ k \in 1..(L + 1)
      /\ \/ j = i + 1 /\ ~Takes(command, w[i])
         \/ j = i + 2 /\ Takes(command, w[i]) /\ i + 1 \notin S
      /\ \/ k = j + 1 /\ ~Takes(command, w[j])
         \/ k = j + 2 /\ Takes(command, w[j]) /\ j + 1 \notin S
  BY Neighbours
<1>2. PICK e \in 1..L : e = i + (k - j) /\ i < e /\ e < k
  <2>1. i + (k - j) \in 1..L /\ i < i + (k - j) /\ i + (k - j) < k
    BY <1>1
  <2> QED
    BY <2>1, Zenon
<1>3. /\ S \subseteq 1..L /\ i \in S /\ j \in S
      /\ \A p \in S : (p > i => j <= p) /\ (p > j => k <= p)
      /\ \A n \in S : Takes(command, w[n]) => n < L
      /\ \A n \in 1..L : n \in S => ~(n > 1 /\ n - 1 \in S /\ Takes(command, w[n - 1]))
  BY Zenon DEF AreNeighbours, AreGroups, EndsAt, HaveValues
<1>4. \A n \in 1..L : v[n] = w[f[n]] /\ (n \in T <=> f[n] \in S)
  BY Zenon DEF Rearranged
<1>5. \A n \in 1..L : /\ n < i \/ n >= k => f[n] = n
                      /\ i <= n /\ n < e => f[n] = n + (j - i)
                      /\ e <= n /\ n < k => f[n] = n - (k - j)
  <2> TAKE n \in 1..L
  <2>1. f[n] = Old(i, j, k, n)
    BY Zenon
  <2> QED
    BY <1>1, <1>2, <2>1 DEF Old
<1>6. T \subseteq 1..L
  BY Zenon
<1>7. f[i] = j /\ f[e] = i /\ i \in T /\ e \in T
  <2>1. f[i] = j /\ f[e] = i
    BY <1>1, <1>2, <1>5
  <2> QED
    BY <1>1, <1>3, <1>4, <2>1, Zenon
<1>8. ASSUME NEW n \in T
      PROVE  (f[n] = n /\ (n < i \/ n >= k)) \/ n = i \/ n = e
  <2>1. n \in 1..L /\ f[n] \in S
    BY <1>4, <1>6, Zenon
  <2>2. CASE n < i \/ n >= k
    BY <1>5, <2>1, <2>2, Zenon
  <2>3. CASE i < n /\ n < e
    <3>1. f[n] = j + 1 /\ k = j + 2
      BY <1>1, <1>2, <1>5, <2>1, <2>3
    <3>2. f[n] \notin S
      BY <1>1, <3>1
    <3> QED
      BY <2>1, <3>2
  <2>4. CASE e < n /\ n < k
    <3>1. f[n] = i + 1 /\ j = i + 2
      BY <1>1, <1>2, <1>5, <2>1, <2>4
    <3>2. f[n] \notin S
      BY <1>1, <3>1
    <3> QED
      BY <2>1, <3>2
  <2> QED
    BY <1>1, <1>2, <2>1, <2>2, <2>3, <2>4
<1>9. ASSUME NEW n \in T, Takes(command, v[n])
      PROVE  v[n + 1] = w[f[n] + 1]
  <2>1. n \in 1..L /\ f[n] \in S /\ v[n] = w[f[n]]
    BY <1>4, <1>6, Zenon
  <2>2. Takes(command, w[f[n]]) /\ f[n] < L
    BY <1>3, <1>9, <2>1, Zenon
  <2>3. n + 1 \in 1..L /\ f[n + 1] = f[n] + 1
    <3>1. CASE n < i /\ f[n] = n
      <4>1. i # n + 1
        <5> SUFFICES ASSUME i = n + 1 PROVE FALSE
          OBVIOUS
        <5>1. i > 1 /\ i - 1 = n
          BY <1>1, <2>1
        <5>2. i - 1 \in S /\ Takes(command, w[i - 1])
          BY <2>1, <2>2, <3>1, <5>1, Zenon
        <5> QED
          BY <1>1, <1>3, <5>1, <5>2, Zenon
      <4>2. n + 1 \in 1..L /\ n + 1 < i
        BY <1>1, <2>1, <3>1, <4>1
      <4> QED
        BY <1>5, <3>1, <4>2, Zenon
    <3>2. CASE n >= k /\ f[n] = n
      <4>1. n + 1 \in 1..L /\ n + 1 >= k
        BY <1>1, <2>1, <2>2, <3>2
      <4> QED
        BY <1>5, <3>2, <4>1, Zenon
    <3>3. CASE n = i
      <4>1. k = j + 2
        <5>1. Takes(command, w[j])
          BY <1>7, <2>2, <3>3, Zenon
        <5> QED
          BY <1>1, <5>1, Zenon
      <4>2. n + 1 \in 1..L /\ i <= n + 1 /\ n + 1 < e /\ n + 1 + (j - i) = j + 1
        BY <1>1, <1>2, <3>3, <4>1
      <4>3. f[n + 1] = j + 1
        <5>1. f[n + 1] = n + 1 + (j - i)
          BY <1>5, <4>2, Zenon
        <5> QED
          BY <4>2, <5>1, Zenon
      <4> QED
        BY <1>7, <3>3, <4>2, <4>3
    <3>4. CASE n = e
      <4>1. j = i + 2
        <5>1. Takes(command, w[i])
          BY <1>7, <2>2, <3>4, Zenon
        <5> QED
          BY <1>1, <5>1, Zenon
      <4>2. n + 1 \in 1..L /\ e <= n + 1 /\ n + 1 < k /\ (n + 1) - (k - j) = i + 1
        BY <1>1, <1>2, <3>4, <4>1
      <4>3. f[n + 1] = i + 1
        <5>1. f[n + 1] = (n + 1) - (k - j)
          BY <1>5, <4>2, Zenon
        <5> QED
          BY <4>2, <5>1, Zenon
      <4> QED
        BY <1>7, <3>4, <4>2, <4>3
    <3> QED
      BY <1>8, <3>1, <3>2, <3>3, <3>4
  <2> QED
    BY <1>4, <2>3, Zenon
<1>10. ASSUME NEW p \in S
       PROVE  \E n \in T : f[n] = p
  <2>1. p \in 1..L /\ (p > i => j <= p) /\ (p > j => k <= p)
    BY <1>3, Zenon
  <2>2. CASE p < i \/ p >= k
    <3>1. f[p] = p
      BY <1>5, <2>1, <2>2, Zenon
    <3> QED
      BY <1>4, <2>1, <3>1, Zenon
  <2>3. p < i \/ p >= k \/ p = i \/ p = j
    BY <1>1, <2>1
  <2> QED
    BY <1>7, <2>2, <2>3, Zenon
<1>11. ASSUME NEW m \in T, NEW n \in T, m < n, ~(m = i /\ n = e)
       PROVE  f[m] < f[n]
  <2>1. m \in 1..L /\ n \in 1..L
    BY <1>6, Zenon
  <2>2. (f[m] = m /\ (m < i \/ m >= k)) \/ (m = i /\ f[m] = j) \/ (m = e /\ f[m] = i)
    BY <1>7, <1>8, Zenon
  <2>3. (f[n] = n /\ (n < i \/ n >= k)) \/ (n = i /\ f[n] = j) \/ (n = e /\ f[n] = i)
    BY <1>7, <1>8, Zenon
  <2>4. i < j /\ j < k
    BY <1>1
  <2> QED
    BY <1>1, <1>2, <1>11, <2>1, <2>2, <2>3, <2>4
<1>12. Matching(command, w, v, S, T, f, i, j, e)
  BY <1>4, <1>6, <1>7, <1>9, <1>10, <1>11, Zenon DEF Matching
<1> QED
  BY <1>2, <1>12

\* The first and the last of some positions.
LEMMA PositionsEnd ==
  ASSUME NEW N \in Nat, NEW P, P # {}, \A p \in P : p \in 1..N
  PROVE  /\ Args!Min(P) \in P /\ \A p \in P : Args!Min(P) <= p
         /\ Args!Max(P) \in P /\ \A p \in P : Args!Max(P) >= p
<1>1. \E m \in P : \A p \in P : m <= p
  <2>1. \A x \in P : x \in Nat
    OBVIOUS
  <2> QED
    BY <2>1, LeastNatural
<1>2. \E m \in P : \A p \in P : m >= p
  <2> DEFINE D == { N - p : p \in P }
  <2>1. D # {} /\ \A x \in D : x \in Nat
    OBVIOUS
  <2> HIDE DEF D
  <2>2. PICK m \in D : \A x \in D : m <= x
    BY <2>1, LeastNatural
  <2>3. PICK p \in P : m = N - p
    BY DEF D
  <2>4. \A q \in P : p >= q
    <3> TAKE q \in P
    <3>1. N - q \in D
      BY DEF D
    <3>2. N - p <= N - q
      BY <2>2, <2>3, <3>1
    <3> QED
      BY <3>2
  <2> QED
    BY <2>4
<1>3. Args!Min(P) \in P /\ \A p \in P : Args!Min(P) <= p
  BY <1>1, Zenon DEF Args!Min
<1>4. Args!Max(P) \in P /\ \A p \in P : Args!Max(P) >= p
  BY <1>2, Zenon DEF Args!Max
<1> QED
  BY <1>3, <1>4

\* The positions in A are taken to those in C, the ends to the ends.
EndsAgree(v, w, f, A, C) ==
  /\ A = {} <=> C = {}
  /\ A # {} => f[Args!Min(A)] = Args!Min(C) /\ f[Args!Max(A)] = Args!Max(C)
  /\ Args!Listed(v, A) = Args!Listed(w, C)

LEMMA EndsMatch ==
  ASSUME NEW L \in Nat, NEW S, NEW T, S \subseteq 1..L, T \subseteq 1..L,
         NEW command, NEW w, NEW v, NEW f, NEW i, NEW j, NEW e,
         Matching(command, w, v, S, T, f, i, j, e),
         NEW A, A \subseteq T, ~(i \in A /\ e \in A), NEW C, C = { f[n] : n \in A }
  PROVE  EndsAgree(v, w, f, A, C)
<1>1. \A m, n \in A : m \in 1..L /\ (m < n => f[m] < f[n])
  <2> TAKE m, n \in A
  <2>1. m \in T /\ n \in T /\ ~(m = i /\ n = e)
    BY Zenon
  <2> QED
    BY <2>1, Zenon DEF Matching
<1>2. \A n \in A : n \in 1..L /\ f[n] \in 1..L /\ f[n] \in C /\ v[n] = w[f[n]]
  BY Zenon DEF Matching
<1>3. \A q \in C : q \in 1..L
  BY <1>2, Zenon
<1>4. A = {} <=> C = {}
  BY Zenon
<1>5. ASSUME A # {}
      PROVE  f[Args!Min(A)] = Args!Min(C)
  <2>1. PICK m \in A : m = Args!Min(A) /\ \A n \in A : m <= n
    BY <1>2, <1>5, PositionsEnd
  <2>2. PICK c \in C : c = Args!Min(C) /\ \A q \in C : c <= q
    BY <1>3, <1>4, <1>5, PositionsEnd
  <2>3. PICK n \in A : c = f[n]
    BY Zenon
  <2>4. c <= f[m] /\ m <= n
    BY <1>2, <2>1, <2>2, Zenon
  <2>5. f[m] = c
    <3>1. CASE m = n
      BY <2>3, <3>1
    <3>2. CASE m # n
      <4>1. m < n
        BY <1>2, <2>4, <3>2
      <4>2. f[m] < c
        BY <1>1, <2>3, <4>1, Zenon
      <4> QED
        BY <1>2, <1>3, <2>4, <4>2
    <3> QED
      BY <3>1, <3>2
  <2> QED
    BY <2>1, <2>2, <2>5, Zenon
<1>6. ASSUME A # {}
      PROVE  f[Args!Max(A)] = Args!Max(C)
  <2>1. PICK m \in A : m = Args!Max(A) /\ \A n \in A : m >= n
    BY <1>2, <1>6, PositionsEnd
  <2>2. PICK c \in C : c = Args!Max(C) /\ \A q \in C : c >= q
    BY <1>3, <1>4, <1>6, PositionsEnd
  <2>3. PICK n \in A : c = f[n]
    BY Zenon
  <2>4. c >= f[m] /\ m >= n
    BY <1>2, <2>1, <2>2, Zenon
  <2>5. f[m] = c
    <3>1. CASE m = n
      BY <2>3, <3>1
    <3>2. CASE m # n
      <4>1. n < m
        BY <1>2, <2>4, <3>2
      <4>2. c < f[m]
        BY <1>1, <2>3, <4>1, Zenon
      <4> QED
        BY <1>2, <1>3, <2>4, <4>2
    <3> QED
      BY <3>1, <3>2
  <2> QED
    BY <2>1, <2>2, <2>5, Zenon
<1>7. \A s, P : Args!Listed(s, P) = Listed(s, P)
  BY Zenon DEF Args!Listed, Listed, Args!Rank, Rank, Args!Cardinality, Cardinality
<1>8. \A m, n \in A : f[m] = f[n] => m = n
  <2> TAKE m, n \in A
  <2>1. m < n \/ n < m \/ m = n
    BY <1>2
  <2>2. f[m] \in Int /\ f[n] \in Int
    BY <1>2
  <2> QED
    BY <1>1, <2>1, <2>2
<1>9. IsFiniteSet(A)
  <2>1. IsFiniteSet(1..L) /\ A \subseteq 1..L
    BY <1>2, FS_Interval
  <2> QED
    BY <2>1, FS_Subset
<1>10. Cardinality(C) = Cardinality(A)
  <2>1. C = At(f, A)
    BY Zenon DEF At
  <2> QED
    BY <1>8, <1>9, <2>1, AtSize
<1>11. ASSUME NEW p \in A
       PROVE  Rank(C, f[p]) = Rank(A, p)
  <2> DEFINE B == { q \in A : q <= p }
  <2>1. IsFiniteSet(B) /\ \A m, n \in B : f[m] = f[n] => m = n
    BY <1>8, <1>9, FS_Subset
  <2>2. { q \in C : q <= f[p] } = At(f, B)
    <3>1. \A m \in A : m <= p <=> f[m] <= f[p]
      <4> TAKE m \in A
      <4>1. m < p \/ p < m \/ m = p
        BY <1>2
      <4>2. f[m] \in Int /\ f[p] \in Int /\ m \in Int /\ p \in Int
        BY <1>2
      <4> QED
        BY <1>1, <4>1, <4>2
    <3> QED
      BY <3>1, Zenon DEF At
  <2> HIDE DEF B
  <2>3. Cardinality(At(f, B)) = Cardinality(B)
    BY <2>1, AtSize
  <2> QED
    BY <2>2, <2>3, Zenon DEF Rank, B
<1>12. Listed(v, A) = Listed(w, C)
  <2>1. /\ Cardinality(A) \in Nat
        /\ DOMAIN Listed(v, A) = 1..Cardinality(A) /\ DOMAIN Listed(w, C) = 1..Cardinality(A)
    BY <1>2, <1>3, <1>10, ListedElements
  <2>2. ASSUME NEW n \in 1..Cardinality(A)
        PROVE  Listed(v, A)[n] = Listed(w, C)[n]
    <3>1. PICK p \in A : Rank(A, p) = n /\ Listed(v, A)[n] = v[p]
      <4>1. \A q \in A : q \in 1..L
        BY <1>2
      <4>2. \A m \in DOMAIN Listed(v, A) : \E p \in A : Rank(A, p) = m /\ Listed(v, A)[m] = v[p]
        BY <4>1, ListedPlaces
      <4> QED
        BY <2>1, <4>2, Zenon
    <3>2. Listed(w, C)[n] = w[f[p]]
      <4>1. \A q \in C : Listed(w, C)[Rank(C, q)] = w[q]
        BY <1>3, ListedAtRank
      <4>2. f[p] \in C /\ Rank(C, f[p]) = n
        BY <1>2, <1>11, <3>1, Zenon
      <4> QED
        BY <4>1, <4>2, Zenon
    <3> QED
      BY <1>2, <3>1, <3>2
  <2>3. /\ Listed(v, A) = [n \in 1..Cardinality(A) |-> Listed(v, A)[n]]
        /\ Listed(w, C) = [n \in 1..Cardinality(A) |-> Listed(w, C)[n]]
    <3>1. Listed(v, A) = [n \in DOMAIN Listed(v, A) |-> Listed(v, A)[n]]
      BY DEF Listed
    <3>2. Listed(w, C) = [n \in DOMAIN Listed(w, C) |-> Listed(w, C)[n]]
      BY DEF Listed
    <3> QED
      BY <2>1, <3>1, <3>2, Zenon
  <2> QED
    BY <2>2, <2>3
<1> QED
  BY <1>4, <1>5, <1>6, <1>7, <1>12, Zenon DEF EndsAgree

\* A scenario counts where it is a flag, not where it is the value of another one.
ScenarioStarts(command, w) == { n \in Args!Starts(command, w) : w[n] = "--scenario" }

LEMMA ScenarioWords ==
  ASSUME NEW command \in Args!GeneratingCommands
  PROVE  /\ "--scenario" \in DOMAIN Args!FlagsOf(command)
         /\ Args!FlagsOf(command)["--scenario"].sets = "scenario"
         /\ Takes(command, "--scenario")
         /\ \A word \in DOMAIN Args!FlagsOf(command) : word \notin DOMAIN Args!ScenarioNamed
<1>1. Args!FlagsOf(command) \in {Args!GenerateFlags, Args!SuiteFlags}
  <2>1. command \in {"generate", "run-suite"}
    BY Zenon DEF Args!GeneratingCommands
  <2>2. CASE command = "generate"
    <3>1. Args!FlagsOf("generate") = Args!GenerateFlags
      BY DEF Args!FlagsOf
    <3> QED
      BY <2>2, <3>1
  <2>3. CASE command = "run-suite"
    <3>1. Args!FlagsOf("run-suite") = Args!SuiteFlags
      BY DEF Args!FlagsOf
    <3> QED
      BY <2>3, <3>1
  <2> QED
    BY <2>1, <2>2, <2>3
<1>2. "--scenario" \in Args!GenerateWords
  BY DEF Args!GenerateWords
<1>3. Args!GenerateFlags["--scenario"] = Args!Takes("scenario", "any")
  BY <1>2 DEF Args!GenerateFlags
<1>4. Args!SuiteFlags["--scenario"] = Args!Takes("scenario", "any")
  BY <1>2, <1>3 DEF Args!SuiteFlags
<1>5. /\ DOMAIN Args!GenerateFlags = Args!GenerateWords
      /\ DOMAIN Args!SuiteFlags = Args!GenerateWords \cup {"--signal"}
  BY Zenon DEF Args!GenerateFlags, Args!SuiteFlags
<1>6. DOMAIN Args!ScenarioNamed
        = {"clean", "late-heavy", "feature-correction-heavy", "correction-heavy"}
  BY Zenon DEF Args!ScenarioNamed
<1>7. \A word \in Args!GenerateWords \cup {"--signal"} : word \notin DOMAIN Args!ScenarioNamed
  BY <1>6 DEF Args!GenerateWords
<1>8. Args!FlagsOf(command)["--scenario"] = Args!Takes("scenario", "any")
  BY <1>1, <1>3, <1>4, Zenon
<1>9. "--scenario" \in DOMAIN Args!FlagsOf(command)
  BY <1>1, <1>2, <1>5, Zenon
<1>10. /\ Args!FlagsOf(command)["--scenario"].sets = "scenario"
       /\ Args!FlagsOf(command)["--scenario"].reads # "nothing"
  BY <1>8 DEF Args!Takes
<1> QED
  BY <1>1, <1>5, <1>7, <1>9, <1>10, Zenon DEF Takes, Args!TakesValue

LEMMA ScenarioIsFlag ==
  ASSUME NEW command \in Args!GeneratingCommands, NEW w, NEW L \in Nat, DOMAIN w = 1..L,
         Len(w) = L, Args!Accepted(command, w),
         NEW Q, Q = ScenarioStarts(command, w)
  PROVE  Args!ScenarioText(w) = IF Q = {} THEN "late-heavy" ELSE w[Args!Min(Q) + 1]
<1> DEFINE S == Args!Starts(command, w)
           M == Args!ScenarioAt(w)
<1>1. AreGroups(command, w, L, S) /\ HaveValues(command, w, L, S)
  BY StartsAreGroups, AcceptedIsComplete, Zenon
<1>2. \A n \in S : w[n] \in DOMAIN Args!FlagsOf(command)
  BY AcceptedIsComplete
<1>3. \A n \in M : n \in 1..L /\ n < L /\ w[n] = "--scenario"
  BY Zenon DEF Args!ScenarioAt
<1>4. \A n \in Q : n \in S /\ n \in 1..L /\ n \in M
  <2> TAKE n \in Q
  <2>1. n \in S /\ w[n] = "--scenario"
    BY Zenon DEF ScenarioStarts
  <2>2. n \in 1..L /\ n < L
    BY <1>1, <2>1, ScenarioWords, Zenon DEF AreGroups, HaveValues
  <2> QED
    BY <2>1, <2>2, Zenon DEF Args!ScenarioAt
<1>5. CASE M = {}
  BY <1>4, <1>5, Zenon DEF Args!ScenarioText
<1>6. CASE M # {}
  <2>1. PICK m \in M : m = Args!Min(M) /\ \A n \in M : m <= n
    BY <1>3, <1>6, PositionsEnd
  <2>2. Args!ScenarioText(w) = w[m + 1]
    BY <1>6, <2>1, Zenon DEF Args!ScenarioText
  <2>3. w[m + 1] \in DOMAIN Args!ScenarioNamed
    BY <2>2, AcceptedWords
  <2>4. m + 1 \in 1..L /\ m + 1 > 1 /\ (m + 1) - 1 = m
    BY <1>3
  <2>5. m + 1 \notin S
    BY <1>2, <2>3, ScenarioWords
  <2>6. m \in S
    BY <1>1, <2>4, <2>5, Zenon DEF AreGroups
  <2>7. m \in Q
    BY <1>3, <2>6, Zenon DEF ScenarioStarts
  <2>8. PICK q \in Q : q = Args!Min(Q) /\ \A n \in Q : q <= n
    BY <1>4, <2>7, PositionsEnd
  <2>9. q = m
    <3>1. m <= q /\ q <= m /\ m \in Int /\ q \in Int
      BY <1>3, <1>4, <2>1, <2>7, <2>8
    <3> QED
      BY <3>1
  <2> QED
    BY <2>2, <2>7, <2>8, <2>9, Zenon
<1> QED
  BY <1>5, <1>6

\* What a word sets.
Sets(command, word) ==
  IF word \in DOMAIN Args!FlagsOf(command) THEN Args!FlagsOf(command)[word].sets ELSE "a path"

LEMMA SettingsMatch ==
  ASSUME NEW command, NEW w, NEW v, NEW L \in Nat, DOMAIN w = 1..L, DOMAIN v = 1..L,
         Len(w) = L, Len(v) = L, Args!Accepted(command, w), Args!Accepted(command, v),
         NEW S, NEW T, S = Args!Starts(command, w), T = Args!Starts(command, v),
         NEW f, NEW i, NEW j, NEW e, Matching(command, w, v, S, T, f, i, j, e),
         Sets(command, w[i]) # Sets(command, w[j])
  PROVE  Args!Settings(command, v) = Args!Settings(command, w)
<1> DEFINE flags == Args!FlagsOf(command)
<1>1. S \subseteq 1..L /\ T \subseteq 1..L
  BY Zenon DEF Args!Starts
<1>2. /\ \A n \in T : f[n] \in S /\ v[n] = w[f[n]] /\ (Takes(command, v[n]) => v[n + 1] = w[f[n] + 1])
      /\ \A p \in S : \E n \in T : f[n] = p
      /\ v[i] = w[j] /\ v[e] = w[i]
  BY Zenon DEF Matching
<1>3. ASSUME NEW A, A \subseteq T, NEW C, C = { f[n] : n \in A },
             NEW x, \A n \in A : Sets(command, v[n]) = x
      PROVE  EndsAgree(v, w, f, A, C)
  <2>1. ~(i \in A /\ e \in A)
    <3> SUFFICES ASSUME i \in A, e \in A PROVE FALSE
      OBVIOUS
    <3>1. Sets(command, v[i]) = x /\ Sets(command, v[e]) = x
      BY <1>3, Zenon
    <3>2. Sets(command, w[j]) = x /\ Sets(command, w[i]) = x
      BY <1>2, <3>1, Zenon
    <3> QED
      BY <3>2, Zenon
  <2> QED
    BY <1>1, <1>3, <2>1, EndsMatch, Zenon
<1>4. ASSUME NEW n \in T, v[n] \in DOMAIN flags
      PROVE  Args!ValueAt(command, v, n) = Args!ValueAt(command, w, f[n])
  <2>1. v[n] = w[f[n]] /\ (Takes(command, v[n]) => v[n + 1] = w[f[n] + 1])
    BY <1>2, Zenon
  <2>2. CASE flags[v[n]].reads = "nothing"
    <3>1. Args!ValueAt(command, v, n) = flags[v[n]].gives
      BY <2>2, Zenon DEF Args!ValueAt
    <3>2. Args!ValueAt(command, w, f[n]) = flags[w[f[n]]].gives
      BY <2>1, <2>2, Zenon DEF Args!ValueAt
    <3> QED
      BY <2>1, <3>1, <3>2, Zenon
  <2>3. CASE flags[v[n]].reads # "nothing"
    <3>1. v[n + 1] = w[f[n] + 1]
      BY <1>4, <2>1, <2>3, Zenon DEF Takes, Args!TakesValue
    <3> QED
      BY <2>1, <3>1, Zenon DEF Args!ValueAt
  <2> QED
    BY <2>2, <2>3
<1>5. ASSUME NEW setting, NEW A, NEW C,
             A = Args!Setters(command, v, setting), C = Args!Setters(command, w, setting)
      PROVE  /\ A = {} <=> C = {}
             /\ A # {} => Args!ValueAt(command, v, Args!Max(A)) = Args!ValueAt(command, w, Args!Max(C))
  <2>1. \A n : n \in A <=> n \in T /\ v[n] \in DOMAIN flags /\ flags[v[n]].sets = setting
    BY <1>5, Zenon DEF Args!Setters
  <2>2. \A n : n \in C <=> n \in S /\ w[n] \in DOMAIN flags /\ flags[w[n]].sets = setting
    BY <1>5, Zenon DEF Args!Setters
  <2>3. A \subseteq T /\ \A n \in A : Sets(command, v[n]) = setting
    BY <2>1, Zenon DEF Sets
  <2>4. C = { f[n] : n \in A }
    <3>1. \A p \in C : \E n \in A : p = f[n]
      <4> TAKE p \in C
      <4>1. PICK n \in T : f[n] = p
        BY <1>2, <2>1, <2>2, Zenon
      <4>2. v[n] = w[p]
        BY <1>2, <4>1, Zenon
      <4>3. n \in A
        BY <4>2, <2>1, <2>2, Zenon
      <4> QED
        BY <4>1, <4>3
    <3>2. \A n \in A : f[n] \in C
      <4> TAKE n \in A
      <4>1. n \in T /\ f[n] \in S /\ v[n] = w[f[n]]
        BY <1>2, <2>1, <2>2, Zenon
      <4> QED
        BY <4>1, <2>1, <2>2, Zenon
    <3> QED
      BY <3>1, <3>2
  <2>5. /\ A = {} <=> C = {}
        /\ A # {} => f[Args!Max(A)] = Args!Max(C)
    BY <1>3, <2>3, <2>4, Zenon DEF EndsAgree
  <2>6. ASSUME A # {}
        PROVE  Args!ValueAt(command, v, Args!Max(A)) = Args!ValueAt(command, w, Args!Max(C))
    <3>1. Args!Max(A) \in A
      BY <1>1, <2>3, <2>6, PositionsEnd
    <3> QED
      BY <1>4, <2>1, <2>5, <2>6, <3>1, Zenon
  <2> QED
    BY <2>5, <2>6
<1>6. Args!Paths(command, v) = Args!Paths(command, w)
  <2> DEFINE A == { n \in T : v[n] \notin DOMAIN flags }
             C == { n \in S : w[n] \notin DOMAIN flags }
  <2>1. A \subseteq T /\ \A n \in A : Sets(command, v[n]) = "a path"
    BY Zenon DEF Sets
  <2>2. C = { f[n] : n \in A }
    <3>1. \A p \in C : \E n \in A : p = f[n]
      <4> TAKE p \in C
      <4>1. PICK n \in T : f[n] = p
        BY <1>2, Zenon
      <4>2. v[n] = w[p]
        BY <1>2, <4>1, Zenon
      <4>3. n \in A
        BY <4>2, Zenon
      <4> QED
        BY <4>1, <4>3
    <3>2. \A n \in A : f[n] \in C
      <4> TAKE n \in A
      <4>1. n \in T /\ f[n] \in S /\ v[n] = w[f[n]]
        BY <1>2, Zenon
      <4> QED
        BY <4>1, Zenon
    <3> QED
      BY <3>1, <3>2
  <2>3. Args!Paths(command, v) = Args!Listed(v, A) /\ Args!Paths(command, w) = Args!Listed(w, C)
    BY Zenon DEF Args!Paths
  <2> HIDE DEF A, C
  <2>4. EndsAgree(v, w, f, A, C)
    BY <1>3, <2>1, <2>2, Zenon
  <2> QED
    BY <2>3, <2>4, Zenon DEF EndsAgree
<1>7. ASSUME command \in Args!GeneratingCommands
      PROVE  Args!ScenarioText(v) = Args!ScenarioText(w)
  <2>1. PICK A, C : A = ScenarioStarts(command, v) /\ C = ScenarioStarts(command, w)
    OBVIOUS
  <2>2. /\ \A n : n \in A <=> n \in T /\ v[n] = "--scenario"
        /\ \A n : n \in C <=> n \in S /\ w[n] = "--scenario"
    BY <2>1, Zenon DEF ScenarioStarts
  <2>3. A \subseteq T /\ \A n \in A : Sets(command, v[n]) = "scenario"
    BY <1>7, <2>2, ScenarioWords, Zenon DEF Sets
  <2>4. C = { f[n] : n \in A }
    <3>1. \A p \in C : \E n \in A : p = f[n]
      <4> TAKE p \in C
      <4>1. PICK n \in T : f[n] = p
        BY <1>2, <2>2, Zenon
      <4>2. v[n] = w[p]
        BY <1>2, <4>1, Zenon
      <4>3. n \in A
        BY <4>2, <2>2, Zenon
      <4> QED
        BY <4>1, <4>3
    <3>2. \A n \in A : f[n] \in C
      <4> TAKE n \in A
      <4>1. n \in T /\ f[n] \in S /\ v[n] = w[f[n]]
        BY <1>2, <2>2, Zenon
      <4> QED
        BY <4>1, <2>2, Zenon
    <3> QED
      BY <3>1, <3>2
  <2>5. /\ A = {} <=> C = {}
        /\ A # {} => f[Args!Min(A)] = Args!Min(C)
    BY <1>3, <2>3, <2>4, Zenon DEF EndsAgree
  <2>6. /\ Args!ScenarioText(v) = IF A = {} THEN "late-heavy" ELSE v[Args!Min(A) + 1]
        /\ Args!ScenarioText(w) = IF C = {} THEN "late-heavy" ELSE w[Args!Min(C) + 1]
    BY <1>7, <2>1, ScenarioIsFlag
  <2>7. CASE A = {}
    BY <2>5, <2>6, <2>7, Zenon
  <2>8. CASE A # {}
    <3>1. PICK m \in A : m = Args!Min(A)
      BY <1>1, <2>3, <2>8, PositionsEnd
    <3>2. Takes(command, v[m])
      BY <1>7, <2>2, ScenarioWords, Zenon
    <3>3. v[m + 1] = w[f[m] + 1]
      BY <1>2, <2>2, <3>2, Zenon
    <3> QED
      BY <2>5, <2>6, <2>8, <3>1, <3>3, Zenon
  <2> QED
    BY <2>7, <2>8
<1>8. Args!Defaults(command, v) = Args!Defaults(command, w)
  <2>1. CASE command \in Args!GeneratingCommands
    BY <1>6, <1>7, <2>1, Zenon DEF Args!Defaults
  <2>2. CASE command \notin Args!GeneratingCommands
    BY <1>6, <2>2, Zenon DEF Args!Defaults
  <2> QED
    BY <2>1, <2>2
<1>9. PICK defaults : defaults = Args!Defaults(command, v) /\ defaults = Args!Defaults(command, w)
  BY <1>8
<1> DEFINE Setting(x, setting) ==
             IF setting = "scenario" \/ Args!Setters(command, x, setting) = {}
             THEN defaults[setting]
             ELSE Args!ValueAt(command, x, Args!Max(Args!Setters(command, x, setting)))
<1>10. /\ Args!Settings(command, v) = [setting \in DOMAIN defaults |-> Setting(v, setting)]
       /\ Args!Settings(command, w) = [setting \in DOMAIN defaults |-> Setting(w, setting)]
  BY <1>9, Zenon DEF Args!Settings
<1>11. \A setting : Setting(v, setting) = Setting(w, setting)
  BY <1>5, Zenon
<1> HIDE DEF Setting
<1> QED
  BY <1>10, <1>11, Zenon

LEMMA SwapMeansNothing ==
  ASSUME NEW X, Given \in Seq(X), Args!Accepted(Command, Given),
         NEW i \in GroupStarts, NEW j \in GroupStarts,
         GroupEnd(i) = j, SetBy(i) # SetBy(j), Args!Accepted(Command, Swapped(i, j))
  PROVE  Args!Settings(Command, Swapped(i, j)) = Args!Settings(Command, Given)
<1>1. PICK L \in Nat : L = Len(Given) /\ DOMAIN Given = 1..L
  <2>1. Len(Given) \in Nat /\ DOMAIN Given = 1..Len(Given)
    OBVIOUS
  <2> QED
    BY <2>1, Zenon
<1>2. PICK c, w, v, S : c = Command /\ w = Given /\ v = Swapped(i, j) /\ S = GroupStarts
  OBVIOUS
<1>3. S = Args!Starts(c, w) /\ AreGroups(c, w, L, S) /\ HaveValues(c, w, L, S)
  <2>1. S = Args!Starts(c, w) /\ DOMAIN w = 1..L /\ Len(w) = L /\ Args!Accepted(c, w)
    BY <1>1, <1>2, Zenon DEF GroupStarts
  <2> QED
    BY <2>1, StartsAreGroups, AcceptedIsComplete, Zenon
<1>4. ASSUME NEW n \in S
      PROVE  \E e \in Int : e = n + Size(c, w[n]) /\ GroupEnd(n) = e /\ EndsAt(L, S, n, e)
  <2>1. n \in 1..L
    BY <1>3, Zenon DEF AreGroups
  <2>2. PICK size \in Int : size = Size(c, w[n])
    BY DEF Size
  <2>3. PICK e \in Int : e = n + size
    BY <2>1
  <2>4. e = n + Size(c, w[n])
    BY <2>2, <2>3, Zenon
  <2>5. EndsAt(L, S, n, e)
    BY <1>3, <2>4, NextGroup, Zenon
  <2>6. AreGroups(Command, Given, L, S) /\ HaveValues(Command, Given, L, S)
        /\ e = n + Size(Command, Given[n])
    BY <1>2, <1>3, <2>4, Zenon
  <2>7. GroupEnd(n) = e
    BY <1>1, <1>2, <2>6, GroupEnds, Zenon
  <2> QED
    BY <2>4, <2>5, <2>7, Zenon
<1>5. PICK k \in Int : k = j + Size(c, w[j]) /\ GroupEnd(j) = k /\ EndsAt(L, S, j, k)
  BY <1>2, <1>4, Zenon
<1>6. AreNeighbours(c, w, L, S, i, j, k)
  <2>1. j = i + Size(c, w[i]) /\ EndsAt(L, S, i, j)
    BY <1>2, <1>4, Zenon
  <2> QED
    BY <1>2, <1>3, <1>5, <2>1, Zenon DEF AreNeighbours
<1>7. i \in 1..L /\ j \in 1..L /\ k \in 1..(L + 1) /\ i < j /\ j < k
  <2>1. i \in 1..L /\ j \in 1..L /\ k \in 1..(L + 1)
    BY <1>6, Neighbours, Zenon
  <2>2. i < j /\ j < k
    BY <1>6, <2>1 DEF AreNeighbours, EndsAt
  <2> QED
    BY <2>1, <2>2
<1>8. Len(v) = L /\ DOMAIN v = 1..L /\ Rearranged(w, v, L, i, j, k)
  <2>1. /\ Len(Swapped(i, j)) = L /\ DOMAIN Swapped(i, j) = 1..L
        /\ Rearranged(Given, Swapped(i, j), L, i, j, k)
    BY <1>1, <1>5, <1>7, SwappedWords
  <2> QED
    BY <1>2, <2>1, Zenon
<1>9. PICK T, f : T = { n \in 1..L : Old(i, j, k, n) \in S } /\ f = [n \in 1..L |-> Old(i, j, k, n)]
  OBVIOUS
<1>10. T = Args!Starts(c, v)
  <2>1. AreGroups(c, v, L, T)
    BY <1>6, <1>8, <1>9, SwappedGroups
  <2>2. AreGroups(c, v, L, Args!Starts(c, v))
    BY <1>8, StartsAreGroups, Zenon
  <2> QED
    BY <2>1, <2>2, OneGrouping, Zenon
<1>11. PICK e : Matching(c, w, v, S, T, f, i, j, e)
  <2>1. Matching(c, w, v, S, T, f, i, j, i + (k - j))
    BY <1>3, <1>6, <1>8, <1>9, GroupsMatch
  <2> QED
    BY <2>1, Zenon
<1>12. Sets(c, w[i]) # Sets(c, w[j])
  BY <1>2, Zenon DEF Sets, SetBy
<1>13. Args!Accepted(c, w) /\ Args!Accepted(c, v) /\ DOMAIN w = 1..L /\ Len(w) = L
  BY <1>1, <1>2, Zenon
<1>14. Args!Settings(c, v) = Args!Settings(c, w)
  BY <1>3, <1>8, <1>10, <1>11, <1>12, <1>13, SettingsMatch
<1> QED
  BY <1>2, <1>14, Zenon

(***************************************************************************)
(* For every table of texts and every list of words, two neighbouring      *)
(* groups that set different things can change places without changing a   *)
(* setting (main.rs:685-857, 966-1053).                                    *)
(***************************************************************************)
THEOREM FlagsAreFree == Spec => []OrderOfFlagsIsFree
<1>1. BenchInv => OrderOfFlagsIsFree
  <2> SUFFICES ASSUME BenchInv, Args!Accepted(Command, Given),
                      NEW i \in GroupStarts, NEW j \in GroupStarts,
                      GroupEnd(i) = j, SetBy(i) # SetBy(j), Args!Accepted(Command, Swapped(i, j))
               PROVE  Args!Settings(Command, Swapped(i, j)) = Args!Settings(Command, Given)
    BY Zenon DEF OrderOfFlagsIsFree
  <2>1. PICK X : words \in Seq(X)
    BY Zenon DEF BenchInv, IsSequence
  <2>2. Given \in Seq(X)
    BY <2>1 DEF Given
  <2> QED
    BY <2>2, SwapMeansNothing
<1> QED
  BY <1>1, BenchInvariant, PTL
=============================================================================
