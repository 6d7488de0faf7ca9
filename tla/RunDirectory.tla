---------------------------- MODULE RunDirectory ----------------------------
(***************************************************************************)
(* The directory of artifacts a command leaves behind: run_suite() and     *)
(* sensitivity() of crates/asof-cli/src/main.rs, from their first write to *)
(* their return.                                                           *)
(*                                                                         *)
(* A command writes one file after the other, each with fs::write, which   *)
(* truncates a file before it fills it.  It may be killed at any moment,   *)
(* and it stops at a write that fails.  The same directory is used again:  *)
(* the one run_suite() chooses depends on its scenario and seed only.      *)
(***************************************************************************)
EXTENDS Naturals, SequencesExt

CONSTANTS
  Files,       \* the artifacts, without the manifest
  Jobs,        \* the invocations to try
  WritesOf,    \* the artifacts each job writes, in order
  Hashed,      \* the artifacts whose hash a manifest records
  TextOf,      \* what a job writes into an artifact
  Blank,       \* of a file: it does not exist
  Torn,        \* of a file: it ends early
  MaxRuns      \* bound on the runs in one directory

ASSUME DirectoryAssumption ==
  /\ WritesOf \in [Jobs -> Seq(Files)]
  /\ \A j \in Jobs : \A m, n \in DOMAIN WritesOf[j] : WritesOf[j][m] = WritesOf[j][n] => m = n
  /\ "manifest" \notin Files
  /\ Blank \notin Jobs
  /\ Hashed \subseteq Files
  /\ DOMAIN TextOf = Jobs \X Files
  /\ \A text \in {TextOf[x] : x \in Jobs \X Files} : text # Blank /\ text # Torn
  /\ Blank # Torn
  /\ MaxRuns \in Nat

VARIABLES
  disk,       \* the content of every artifact
  manifest,   \* Blank, Torn, or the job and the hashes it recorded
  job,        \* the running invocation, or Blank
  step,       \* the write the run is at
  open,       \* the file of that write is truncated
  runs,       \* how many runs were started
  outcome     \* how the last run ended: "none", "returned", "failed" or "killed"

directory == <<disk, manifest, job, step, open, runs, outcome>>

Written(j) == { WritesOf[j][n] : n \in DOMAIN WritesOf[j] }

\* Seeded error: the optional artifacts are always listed.
ManifestOfAll(j) ==
  [ job |-> j, hashes |-> [ f \in Hashed |-> TextOf[<<j, f>>] ] ]

\* RunManifest::new() and format_sensitivity_manifest_json(): the hash of an
\* artifact stands for its text, and is null for one this run did not write.
ManifestOf(j) ==
  [ job |-> j, hashes |-> [ f \in Written(j) \cap Hashed |-> TextOf[<<j, f>>] ] ]

ASSUME ManifestAssumption == \A j \in Jobs : ManifestOf(j) \notin {Blank, Torn}

\* Seeded error: the manifest is written before the last artifact.
PlanWithEarlyManifest(j) ==
  IF WritesOf[j] = <<>> THEN <<"manifest">>
  ELSE InsertAt(WritesOf[j], Len(WritesOf[j]), "manifest")

\* The files of a run in the order of their writes, the manifest last.
Plan(j) == Append(WritesOf[j], "manifest")

DirectoryInit ==
  /\ disk = [f \in Files |-> Blank]
  /\ manifest = Blank
  /\ job = Blank
  /\ step = 0
  /\ open = FALSE
  /\ runs = 0
  /\ outcome = "none"

Running == job # Blank

Start(j) ==
  /\ ~Running
  /\ runs < MaxRuns
  /\ job' = j
  /\ step' = 1
  /\ runs' = runs + 1
  /\ UNCHANGED <<disk, manifest, open, outcome>>

Target == Plan(job)[step]

\* fs::write(): the file is created or truncated ...
Truncate ==
  /\ Running
  /\ step <= Len(Plan(job))
  /\ ~open
  /\ open' = TRUE
  /\ IF Target = "manifest"
     THEN manifest' = Torn /\ UNCHANGED disk
     ELSE disk' = [disk EXCEPT ![Target] = Torn] /\ UNCHANGED manifest
  /\ UNCHANGED <<job, step, runs, outcome>>

\* ... and then filled.
Fill ==
  /\ open
  /\ open' = FALSE
  /\ IF Target = "manifest"
     THEN manifest' = ManifestOf(job) /\ UNCHANGED disk
     ELSE disk' = [disk EXCEPT ![Target] = TextOf[<<job, Target>>]] /\ UNCHANGED manifest
  /\ step' = step + 1
  /\ UNCHANGED <<job, runs, outcome>>

End(how) ==
  /\ job' = Blank
  /\ step' = 0
  /\ open' = FALSE
  /\ outcome' = how
  /\ UNCHANGED <<disk, manifest, runs>>

\* After its last write a run returns, whether its checks passed or not.
Return == Running /\ step > Len(Plan(job)) /\ End("returned")

\* A write fails before it has truncated the file or before it has filled it.
WriteFails == Running /\ step <= Len(Plan(job)) /\ End("failed")

Killed == Running /\ End("killed")

Idle == ~Running /\ runs = MaxRuns /\ UNCHANGED directory

DirectoryNext ==
  \/ \E j \in Jobs : Start(j)
  \/ Truncate \/ Fill \/ Return \/ WriteFails \/ Killed \/ Idle

DirectorySpec == DirectoryInit /\ [][DirectoryNext]_directory

-----------------------------------------------------------------------------
Whole == manifest \notin {Blank, Torn}

\* What a reader can check: every hash of the manifest against its file.
Verifies == Whole /\ \A f \in DOMAIN manifest.hashes : disk[f] = manifest.hashes[f]

(***************************************************************************)
(* A run that returned left a manifest of its own that verifies, and every *)
(* artifact it wrote beside it, whatever earlier runs were killed or       *)
(* failed in the same directory (main.rs:904-939, 257-308).                *)
(***************************************************************************)
ReturnedRunIsLinked ==
  ~Running /\ outcome = "returned" =>
    /\ Verifies
    /\ \A f \in Written(manifest.job) : disk[f] = TextOf[<<manifest.job, f>>]

(***************************************************************************)
(* A manifest is never ahead of its files: when it becomes whole, every    *)
(* artifact of its run is, so a run that dies leaves no certificate of its *)
(* own for artifacts it did not finish (main.rs:936-939, 258-308).         *)
(***************************************************************************)
ManifestIsLast ==
  [][ manifest' # manifest /\ manifest' \notin {Blank, Torn} =>
        \A f \in Written(job) : disk'[f] = TextOf[<<job, f>>] ]_directory

(***************************************************************************)
(* "It proves the artifacts belong together"                               *)
(* (docs/audit-artifacts.md:103): when no run is at work and a certificate *)
(* verifies, every artifact listed beside it is the certified run's.       *)
(***************************************************************************)
VerifiedArtifactsBelongTogether ==
  ~Running /\ Verifies =>
    \A f \in Written(manifest.job) : disk[f] = TextOf[<<manifest.job, f>>]
=============================================================================
