CONSTANTS
  Suite = Suite
  SuiteOfOtherSignal = SuiteOfOtherSignal
  Sweep = Sweep
  SweepWithDetails = SweepWithDetails
  Blank = Blank
  Torn = Torn
  MaxRuns = 3
  Files <- MCFiles
  Jobs <- MCJobs
  WritesOf <- MCWritesOf
  Hashed <- MCHashed
  TextOf <- MCTextOf
SPECIFICATION DirectorySpec
INVARIANT VerifiedArtifactsBelongTogether
