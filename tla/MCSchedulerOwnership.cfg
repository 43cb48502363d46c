SPECIFICATION Spec
CONSTANTS
  JobId = {"cpu", "history", "fan"}
  OwnerId <- MCOwners
  PageId = {"Main"}
  OwnerOf <- MCOwnerOf
  JobRank <- MCJobRank
  PageWork = {}
  Discovery = {}
  AmdJobs = {}
  WideAmd = {}
  NoJob = "no job"
  NoAmd = "no amd"
  MainPage = "Main"
  Plans <- OwnershipPlans
  FAST_PREFETCH = 1
  FIRST_PAINT_TIMEOUT = 2
  ACTIVATION_REFRESH_TIMEOUT = 1
  DEACTIVATION_GRACE = 3
  RETRY_BASE = 1
  Inputs = {"Config", "Inventory", "Sleep", "Stop"}
  Outcomes = {"Captured", "Baseline", "ConfirmedAbsent", "Failed"}
  MaxStep = 2
  MaxNow = 3
  MaxRuns = 3
  MaxPublications = 3
  MaxGeneration = 1
  MaxResumes = 1
INVARIANTS
  TypeOK
  OwnerExclusive
  InFlightIsCurrent
  HistoriesHold
  SleepIsSafe
PROPERTIES
  KeepsSlots
CHECK_DEADLOCK FALSE
