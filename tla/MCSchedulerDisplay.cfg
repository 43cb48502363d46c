SPECIFICATION Spec
CONSTANTS
  JobId = {"cpu"}
  OwnerId <- MCOwners
  PageId = {"Main"}
  OwnerOf <- MCOwnerOf
  JobRank <- MCJobRank
  PageWork = {}
  Discovery = {}
  AmdJobs = {}
  WideAmd = {}
  NoJob = "no job"
  NoAmd = "no amd"
  MainPage = "Main"
  Plans <- DisplayPlans
  FAST_PREFETCH = 1
  FIRST_PAINT_TIMEOUT = 2
  ACTIVATION_REFRESH_TIMEOUT = 1
  DEACTIVATION_GRACE = 3
  RETRY_BASE = 1
  Inputs = {"Config", "Inventory", "Sleep"}
  Outcomes = {"Captured", "Baseline", "ConfirmedAbsent", "Failed"}
  MaxStep = 4
  MaxNow = 6
  MaxRuns = 3
  MaxPublications = 4
  MaxGeneration = 1
  MaxResumes = 1
INVARIANTS
  FastPhase
PROPERTIES
  WakeAdvances
  DisplayDeadlinesAccounted
CHECK_DEADLOCK FALSE
