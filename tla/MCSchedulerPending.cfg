SPECIFICATION Spec
CONSTANTS
  JobId = {"fan", "gpu"}
  OwnerId <- MCOwners
  PageId = {"Main", "Other"}
  OwnerOf <- MCOwnerOf
  JobRank <- MCJobRank
  PageWork = {}
  Discovery = {}
  AmdJobs = {"wide"}
  WideAmd = {"wide"}
  NoJob = "no job"
  NoAmd = "no amd"
  MainPage = "Main"
  Plans <- TooltipPlans
  FAST_PREFETCH = 1
  FIRST_PAINT_TIMEOUT = 2
  ACTIVATION_REFRESH_TIMEOUT = 1
  DEACTIVATION_GRACE = 2
  RETRY_BASE = 1
  Inputs = {"Presentation"}
  Outcomes = {"Captured", "Failed"}
  MaxStep = 1
  MaxNow = 4
  MaxRuns = 3
  MaxPublications = 4
  MaxGeneration = 1
  MaxResumes = 1
PROPERTIES
  NoTooltipWhilePending
CHECK_DEADLOCK FALSE
