SPECIFICATION DispatchSpec
CONSTANTS
  JobId = {"cpu", "net", "history", "scan", "nvml", "fallback", "graph"}
  OwnerId <- MCOwners
  PageId = {"Main", "Graphs"}
  OwnerOf <- MCOwnerOf
  JobRank <- MCJobRank
  PageWork = {"graph"}
  Discovery = {"scan"}
  AmdJobs = {}
  WideAmd = {}
  NoJob = "no job"
  NoAmd = "no amd"
  MainPage = "Main"
  Plans <- MCPlans
  FAST_PREFETCH = 1
  FIRST_PAINT_TIMEOUT = 2
  ACTIVATION_REFRESH_TIMEOUT = 1
  DEACTIVATION_GRACE = 2
  RETRY_BASE = 1
  Inputs = {"Config", "Style", "Presentation", "Page"}
  Outcomes = {"Captured", "ConfirmedAbsent", "Failed"}
  MaxStep = 1
  MaxNow = 3
  MaxRuns = 3
  MaxPublications = 2
  MaxGeneration = 2
  MaxResumes = 1
  OutcomesOf <- MCOutcomesOf
  Config <- MCConfig
  Reloads <- MCReloads
  Stimuli <- MCStimuli
  SchedulerConfig <- MCSchedulerConfig
  PagesOf <- MCPagesOf
  PageOwners = {"Page"}
  Scan = {"scan"}
  Nvml = {"nvml"}
  Fallback = {"fallback"}
  Render = {"graph"}
  GraphPage = {"Graphs"}
  GraphInputs = {"cpu"}
  LaneJobs = {"scan", "nvml", "fallback", "graph"}
  FIRST_PAINT_DEADLINE = 2
  OWNER_CHANNEL_CAPACITY = 2
  MaxStyles = 1
INVARIANTS
  RunsAreAccounted
  MemoryAgrees
  GraphIsOnItsWay
PROPERTIES
  FirstPanelComplete
  FirstPanelPublished
  OwnersAreFreed
CHECK_DEADLOCK FALSE
