SPECIFICATION FairSpec
CONSTANTS
  DiscoveryJob = {"amd", "disk"}
  OWNER_CHANNEL_CAPACITY = 2
  MaxLifecycle = 3
  MaxConfig = 3
INVARIANTS
  RescanOutstanding
  CoalescingIsFaithful
PROPERTIES
  StaleInventoryIgnored
  ResumeReconciled
