SPECIFICATION MCSpec
CONSTANTS
  Interface = {"wlan", "eth"}
  Wireless = {"wlan"}
  NetGraphLength = 2
  MaxNetTime = 2
  MaxBytes = 1
  MaxRoutes = 1
  TempSensor = {"k10temp", "zenpower"}
  Gpu = {"nvidia", "amd"}
  CpuDemands <- MCCpuDemands
  MaxCores = 2
  CpuGraphLength = 1
  MaxCpuTime = 2
  MaxCpuMoves = 1
  Disk = {"nvme0", "sda"}
  Label = {"bay"}
  Source = {"hwmon1", "hwmon2"}
  DiskGraphLength = 2
  MaxDiskTime = 2
  MaxDiskMoves = 2
  GpuHardware <- MCGpuHardware
  FallbackAge = 1
  GpuGraphLength = 1
  MaxGpuTime = 1
  MaxGpuMoves = 1
  MaxScanTime = 3
  MaxScanMoves = 1
  Battery = {"BAT0", "BAT1"}
  Peripheral = {"m1", "m2"}
  PowerConfigs <- MCPowerConfigs
  MaxPowerTime = 1
  MaxPowerMoves = 2
  Device = {1, 2}
  Asked = 1
  Features <- MCFeatures
  Level = {1, 2}
  MAX_READS = 2
  MaxReports = 2
  MaxQueries = 1
  StatusFile = {"f1", "f2"}
  MaxStatusTime = 1
  MaxStatusMoves = 2
  Npu = {"npu0", "npu1"}
  NpuGraphLength = 1
  MaxNpuTime = 2
  MaxNpuMoves = 1
  MemInfos <- MCMemInfos
  MemoryLength = 1
  MaxMemoryTime = 1
  CatalogueConfigs <- MCConfigs
  ReloadedConfigs <- MCReloaded
  Machines <- MCMachines
  FailingProbes <- MCFailingProbes
  MaxDiscoveryMoves = 1
INVARIANTS
  NetworkSamplesHold
  ProcessorHolds
  SourcesAgree
  GpuSeriesAgree
  PowerHolds
  CatalogueFits
CHECK_DEADLOCK FALSE
