------------------------------- MODULE MCSensors -------------------------------
(* The owners of the sensors, and the discovery and the catalogue that tell   *)
(* them what to read, checked in one run.  They share no state: their         *)
(* behaviours are explored side by side, one part each, and not interleaved.  *)
EXTENDS NetworkSamples, CpuSamples, DiskSamples, GpuSamples, ProcessSamples,
        PowerSamples, BoltQuery, ExternalSamples, NpuSamples, MemorySamples, Discovery

VARIABLE part

all == <<networkVars, cpuVars, diskVars, gpuVars, processVars, powerVars, boltVars,
         externalVars, npuVars, memoryVars, discoveryVars, part>>

MCCpuDemands == {{"cpu", "history"}, {"cpu", "graphs"}, {"cores"}}

MCCard(nvidia, amd, intel) == [nvidia |-> nvidia, amd |-> amd, intel |-> intel]

MCAmd(codec) == Some([pci |-> "amd0", codec |-> codec])

MCGpuHardware ==
  { MCCard(TRUE, MCAmd(Some("vcn0")), None), MCCard(FALSE, MCAmd(Some("vcn0")), None),
    MCCard(FALSE, MCAmd(Some("vcn1")), None), MCCard(FALSE, MCAmd(None), None),
    MCCard(FALSE, None, Some("intel0")) }

MCMouse(unifying, bolt, named) == [unifying |-> unifying, bolt |-> bolt, named |-> named]

MCPowerConfigs ==
  { MCMouse(None, None, FALSE), MCMouse(None, Some("slot"), FALSE),
    MCMouse(None, Some("slot"), TRUE), MCMouse(Some("m2"), Some("slot"), FALSE) }

MCFeatures ==
  { [name |-> 0, battery |-> 2], [name |-> 2, battery |-> 3], [name |-> 2, battery |-> 0] }

MCMemory(total, free, available, cached, reclaimable, pagecache, low, swap, swapFree) ==
  [total |-> total, free |-> free, available |-> available, cached |-> cached,
   reclaimable |-> reclaimable, pagecache |-> pagecache, low |-> low,
   swap |-> swap, swapFree |-> swapFree]

MCMemInfos ==
  { MCMemory(Some(7), Some(free), None, None, Some(r), Some(p), Some(low), Some(0), None) :
      free \in {0, 2}, r \in {0, 3}, p \in {1, 5}, low \in 0..2 }
  \cup { MCMemory(total, Some(1), available, Some(2), None, None, None, Some(3), free) :
      total \in {None, Some(0), Some(6)}, available \in {None, Some(4), Some(9)},
      free \in {None, Some(1), Some(4)} }

MCItem(m) == [metric |-> m, history |-> FALSE]

MCConfig(panel, tooltip, alerts, pages, charts) ==
  [panel |-> {MCItem(m) : m \in panel}, tooltip |-> {MCItem(m) : m \in tooltip},
   notifications |-> alerts, pages |-> pages, charts |-> charts,
   unifying |-> [r \in Role |-> {}], bolt |-> [r \in Role |-> {}],
   smart |-> TRUE, mounts |-> {"auto"}, files |-> {"system_updates"}]

MCReloaded ==
  { MCConfig({"cpu_temp"}, {"net_info"}, {"gpu_amd_temp"}, {}, {}),
    MCConfig({"battery_mouse"}, {"disk_usage"}, {}, {}, {}) }

MCPeripherals ==
  { [MCConfig({"battery_mouse"}, {"disk_smart"}, {}, {}, {}) EXCEPT
        !.unifying["battery_mouse"] = {"m9"}, !.smart = FALSE],
    [MCConfig({"disk_usage"}, {"battery_mouse"}, {"battery_kbd"}, {"processes", "fastfetch"}, {}) EXCEPT
        !.bolt["battery_kbd"] = {"slot"}, !.mounts = {"/home"}] }

MCConfigs ==
  {MCConfig({m}, {}, {}, {}, {}) : m \in Metric}
  \cup {MCConfig({}, {m}, {}, {"cpu_cores"}, {}) : m \in Metric}
  \cup {MCConfig({"net_speed", "cpu_usage"}, {"net_info"}, {"cpu_temp"}, {}, {})}
  \cup {MCConfig({}, {}, {m}, {}, {}) : m \in Alert}
  \cup {MCConfig({}, {}, {}, {}, {})}
  \cup {MCConfig({}, {}, {}, {"graphs"}, charts) : charts \in {{}, {"temperature", "disk"}}}
  \cup {MCConfig({"gpu_amd_power"}, {"gpu_amd_codec"}, {}, {"graphs"}, {"npu"})}
  \cup {[MCConfig({}, {}, {}, {}, {}) EXCEPT !.panel = {[metric |-> m, history |-> TRUE]}] :
          m \in {"cpu_usage", "mem_usage"}}
  \cup MCPeripherals

MCMachine(some) == [p \in Part |-> IF p \in DOMAIN some THEN some[p] ELSE {}]

MCLaptop ==
  MCMachine([cpu_temp |-> {"k10temp"}, cpu_freq |-> {"cpu0"}, temps |-> {"nvme"},
               amd |-> {[pci |-> "amd0", metrics |-> FastAmd \cup SlowAmd]}, npu |-> {"npu0"},
               net |-> {"wlan"}, wifi |-> {"wifi"}, disk_io |-> {"nvme0"}, mounts |-> {},
               smart |-> {"sda"}, battery_mouse |-> {"m1"}, batteries |-> {"BAT0"}])

MCMachines ==
  { MCLaptop,
    MCMachine([cpu_temp |-> {"k10temp"}, cpu_turbo |-> {"boost"}, fans |-> {"fan1"},
               nvidia |-> {"nvidia"}, intel_freq |-> {"gt0"}, intel_pci |-> {"intel0"},
               amd |-> {[pci |-> "amd0", metrics |-> {"gpu_amd_temp"}]}, net |-> {"eth"},
               backlight |-> {"screen"}, battery_kbd |-> {"k1"}, mounts |-> {"/data"}]) }

MCFailingProbes == {{"net"}, {"cpu_temp"}, {"amd"}, {"battery_mouse"}}

(* Sensors, cards, devices and drives are interchangeable: those the machine  *)
(* starts with can be fixed.                                                  *)
MCInit ==
  /\ part \in {"network", "cpu", "disk", "gpu", "process", "power", "bolt", "external",
               "npu", "memory", "discovery"}
  /\ DiscoveryInit /\ machine = MCLaptop
  /\ part # "discovery" =>
       catCfg = MCConfig({}, {}, {}, {}, {}) /\ known["amd"] # {} /\ known["cpu_temp"] # {}
  /\ NetworkInit /\ (part # "network" => wire.route = Some("wlan") /\ netWanted = {})
  /\ CpuInit /\ cpuHw = [temp |-> Some("k10temp"), gpu |-> Some("amd")]
  /\ part # "cpu" => cpuWanted = {"cores"}
  /\ DiskInit /\ diskHw = [io |-> Some("sda"), labels |-> [l \in Label |-> Some("hwmon1")]]
  /\ part # "disk" => diskWanted = {"labels"}
  /\ GpuInit
  /\ gpuHw \in {MCCard(FALSE, MCAmd(Some("vcn0")), None), MCCard(FALSE, None, Some("intel0"))}
  /\ part # "gpu" => gpuHw.amd = None
  /\ ProcessInit /\ (part # "process" => procWanted = {})
  /\ PowerInit /\ powerHw = [batteries |-> Battery, mouse |-> Some("m1")]
  /\ part # "power" => powerCfg = MCMouse(None, None, FALSE)
  /\ BoltInit
  /\ part # "bolt" => boltDevice = [features |-> [name |-> 2, battery |-> 3], level |-> 1]
  /\ ExternalInit
  /\ part # "external" => externalCfg = [f \in File |-> None] /\ externalWanted = {} /\ ~backlight
  /\ NpuInit /\ (part # "npu" => npuHw = None /\ npuWanted = {})
  /\ MemoryInit
  /\ part # "memory" => meminfo = (CHOOSE m \in MemInfos : TRUE) /\ ~swapWanted

MCNext ==
  \/ /\ part = "network" /\ NetworkNext
     /\ UNCHANGED <<cpuVars, diskVars, gpuVars, processVars, powerVars, boltVars,
                    externalVars, npuVars, memoryVars, discoveryVars, part>>
  \/ /\ part = "cpu" /\ CpuNext
     /\ UNCHANGED <<networkVars, diskVars, gpuVars, processVars, powerVars, boltVars,
                    externalVars, npuVars, memoryVars, discoveryVars, part>>
  \/ /\ part = "disk" /\ DiskNext
     /\ UNCHANGED <<networkVars, cpuVars, gpuVars, processVars, powerVars, boltVars,
                    externalVars, npuVars, memoryVars, discoveryVars, part>>
  \/ /\ part = "gpu" /\ GpuNext
     /\ UNCHANGED <<networkVars, cpuVars, diskVars, processVars, powerVars, boltVars,
                    externalVars, npuVars, memoryVars, discoveryVars, part>>
  \/ /\ part = "process" /\ ProcessNext
     /\ UNCHANGED <<networkVars, cpuVars, diskVars, gpuVars, powerVars, boltVars,
                    externalVars, npuVars, memoryVars, discoveryVars, part>>
  \/ /\ part = "power" /\ PowerNext
     /\ UNCHANGED <<networkVars, cpuVars, diskVars, gpuVars, processVars, boltVars,
                    externalVars, npuVars, memoryVars, discoveryVars, part>>
  \/ /\ part = "bolt" /\ BoltNext
     /\ UNCHANGED <<networkVars, cpuVars, diskVars, gpuVars, processVars, powerVars,
                    externalVars, npuVars, memoryVars, discoveryVars, part>>
  \/ /\ part = "external" /\ ExternalNext
     /\ UNCHANGED <<networkVars, cpuVars, diskVars, gpuVars, processVars, powerVars,
                    boltVars, npuVars, memoryVars, discoveryVars, part>>
  \/ /\ part = "npu" /\ NpuNext
     /\ UNCHANGED <<networkVars, cpuVars, diskVars, gpuVars, processVars, powerVars,
                    boltVars, externalVars, memoryVars, discoveryVars, part>>
  \/ /\ part = "discovery" /\ DiscoveryNext
     /\ UNCHANGED <<networkVars, cpuVars, diskVars, gpuVars, processVars, powerVars, boltVars,
                    externalVars, npuVars, memoryVars, part>>
  \/ /\ part = "memory" /\ MemoryNext
     /\ UNCHANGED <<networkVars, cpuVars, diskVars, gpuVars, processVars, powerVars,
                    boltVars, externalVars, npuVars, discoveryVars, part>>

MCSpec == MCInit /\ [][MCNext]_all

(* What the processor, the memory and the processes show was measured of the  *)
(* sensor, the cores and the counters it stands for: the samples CpuState,    *)
(* MemoryState and ProcessState keep through a change of either.              *)
ProcessorHolds ==
  part \in {"cpu", "process", "memory"} => CpuSamplesHold /\ ProcessesHold /\ MemoryHolds

(* A disk, a status file and an NPU that are replaced or not asked for any    *)
(* more take what was read of them along: reconcile_sources of their owners   *)
(* and invalidate_scheduled_job.                                              *)
SourcesAgree ==
  part \in {"disk", "external", "npu"} => DisksAgree /\ ExternalAgrees /\ NpuAgrees

(* A battery shows what was read of it, and the level of a Bolt device is the *)
(* one that device answered: PowerState and the requests of hid.rs.           *)
PowerHolds == part \in {"power", "bolt"} => BatteriesAgree /\ BoltAnswersHold

(* What scheduler_config demands and what discovery makes known fit.          *)
CatalogueFits == part = "discovery" => CatalogueHolds
=============================================================================
