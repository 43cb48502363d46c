------------------------------- MODULE Catalogue -------------------------------
(* The job catalogue: which jobs a configuration asks of the hardware that is *)
(* known, and which of the surfaces demands each.  A job is its kind and the  *)
(* source it reads.  Metrics the catalogue treats alike are one.  The         *)
(* hardware is a function from its parts, each the set of the sources found.  *)
EXTENDS RetainedSamples, FiniteSets

Role == {"battery_mouse", "battery_kbd"}

Metric ==
  {"cpu_usage", "mem_usage", "swap_usage", "cpu_freq", "cpu_turbo", "cpu_temp", "load_avg", "hd_temp",
   "fan_speed", "disk_usage", "disk_smart", "gpu_nvidia", "npu", "gpu_intel_freq",
   "gpu_intel_usage", "screen_brightness", "battery_sys", "net_speed", "net_info", "disk_io",
   "top_process", "system_updates", "server_check", "gpu_amd_usage", "gpu_amd_codec",
   "gpu_amd_temp", "gpu_amd_power"} \cup Role

(* The metrics there are alerts of.                                           *)
Alert ==
  {"cpu_temp", "gpu_nvidia", "gpu_amd_temp", "disk_usage", "disk_smart", "hd_temp",
   "battery_sys", "load_avg", "server_check"} \cup Role

(* What discovery finds; the confirmed automatic mounts are kept beside it.   *)
Part ==
  {"cpu_temp", "cpu_freq", "cpu_turbo", "temps", "fans", "batteries", "smart", "nvidia", "amd",
   "npu", "intel_freq", "intel_pci", "backlight", "net", "wifi", "disk_io", "mounts"} \cup Role

FastAmd == {"gpu_amd_usage", "gpu_amd_codec"}

SlowAmd == {"gpu_amd_temp", "gpu_amd_power"}

Graphs(c) == "graphs" \in c.pages

Chart(c, name) == Graphs(c) /\ name \in c.charts

MetricCapabilities(m) ==
  CASE m \in {"cpu_usage", "mem_usage"} -> {}
    [] m = "cpu_freq" -> {"cpu_freq", "cpu_turbo"}
    [] OTHER -> {m}

GraphsPageCapabilities ==
  {"gpu_nvidia", "gpu_intel_usage", "net_speed"} \cup FastAmd

ItemMetrics(items) == {i.metric : i \in items}

ConfiguredCapabilities(c) ==
  (UNION {MetricCapabilities(m) : m \in ItemMetrics(c.panel \cup c.tooltip)})
  \cup c.notifications
  \cup (IF Graphs(c) THEN GraphsPageCapabilities ELSE {})
  \cup (IF Chart(c, "temperature") THEN {"cpu_temp", "gpu_amd_temp"} ELSE {})
  \cup (IF Chart(c, "disk") THEN {"disk_io"} ELSE {})
  \cup (IF Chart(c, "npu") THEN {"npu"} ELSE {})

(* The inventory a metric depends on; a configured address needs none.        *)
MetricFamily(c, m) ==
  CASE m \in {"cpu_freq", "cpu_turbo", "cpu_temp"} -> {"Cpu"}
    [] m \in {"hd_temp", "fan_speed"} -> {"Thermal"}
    [] m = "disk_smart" /\ c.smart -> {"Smart"}
    [] m = "gpu_nvidia" -> {"Nvidia"}
    [] m \in {"gpu_intel_freq", "gpu_intel_usage"} -> {"Intel"}
    [] m \in FastAmd \cup SlowAmd -> {"Amd"}
    [] m = "npu" -> {"AmdNpu"}
    [] m = "screen_brightness" -> {"Backlight"}
    [] m = "battery_sys" -> {"SystemBattery"}
    [] m \in Role /\ c.unifying[m] = {} /\ c.bolt[m] = {} -> {"Peripheral"}
    [] m \in {"net_speed", "net_info"} -> {"Network"}
    [] m = "disk_io" -> {"DiskIo"}
    [] OTHER -> {}

Jobs(kind, sources) == {kind} \X sources

Singleton(kind) == <<kind, "">>

CpuJob(c, hw) ==
  <<"Cpu", [p \in {"cpu_temp", "cpu_freq", "cpu_turbo"} |->
              IF p \in ConfiguredCapabilities(c) THEN hw[p] ELSE {}]>>

MountsOf(c, hw) == IF c.mounts = {"auto"} THEN hw["mounts"] ELSE c.mounts

(* resolve_peripheral_source: the Unifying path, then the Bolt slot, then what *)
(* discovery found.                                                           *)
PeripheralSource(c, hw, role) ==
  IF c.unifying[role] # {} THEN c.unifying[role]
  ELSE IF c.bolt[role] # {} THEN c.bolt[role] ELSE hw[role]

AmdJobs(hw, m) ==
  { <<IF m \in FastAmd THEN "AmdFast" ELSE "AmdSlow", card.pci>> :
      card \in {x \in hw["amd"] : m \in x.metrics} }

MetricJobs(c, hw, m) ==
  CASE m \in {"cpu_usage", "cpu_freq", "cpu_turbo", "cpu_temp", "load_avg"} -> {CpuJob(c, hw)}
    [] m \in {"mem_usage", "swap_usage"} -> {Singleton("Memory")}
    [] m = "hd_temp" -> Jobs("DiskTemperature", hw["temps"])
    [] m = "fan_speed" -> Jobs("FanSpeed", hw["fans"])
    [] m = "disk_usage" -> Jobs("DiskUsage", MountsOf(c, hw))
    [] m = "disk_smart" -> IF c.smart THEN Jobs("Smart", hw["smart"]) ELSE {}
    [] m = "gpu_nvidia" -> {"NvidiaNvml", "NvidiaFallback"} \X hw["nvidia"]
    [] m \in FastAmd \cup SlowAmd -> AmdJobs(hw, m)
    [] m = "npu" -> Jobs("AmdNpu", hw["npu"])
    [] m = "gpu_intel_freq" -> Jobs("IntelFrequency", hw["intel_freq"])
    [] m = "gpu_intel_usage" -> Jobs("IntelUsage", hw["intel_pci"])
    [] m = "screen_brightness" -> Jobs("Brightness", hw["backlight"])
    [] m = "battery_sys" -> Jobs("SystemBattery", hw["batteries"])
    [] m \in Role -> Jobs("PeripheralBattery", {<<m, s>> : s \in PeripheralSource(c, hw, m)})
    [] m = "net_speed" -> Jobs("NetworkRate", hw["net"])
    [] m = "net_info" -> {Singleton("NetworkIdentity")}
    [] m = "disk_io" -> Jobs("DiskIo", hw["disk_io"])
    [] m = "top_process" -> {Singleton("PanelProcesses")}
    [] m \in {"system_updates", "server_check"} -> Jobs("ExternalFile", c.files \cap {m})

HistoryKinds ==
  {"CpuHistory", "MemoryHistory", "NetworkHistory", "DiskIoHistory", "AmdNpuHistory",
   "CpuCoreHistory", "GpuHistory"}

(* A history that an item renders comes with the job it samples.              *)
ItemJobs(c, hw, i) ==
  MetricJobs(c, hw, i.metric)
  \cup (CASE i.history /\ i.metric = "cpu_usage" -> {Singleton("CpuHistory")}
          [] i.history /\ i.metric = "mem_usage" -> {Singleton("MemoryHistory")}
          [] OTHER -> {})

SurfaceJobs(c, hw, items) == UNION {ItemJobs(c, hw, i) : i \in items}

NotificationJobs(c, hw) == UNION {MetricJobs(c, hw, m) : m \in c.notifications}

(* A history of a source that may be missing: there is none without it.       *)
WithHistory(jobs, history) == IF jobs = {} THEN {} ELSE jobs \cup {history}

(* The card whose history the graphs page keeps, and the jobs that measure it. *)
GraphGpuJobs(c, hw) ==
  IF hw["nvidia"] # {} THEN MetricJobs(c, hw, "gpu_nvidia")
  ELSE IF hw["amd"] # {}
       THEN (UNION {AmdJobs(hw, m) : m \in FastAmd})
            \cup (IF Chart(c, "temperature") THEN AmdJobs(hw, "gpu_amd_temp") ELSE {})
       ELSE MetricJobs(c, hw, "gpu_intel_usage")

SelectedSource(hw) ==
  IF hw["nvidia"] # {} THEN {"nvidia"}
  ELSE IF hw["amd"] # {} THEN {card.pci : card \in hw["amd"]} ELSE hw["intel_pci"]

GraphJobs(c, hw) ==
  {CpuJob(c, hw), Singleton("CpuHistory"), Singleton("Memory"), Singleton("MemoryHistory")}
  \cup WithHistory(Jobs("NetworkRate", hw["net"]), Singleton("NetworkHistory"))
  \cup (IF Chart(c, "disk")
        THEN WithHistory(Jobs("DiskIo", hw["disk_io"]), Singleton("DiskIoHistory")) ELSE {})
  \cup (IF Chart(c, "npu")
        THEN Jobs("AmdNpu", hw["npu"]) \cup Jobs("AmdNpuHistory", hw["npu"]) ELSE {})
  \cup GraphGpuJobs(c, hw)
  \cup Jobs("GpuHistory", SelectedSource(hw))

SurfaceFamilies(c, items) == UNION {MetricFamily(c, m) : m \in ItemMetrics(items)}

(* Fault: an alert asks for no inventory of its own.                          *)
NoNotificationFamilies(c) == {}

NotificationFamilies(c) == UNION {MetricFamily(c, m) : m \in c.notifications}

GraphFamilies(c) ==
  (IF Graphs(c) THEN {"Nvidia", "Amd", "Intel", "Network"} ELSE {})
  \cup (IF Chart(c, "temperature") THEN {"Cpu"} ELSE {})
  \cup (IF Chart(c, "disk") THEN {"DiskIo"} ELSE {})
  \cup (IF Chart(c, "npu") THEN {"AmdNpu"} ELSE {})

PageJobs(page) ==
  CASE page = "processes" -> {Singleton("PageProcesses")}
    [] page = "cpu_cores" -> {Singleton("CpuCores"), Singleton("CpuCoreHistory")}
    [] page \in {"connections", "fastfetch"} -> Jobs("PageCommand", {page})
    [] page = "graphs" -> {Singleton("PageRender")}
    [] OTHER -> {}

(* The automatic mounts are read again wherever the use of a disk is wanted.  *)
WithMounts(c, jobs) ==
  IF c.mounts = {"auto"} /\ \E j \in jobs : j[1] = "DiskUsage"
  THEN jobs \cup {Singleton("MountInventory")} ELSE jobs

InventoryJobs(families) == Jobs("HardwareDiscovery", families)

(* What is wanted while nothing is shown, by the main tooltip and by a page.  *)
Hidden(c, hw) ==
  WithMounts(c,
    SurfaceJobs(c, hw, c.panel) \cup NotificationJobs(c, hw)
    \cup (IF Graphs(c) THEN GraphJobs(c, hw) ELSE {})
    \cup InventoryJobs(SurfaceFamilies(c, c.panel) \cup NotificationFamilies(c)
                       \cup GraphFamilies(c)))

Tooltip(c, hw) ==
  WithMounts(c, SurfaceJobs(c, hw, c.tooltip) \cup InventoryJobs(SurfaceFamilies(c, c.tooltip)))

(* The jobs the first panel waits for.                                        *)
StartupPanel(c, hw) ==
  LET panel == SurfaceJobs(c, hw, c.panel) \cup InventoryJobs(SurfaceFamilies(c, c.panel))
  IN  {j \in WithMounts(c, panel) : j[1] \notin HistoryKinds}

SchedulerConfig(c, hw) ==
  [hidden |-> Hidden(c, hw), tooltip |-> Tooltip(c, hw),
   pages |-> [p \in c.pages |-> PageJobs(p)], startup |-> StartupPanel(c, hw)]

(* finish_amd_jobs: the metrics each surface takes of an AMD job.             *)
AmdHidden(c, hw) ==
  ItemMetrics(c.panel) \cup (c.notifications \cap {"gpu_amd_temp"})
  \cup (IF hw["nvidia"] = {} /\ Graphs(c) THEN FastAmd ELSE {})
  \cup (IF hw["nvidia"] = {} /\ Chart(c, "temperature") THEN {"gpu_amd_temp"} ELSE {})

AmdMetrics(hw, kind, wanted) ==
  { m \in wanted \cap (IF kind = "AmdFast" THEN FastAmd ELSE SlowAmd) :
      \E card \in hw["amd"] : m \in card.metrics }
=============================================================================
