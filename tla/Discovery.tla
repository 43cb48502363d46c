------------------------------- MODULE Discovery -------------------------------
(* How the hardware becomes known: the local attempt of a start or a reload,  *)
(* the run of each demanded inventory family, the route the identity of the   *)
(* network reads and the rescan after a resume.  Every probe can fail and     *)
(* then leaves what was known.  The part "mounts" stands for resolved_mounts. *)
EXTENDS Catalogue

CONSTANTS
  CatalogueConfigs,       \* the configurations the daemon may start with
  ReloadedConfigs,        \* those a reload may bring
  Machines,               \* the hardware there may be: functions from Part to sets
  FailingProbes,          \* the probes that may fail
  MaxDiscoveryMoves       \* bound of the changes of either and of the rescans

(* An inventory has one AMD card at most.                                      *)
ASSUME DiscoveryAssumption ==
  /\ \A m \in Machines : DOMAIN m = Part /\ \A x, y \in m["amd"] : x = y
  /\ \A c \in CatalogueConfigs \cup ReloadedConfigs :
       ItemMetrics(c.panel \cup c.tooltip) \subseteq Metric /\ c.notifications \subseteq Alert
  /\ MaxDiscoveryMoves \in Nat

VARIABLES
  machine,        \* what is there
  known,          \* RuntimeState.hw and resolved_mounts
  catCfg,
  captured,       \* families whose last run was captured, of the hardware there is
  flight,         \* the run of an inventory family: the family and its copy of known
  identity,       \* the run of the identity of the network: its copy of known
  catMoves

discoveryVars == <<machine, known, catCfg, captured, flight, identity, catMoves>>

(* The parts a family probes together: they are confirmed or fail as one.     *)
Probes ==
  [Cpu |-> {{"cpu_temp"}, {"cpu_freq", "cpu_turbo"}}, Thermal |-> {{"temps", "fans"}},
   SystemBattery |-> {{"batteries"}}, Smart |-> {{"smart"}}, Nvidia |-> {{"nvidia"}},
   Amd |-> {{"amd"}}, AmdNpu |-> {{"npu"}}, Intel |-> {{"intel_freq", "intel_pci"}},
   Backlight |-> {{"backlight"}}, Network |-> {{"net"}, {"wifi"}}, DiskIo |-> {{"disk_io"}},
   Peripheral |-> {{"battery_mouse"}, {"battery_kbd"}}, Mounts |-> {{"mounts"}}]

LocalProbes ==
  (UNION {Probes[f] : f \in {"Cpu", "Thermal", "Nvidia", "Amd", "AmdNpu", "Intel", "DiskIo",
                             "Backlight"}}) \cup {{"wifi"}}

AllProbes == UNION {Probes[f] : f \in DOMAIN Probes \ {"Mounts"}}

(* What a probe that completes reports of a part: a configured Unifying path  *)
(* is taken as it is, no drive is looked for when SMART is off, and the root  *)
(* is always among the mounts.                                                *)
Found(c, part) ==
  CASE part = "mounts" -> {"/"} \cup machine["mounts"]
    [] part \in Role /\ c.unifying[part] # {} -> c.unifying[part]
    [] part = "smart" /\ ~c.smart -> {}
    [] OTHER -> machine[part]

CanFail(c, probe) ==
  /\ probe \in FailingProbes
  /\ \A r \in Role : r \in probe => c.unifying[r] = {}
  /\ "smart" \in probe => c.smart

(* merge_into: the probes that complete replace what was known.               *)
Merged(hw, c, completed) ==
  [p \in DOMAIN hw |-> IF p \in UNION completed THEN Found(c, p) ELSE hw[p]]

(* Before anything is read there is nothing but the root.                     *)
Unknown == [p \in Part |-> IF p = "mounts" THEN {"/"} ELSE {}]

(* The probes one incomplete enumeration of hwmon fails together.             *)
HwmonProbes == {{"cpu_temp"}, {"temps", "fans"}}

(* A run of all the probes: at most one enumeration fails at a time.          *)
Attempts(c, probes) ==
  {probes} \cup { probes \ (IF p \in HwmonProbes THEN HwmonProbes ELSE {p}) :
                    p \in {q \in probes : CanFail(c, q)} }

DiscoveryInit ==
  /\ machine \in Machines
  /\ catCfg \in CatalogueConfigs
  /\ known \in {Merged(Unknown, catCfg, done) : done \in Attempts(catCfg, LocalProbes)}
  /\ captured = {}
  /\ flight = None
  /\ identity = None
  /\ catMoves = 0

Plan == SchedulerConfig(catCfg, known)

Planned(plan) == plan.hidden \cup plan.tooltip \cup UNION {plan.pages[p] : p \in DOMAIN plan.pages}

WantedFamilies ==
  {j[2] : j \in {x \in Planned(Plan) : x[1] = "HardwareDiscovery"}}
  \cup (IF Singleton("MountInventory") \in Planned(Plan) THEN {"Mounts"} ELSE {})

(* The copy of the inventory a run takes with it.                             *)
StartFamily ==
  /\ flight = None
  /\ \E f \in WantedFamilies :
        flight' = Some([family |-> f, copy |-> [p \in UNION Probes[f] |-> known[p]]])
  /\ UNCHANGED <<machine, known, catCfg, captured, identity, catMoves>>

(* apply_inventory_completion: the family is taken from the copy of the run,  *)
(* whatever the run came to; a run nobody demands any more is not current.    *)
FinishFamily ==
  /\ flight # None
  /\ LET f == flight[1].family IN
     \E failed \in SUBSET {p \in Probes[f] : CanFail(catCfg, p)} :
        LET copy == Merged(flight[1].copy, catCfg, Probes[f] \ failed) IN
        IF f \in WantedFamilies
        THEN /\ known' = [p \in Part |-> IF p \in DOMAIN copy THEN copy[p] ELSE known[p]]
             /\ captured' = IF failed = {} THEN captured \cup {f} ELSE captured \ {f}
        ELSE UNCHANGED <<known, captured>>
  /\ flight' = None
  /\ UNCHANGED <<machine, catCfg, identity, catMoves>>

StartIdentity ==
  /\ identity = None
  /\ Singleton("NetworkIdentity") \in Planned(Plan)
  /\ identity' = Some(known["net"])
  /\ UNCHANGED <<machine, known, catCfg, captured, flight, catMoves>>

(* The run of the identity also leaves the route of its copy when it failed.  *)
FinishIdentity ==
  /\ identity # None
  /\ \E failed \in BOOLEAN :
        /\ known' = [known EXCEPT !["net"] = IF failed THEN identity[1] ELSE machine["net"]]
        /\ captured' = IF failed THEN captured \ {"Network"} ELSE captured
  /\ identity' = None
  /\ UNCHANGED <<machine, catCfg, flight, catMoves>>

(* A rescan whose inventory is not the current one any more is sent again.    *)
Rescan ==
  /\ catMoves < MaxDiscoveryMoves
  /\ \E done \in Attempts(catCfg, AllProbes) : known' = Merged(known, catCfg, done)
  /\ catMoves' = catMoves + 1
  /\ UNCHANGED <<machine, catCfg, captured, flight, identity>>

(* check of reload.rs: the runs of the old configuration answer to nobody.    *)
Reload ==
  /\ catMoves < MaxDiscoveryMoves
  /\ \E c \in ReloadedConfigs : \E done \in Attempts(c, LocalProbes) :
        /\ catCfg' = c
        /\ known' = Merged(known, c, done)
        /\ catCfg' # catCfg \/ known' # known
  /\ captured' = {}
  /\ flight' = None
  /\ identity' = None
  /\ catMoves' = catMoves + 1
  /\ UNCHANGED machine

MachineChanges ==
  /\ catMoves < MaxDiscoveryMoves
  /\ \E m \in Machines \ {machine} :
        /\ machine' = m
        /\ captured' = {f \in captured : \A p \in UNION Probes[f] : m[p] = machine[p]}
  /\ catMoves' = catMoves + 1
  /\ UNCHANGED <<known, catCfg, flight, identity>>

DiscoveryNext ==
  \/ StartFamily
  \/ FinishFamily
  \/ StartIdentity
  \/ FinishIdentity
  \/ Rescan
  \/ Reload
  \/ MachineChanges

DiscoverySpec == DiscoveryInit /\ [][DiscoveryNext]_discoveryVars

(* The capability an owner asks of the configuration before it keeps what a   *)
(* job of its own has read; the processor and the memory need none.           *)
JobCapability ==
  [DiskTemperature |-> "hd_temp", FanSpeed |-> "fan_speed", DiskUsage |-> "disk_usage",
   Smart |-> "disk_smart", NvidiaNvml |-> "gpu_nvidia", NvidiaFallback |-> "gpu_nvidia",
   AmdNpu |-> "npu", IntelFrequency |-> "gpu_intel_freq", IntelUsage |-> "gpu_intel_usage",
   Brightness |-> "screen_brightness", SystemBattery |-> "battery_sys",
   NetworkRate |-> "net_speed", NetworkIdentity |-> "net_info", DiskIo |-> "disk_io",
   PanelProcesses |-> "top_process"]

CapabilitiesOf(job) ==
  CASE job[1] \in DOMAIN JobCapability -> {JobCapability[job[1]]}
    [] job[1] = "PeripheralBattery" -> {job[2][1]}
    [] job[1] = "ExternalFile" -> {job[2]}
    [] OTHER -> {}

(* The hardware there is, as it would be known.                               *)
Present == [p \in Part |-> Found(catCfg, p)]

(* The inventory asked for is enough: when every family a surface asks for    *)
(* has been captured, the jobs are those of the hardware there is, although   *)
(* nothing else of it is known.                                               *)
InventorySuffices ==
  WantedFamilies \subseteq captured => Plan = SchedulerConfig(catCfg, Present)

(* A job that runs has its capability configured: an owner drops the samples  *)
(* of a capability nobody asks for, so such a job would never show anything.  *)
JobsAreCapable ==
  \A j \in Planned(Plan) : CapabilitiesOf(j) \subseteq ConfiguredCapabilities(catCfg)

(* An AMD job is demanded while hidden, or by the tooltip, exactly when it    *)
(* has metrics to read for that surface, and every metric has its capability. *)
AmdMetricsFit ==
  \A card \in known["amd"] : \A kind \in {"AmdFast", "AmdSlow"} :
    LET hidden == AmdMetrics(known, kind, AmdHidden(catCfg, known))
        tooltip == AmdMetrics(known, kind, ItemMetrics(catCfg.tooltip))
    IN  /\ (<<kind, card.pci>> \in Plan.hidden) = (hidden # {})
        /\ (<<kind, card.pci>> \in Plan.tooltip) = (tooltip # {})
        /\ hidden \cup tooltip \subseteq ConfiguredCapabilities(catCfg)

(* What the catalogue says and what discovery makes known fit: the inventory  *)
(* demanded suffices for the jobs, no job runs without its capability, and    *)
(* the AMD jobs are demanded where their metrics are.                         *)
CatalogueHolds ==
  InventorySuffices /\ JobsAreCapable /\ AmdMetricsFit
=============================================================================
