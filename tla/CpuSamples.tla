------------------------------ MODULE CpuSamples ------------------------------
(* The CPU owner: usage from the differences of the counters in /proc/stat,   *)
(* for the machine and for each core, the temperature of a sensor that may be *)
(* replaced, and the four series drawn from them.  A usage is the instant it  *)
(* was compared with and the number of counters compared; a temperature is    *)
(* its sensor.  Frequency and turbo state follow the rule of the temperature, *)
(* uptime and load the rule of a metric without a source.                     *)
EXTENDS RetainedSamples, FiniteSets

CONSTANTS
  TempSensor, Gpu,       \* the sensors of the CPU, the graphics cards
  CpuDemands,            \* the demands: sets of "cpu", "history", "graphs", "cores"
  MaxCores,              \* bound of the number of cores
  CpuGraphLength,        \* the length of the series
  MaxCpuTime, MaxCpuMoves  \* bounds of the clock and of the machine's changes

ASSUME CpuAssumption == {MaxCores, CpuGraphLength, MaxCpuTime, MaxCpuMoves} \subseteq Nat

VARIABLES
  cpu,        \* CpuState of the worker
  cpuShown,   \* the owner's series and values on display
  cpuHw,      \* the inventory: the sensor and the selected graphics card
  cpuWanted,  \* what the surfaces demand
  gpuTemp,    \* the reading on display of the selected card, if any
  stat,       \* /proc/stat: the cores, and whether the counters can be compared
  cpuNow,
  cpuGap      \* the last instant the counters were declared incomparable

cpuVars == <<cpu, cpuShown, cpuHw, cpuWanted, gpuTemp, stat, cpuNow, cpuGap>>

NewCpu ==
  [usage |-> NotRetained, times |-> None, history |-> <<>>,
   temperature |-> NotRetained, source |-> None,
   cpu_temps |-> <<>>, temp_cpu |-> None, gpu_temps |-> <<>>, temp_gpu |-> None,
   core_usage |-> NotRetained, core_times |-> None, core_history |-> <<>>]

CpuInit ==
  /\ cpu = NewCpu
  /\ cpuShown = [usage |-> None, temp |-> None, history |-> <<>>, cpu_temps |-> <<>>,
                 gpu_temps |-> <<>>, cores |-> None, core_history |-> None]
  /\ cpuHw \in [temp : {Some(t) : t \in TempSensor}, gpu : {Some(g) : g \in Gpu}]
  /\ cpuWanted \in CpuDemands
  /\ gpuTemp = None
  /\ stat = [cores |-> MaxCores, moves |-> 0]
  /\ cpuNow = 0
  /\ cpuGap = 0

------------------------------------------------------------------------------
(* read_cpu_usage_once.  Counters of another shape, and the first ones, are a *)
(* baseline that ends the series; a difference that makes no sense only       *)
(* replaces the counters.                                                     *)

Counters == Some([at |-> cpuNow, cores |-> stat.cores])

CpuUsageOutcome(c, sane) ==
  IF c.times = None THEN Baseline
  ELSE IF ~sane \/ c.times[1].at = cpuNow THEN Baseline ELSE Value([since |-> c.times[1].at])

ReadCpuUsageOnce(c) ==
  IF c.times = None THEN [c EXCEPT !.times = Counters, !.history = <<>>]
  ELSE [c EXCEPT !.times = Counters]

(* attempt_cpu: a temperature of another sensor is not a retained sample of   *)
(* this one, and nothing is retained of a metric nobody demands.              *)
AttemptTemperature(c, readable) ==
  IF "cpu" \notin cpuWanted \/ cpuHw.temp = None
  THEN [c EXCEPT !.temperature = NotRetained, !.source = None]
  ELSE LET known == IF c.source = cpuHw.temp THEN c.temperature ELSE NotRetained
       IN  [c EXCEPT !.source = cpuHw.temp,
                     !.temperature = IF readable
                                     THEN CommitAttempt(known, Value(cpuHw.temp[1]), cpuNow)
                                     ELSE CommitAttempt(known, Failed, cpuNow)]

AttemptCpu(c, sane, readable) ==
  LET usage == [ReadCpuUsageOnce(c) EXCEPT
                  !.usage = CommitAttempt(@, CpuUsageOutcome(c, sane), cpuNow)]
  IN  AttemptTemperature(usage, readable)

(* read_cpu_cores_once: the per-core counters are comparable only when every  *)
(* core is there in both.                                                     *)
SameShape(c) == c.core_times # None /\ c.core_times[1].cores = stat.cores

CpuCoreOutcome(c, sane) ==
  IF ~SameShape(c) \/ ~sane \/ c.core_times[1].at = cpuNow THEN Baseline
  ELSE Value([since |-> c.core_times[1].at, first |-> c.core_times[1].cores,
              second |-> stat.cores])

AttemptCpuCores(c, sane) ==
  [c EXCEPT !.core_times = Counters,
            !.core_history = IF SameShape(c) THEN @ ELSE [core \in 1..stat.cores |-> <<>>],
            !.core_usage = CommitAttempt(@, CpuCoreOutcome(c, sane), cpuNow)]

CpuPoint(deadline, sample) == [deadline |-> deadline, sample |-> sample]

AppendCpuHistory(c, deadline, sample) ==
  [c EXCEPT !.history = Trimmed(Append(@, CpuPoint(deadline, sample)), CpuGraphLength)]

(* Each series takes its value of the sample, as far as both reach.           *)
AppendCpuCoreHistory(c, deadline, sample) ==
  [c EXCEPT !.core_history = [core \in DOMAIN @ |->
     IF core <= sample.value.second
     THEN Trimmed(Append(@[core], CpuPoint(deadline, sample)), CpuGraphLength) ELSE @[core]]]

(* Fault: the series of the card goes on when another card is selected.       *)
KeepTemperatureSources(c) ==
  [c EXCEPT !.cpu_temps = IF c.temp_cpu = cpuHw.temp THEN @ ELSE <<>>,
            !.temp_cpu = cpuHw.temp, !.temp_gpu = cpuHw.gpu]

(* append_graph_temperature_history: a series ends when its sensor or its     *)
(* card is another one; the card's value is the one on display.               *)
GraphsTemperature == "graphs" \in cpuWanted

TemperatureSources(c) ==
  [c EXCEPT !.cpu_temps = IF c.temp_cpu = cpuHw.temp THEN @ ELSE <<>>,
            !.gpu_temps = IF c.temp_gpu = cpuHw.gpu THEN @ ELSE <<>>,
            !.temp_cpu = cpuHw.temp, !.temp_gpu = cpuHw.gpu]

AppendGraphTemperatureHistory(c, deadline) ==
  LET s == TemperatureSources(c)
      heat == IF s.source = cpuHw.temp THEN SampleAtOrBefore(s.temperature, deadline) ELSE None
      grow(series, sample) == Trimmed(series \o sample, CpuGraphLength)
  IN  IF ~GraphsTemperature
      THEN [c EXCEPT !.cpu_temps = <<>>, !.gpu_temps = <<>>, !.temp_cpu = None, !.temp_gpu = None]
      ELSE [s EXCEPT !.cpu_temps = grow(@, heat), !.gpu_temps = grow(@, gpuTemp)]

ReconcileCorePage(c) ==
  IF "cores" \in cpuWanted THEN c
  ELSE [c EXCEPT !.core_usage = NotRetained, !.core_times = None, !.core_history = <<>>]

------------------------------------------------------------------------------
(* The jobs and their sources; forgetting one.                                *)

CpuJobs(temp, wanted) ==
  LET kinds == {k \in {"Cpu", "CpuHistory", "CpuCores", "CpuCoreHistory"} :
                  CASE k = "Cpu" -> "cpu" \in wanted
                    [] k = "CpuHistory" -> "cpu" \in wanted /\ wanted \cap {"history", "graphs"} # {}
                    [] OTHER -> "cores" \in wanted}
  IN  [k \in kinds |-> IF k \in {"Cpu", "CpuHistory"} THEN temp ELSE None]

InvalidateCpu(c, kinds) ==
  LET usage == IF "Cpu" \notin kinds THEN c
               ELSE [c EXCEPT !.usage = NotRetained, !.temperature = NotRetained,
                              !.times = None, !.cpu_temps = <<>>]
      history == IF "CpuHistory" \notin kinds THEN usage
                 ELSE [usage EXCEPT !.history = <<>>, !.cpu_temps = <<>>, !.gpu_temps = <<>>]
      cores == IF "CpuCores" \notin kinds THEN history
               ELSE [history EXCEPT !.core_usage = NotRetained, !.core_times = None]
  IN  IF "CpuCoreHistory" \notin kinds THEN cores ELSE [cores EXCEPT !.core_history = <<>>]

InvalidateShownCpu(shown, kinds) ==
  LET cpuGone == "Cpu" \in kinds
      historyGone == "CpuHistory" \in kinds
  IN  [usage        |-> IF cpuGone THEN None ELSE shown.usage,
       temp         |-> IF cpuGone THEN None ELSE shown.temp,
       history      |-> IF historyGone THEN <<>> ELSE shown.history,
       cpu_temps    |-> IF cpuGone \/ historyGone THEN <<>> ELSE shown.cpu_temps,
       gpu_temps    |-> IF historyGone THEN <<>> ELSE shown.gpu_temps,
       cores        |-> IF "CpuCores" \in kinds THEN None ELSE shown.cores,
       core_history |-> IF "CpuCoreHistory" \in kinds THEN None ELSE shown.core_history]

CpuRejob(hw, wanted) ==
  LET old  == CpuJobs(cpuHw.temp, cpuWanted)
      new  == CpuJobs(hw.temp, wanted)
      gone == {k \in DOMAIN old : k \notin DOMAIN new \/ old[k] # new[k]}
  IN  /\ cpu' = InvalidateCpu(cpu, gone)
      /\ cpuShown' = InvalidateShownCpu(cpuShown, gone)
      /\ cpuHw' = hw
      /\ cpuWanted' = wanted

CpuDemanded(kind) == kind \in DOMAIN CpuJobs(cpuHw.temp, cpuWanted)

------------------------------------------------------------------------------
(* One run of each job.                                                       *)

CpuAround == UNCHANGED <<cpuHw, cpuWanted, gpuTemp, stat, cpuNow, cpuGap>>

RunCpu(statRead, sane, readable) ==
  /\ CpuDemanded("Cpu")
  /\ cpu' = IF statRead THEN AttemptCpu(ReconcileCorePage(cpu), sane, readable)
            ELSE AttemptTemperature(ReconcileCorePage(cpu), readable)
  /\ cpuShown' = [cpuShown EXCEPT !.usage = cpu'.usage.latest,
                                  !.temp = cpu'.temperature.latest]
  /\ CpuAround

RunCpuHistory(deadline) ==
  /\ CpuDemanded("CpuHistory")
  /\ \A p \in DOMAIN cpu.history : cpu.history[p].deadline < deadline
  /\ LET c     == AppendGraphTemperatureHistory(ReconcileCorePage(cpu), deadline)
         usage == SampleAtOrBefore(c.usage, deadline)
     IN  /\ cpu' = IF usage = None THEN c ELSE AppendCpuHistory(c, deadline, usage[1])
         /\ cpuShown' = [cpuShown EXCEPT
              !.cpu_temps = c.cpu_temps, !.gpu_temps = c.gpu_temps,
              !.history = IF usage = None THEN @ ELSE cpu'.history]
  /\ CpuAround

RunCpuCores(sane) ==
  /\ CpuDemanded("CpuCores")
  /\ cpu' = AttemptCpuCores(ReconcileCorePage(cpu), sane)
  /\ cpuShown' = [cpuShown EXCEPT !.cores = cpu'.core_usage.latest]
  /\ CpuAround

RunCpuCoreHistory(deadline) ==
  /\ CpuDemanded("CpuCoreHistory")
  /\ \A core \in DOMAIN cpu.core_history : \A p \in DOMAIN cpu.core_history[core] :
       cpu.core_history[core][p].deadline < deadline
  /\ SampleAtOrBefore(cpu.core_usage, deadline) # None
  /\ cpu' = AppendCpuCoreHistory(cpu, deadline, SampleAtOrBefore(cpu.core_usage, deadline)[1])
  /\ cpuShown' = [cpuShown EXCEPT !.core_history = Some(cpu'.core_history)]
  /\ CpuAround

ResetCpuBaseline ==
  /\ cpu' = [cpu EXCEPT !.times = IF CpuDemanded("Cpu") THEN None ELSE @,
                        !.core_times = IF CpuDemanded("CpuCores") THEN None ELSE @]
  /\ cpuGap' = cpuNow
  /\ UNCHANGED <<cpuShown, cpuHw, cpuWanted, gpuTemp, stat, cpuNow>>

------------------------------------------------------------------------------
(* The machine and the daemon around the owner.                               *)

CpuTime ==
  /\ cpuNow < MaxCpuTime
  /\ cpuNow' = cpuNow + 1
  /\ UNCHANGED <<cpu, cpuShown, cpuHw, cpuWanted, gpuTemp, stat, cpuGap>>

(* The card's owner measures the selected card.                               *)
GpuMeasured ==
  /\ GraphsTemperature
  /\ cpuHw.gpu # None
  /\ gpuTemp = None
  /\ gpuTemp' = cpuHw.gpu
  /\ UNCHANGED <<cpu, cpuShown, cpuHw, cpuWanted, stat, cpuNow, cpuGap>>

CoresChange ==
  /\ "cores" \in cpuWanted
  /\ stat.moves < MaxCpuMoves
  /\ \E cores \in 1..MaxCores :
       cores # stat.cores /\ stat' = [cores |-> cores, moves |-> stat.moves + 1]
  /\ UNCHANGED <<cpu, cpuShown, cpuHw, cpuWanted, gpuTemp, cpuNow, cpuGap>>

(* A discovery finds another sensor or another card; a card that is replaced  *)
(* loses its reading at once.                                                 *)
CpuDiscovered(hw) ==
  /\ hw # cpuHw
  /\ stat.moves < MaxCpuMoves
  /\ stat' = [stat EXCEPT !.moves = @ + 1]
  /\ CpuRejob(hw, cpuWanted)
  /\ gpuTemp' = IF hw.gpu = cpuHw.gpu THEN gpuTemp ELSE None
  /\ UNCHANGED <<cpuNow, cpuGap>>

CpuDemand(wanted) ==
  /\ wanted # cpuWanted
  /\ stat.moves < MaxCpuMoves
  /\ stat' = [stat EXCEPT !.moves = @ + 1]
  /\ CpuRejob(cpuHw, wanted)
  /\ gpuTemp' = None
  /\ UNCHANGED <<cpuNow, cpuGap>>

CpuHardware ==
  [temp : {None} \cup {Some(t) : t \in TempSensor}, gpu : {None} \cup {Some(g) : g \in Gpu}]

CpuNext ==
  \/ \E statRead, sane, readable \in BOOLEAN : RunCpu(statRead, sane, readable)
  \/ \E deadline \in 0..cpuNow : RunCpuHistory(deadline) \/ RunCpuCoreHistory(deadline)
  \/ \E sane \in BOOLEAN : RunCpuCores(sane)
  \/ ResetCpuBaseline
  \/ CpuTime
  \/ GpuMeasured
  \/ CoresChange
  \/ \E hw \in CpuHardware : CpuDiscovered(hw)
  \/ \E wanted \in CpuDemands : CpuDemand(wanted)

CpuSpec == CpuInit /\ [][CpuNext]_cpuVars

------------------------------------------------------------------------------
(* The temperatures of a series come from one sensor and one card, those the  *)
(* owner names beside them; the CPU temperatures on display, the value and    *)
(* the series, are never of another sensor than the inventory's, in whatever  *)
(* order sensor, card and demand changed.                                     *)
TemperaturesBelong ==
  /\ \A p \in DOMAIN cpu.cpu_temps : Some(cpu.cpu_temps[p].value) = cpu.temp_cpu
  /\ \A p \in DOMAIN cpu.gpu_temps : Some(cpu.gpu_temps[p]) = cpu.temp_gpu
  /\ cpuShown.temp # None => Some(cpuShown.temp[1].value) = cpuHw.temp
  /\ \A p \in DOMAIN cpuShown.cpu_temps : Some(cpuShown.cpu_temps[p].value) = cpuHw.temp

(* A usage compares counters of the same cores, read one after the other and  *)
(* with no interruption of the sampling in between; the series hold what was  *)
(* measured by the deadline of the point.                                     *)
CpuUsageIsMeasured ==
  LET series == {cpu.history} \cup {cpu.core_history[core] : core \in DOMAIN cpu.core_history}
      points == UNION {{h[p] : p \in DOMAIN h} : h \in series}
  IN  /\ \A s \in Values(cpu.usage) \cup Values(cpu.core_usage) \cup {p.sample : p \in points} :
           s.value.since < s.at /\ (s.at > cpuGap => s.value.since >= cpuGap)
      /\ \A s \in Values(cpu.core_usage) : s.value.first = s.value.second
      /\ \A p \in points : p.sample.at <= p.deadline

(* What is shown of the processor is of its sensor, its card and its cores,   *)
(* and measured.                                                              *)
CpuSamplesHold == TemperaturesBelong /\ CpuUsageIsMeasured
=============================================================================
