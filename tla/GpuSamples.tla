------------------------------ MODULE GpuSamples ------------------------------
(* Usage and decoder load of the graphics cards of three vendors, each with   *)
(* its own owner and thread, and the series of the one selected card, whose   *)
(* owner gets its point of a deadline from the samples the loop kept of the   *)
(* completions.  A value names its card, the instant it was captured and, of  *)
(* an AMD codec, the file it was read from.  Every surface demands            *)
(* everything: jobs come and go with the hardware.                            *)
EXTENDS RetainedSamples, FiniteSets

CONSTANTS
  GpuHardware,       \* inventories: nvidia, amd (None or pci and codec), intel (None or pci)
  FallbackAge,       \* GPU_CACHE_TTL
  GpuGraphLength, MaxGpuTime, MaxGpuMoves   \* bounds

(* An address is that of one vendor's cards: an AMD card is found where no    *)
(* card of another vendor ever is.                                            *)
ASSUME GpuAssumption ==
  /\ {FallbackAge, GpuGraphLength, MaxGpuTime, MaxGpuMoves} \subseteq Nat
  /\ \A hw \in GpuHardware :
       /\ hw.intel # None => hw.intel = Some(hw.intel[1])
       /\ hw.amd # None =>
            /\ hw.amd = Some(hw.amd[1]) /\ hw.amd[1].pci # "nvidia"
            /\ \A other \in GpuHardware : other.intel # Some(hw.amd[1].pci)

VARIABLES
  gpu,        \* the owners' states: nvidia, amd, intel, history
  gpuRun,     \* the run of the series on its thread, with its input, if any
  points,     \* gpu_history_samples of the loop: card -> retained samples
  decoders,   \* the decoder outcomes the loop keeps, of NVIDIA and Intel
  gpuShown,   \* the histories and values on display
  gpuHw, gpuNow, gpuMoves

gpuVars == <<gpu, gpuRun, points, decoders, gpuShown, gpuHw, gpuNow, gpuMoves>>

Cards == {"nvidia"} \cup UNION {{h.amd[i].pci : i \in DOMAIN h.amd}
                                   \cup {h.intel[i] : i \in DOMAIN h.intel} : h \in GpuHardware}

(* selected_source.                                                           *)
SelectedCard(hw) ==
  IF hw.nvidia THEN Some("nvidia")
  ELSE IF hw.amd # None THEN Some(hw.amd[1].pci) ELSE hw.intel

NewNvidia == [samples |-> NotRetained, decoder |-> NotRetained, nvmlFailed |-> FALSE,
              initFailed |-> FALSE, fallbackAt |-> None]
NewAmd == [source |-> None, usage |-> NotRetained, codec |-> NotRetained]
NewIntel == [source |-> None, usage |-> NotRetained, counted |-> None]
NewGpuHistory == [source |-> None, usage |-> <<>>, decoder |-> <<>>, latest |-> None]

NoReading == [usage |-> None, decoder |-> None]

GpuInit ==
  /\ gpu = [nvidia |-> NewNvidia, amd |-> NewAmd, intel |-> NewIntel,
            history |-> NewGpuHistory]
  /\ gpuRun = None
  /\ points = [card \in Cards |-> NotRetained]
  /\ decoders = [nvidia |-> None, intel |-> None]
  /\ gpuShown = [nvidia |-> NoReading, amd |-> NoReading, intel |-> NoReading,
                 usage |-> <<>>, decoder |-> <<>>]
  /\ gpuHw \in GpuHardware
  /\ gpuNow = 0
  /\ gpuMoves = 0

LatestLoad(r) == IF r.latest = None THEN None ELSE Some(r.latest[1].value)

Load(card, path, at) == [card |-> card, path |-> path, at |-> at]

(* What is known of the decoder: Value, Failed for now, Absent, or Baseline   *)
(* when nothing was measured yet (DecoderOutcome).                            *)
Measured(known) == IF known = None THEN Baseline ELSE Value(known[1])

------------------------------------------------------------------------------
(* The owners.  attempt_nvml: a decoder the driver cannot name now keeps its  *)
(* value, one it does not support has none.                                   *)
AttemptNvml(n, result, decoder, at) ==
  LET known == CommitAttempt(n.decoder, decoder, at)
  IN  IF result # "ok"
      THEN [n EXCEPT !.nvmlFailed = TRUE, !.initFailed = @ \/ result = "init"]
      ELSE [n EXCEPT !.decoder = known, !.nvmlFailed = FALSE,
                     !.samples = RecordValue(@, [usage |-> Some(Load("nvidia", None, at)),
                                                 decoder |-> LatestLoad(known)], at)]

AttemptFallback(n, answered, decoder, at) ==
  LET known == CommitAttempt(n.decoder, decoder, at)
      tried == [n EXCEPT !.fallbackAt = Some(at)]
  IN  IF ~answered THEN tried
      ELSE [tried EXCEPT !.decoder = known,
                         !.samples = RecordValue(@, [usage |-> Some(Load("nvidia", None, at)),
                                                     decoder |-> LatestLoad(known)], at)]

(* The command is asked when NVML has failed, and no more often than its age. *)
FallbackNeeded(n) == n.initFailed \/ n.nvmlFailed

FallbackDue(n, at) == n.fallbackAt = None \/ at - n.fallbackAt[1] >= FallbackAge

(* AmdGpuState: another card is a fresh state, another codec file only        *)
(* forgets the codec; a file that cannot be read keeps its last value.        *)
ReconcileAmd(a) ==
  IF a.source = gpuHw.amd THEN a
  ELSE IF a.source # None /\ gpuHw.amd # None /\ a.source[1].pci = gpuHw.amd[1].pci
       THEN [a EXCEPT !.source = gpuHw.amd, !.codec = NotRetained]
       ELSE [NewAmd EXCEPT !.source = gpuHw.amd]

SampleAmd(a, usageRead, codecRead, at) ==
  LET card  == a.source[1].pci
      codec == a.source[1].codec
  IN  [a EXCEPT
         !.usage = CommitAttempt(@, IF usageRead THEN Value(Load(card, None, at)) ELSE Failed, at),
         !.codec = CommitAttempt(@, IF codec = None THEN Absent
                                    ELSE IF codecRead THEN Value(Load(card, codec, at))
                                    ELSE Failed, at)]

CodecOutcome(a, failed) ==
  IF a.source = None \/ a.source[1].codec = None THEN Absent
  ELSE IF a.codec.latest # None THEN Value(a.codec.latest[1].value)
  ELSE IF failed THEN Failed ELSE Baseline

ReconcileIntel(i) ==
  IF i.source = gpuHw.intel THEN i ELSE [NewIntel EXCEPT !.source = gpuHw.intel]

(* read_intel_gpu_metrics_once; forward: no engine's counter went back.       *)
IntelOutcome(i, readable, forward, at) ==
  IF ~readable THEN Failed
  ELSE IF i.counted = None \/ ~forward \/ i.counted[1] >= at THEN Baseline
  ELSE Value(Load(i.source[1], None, at))

AttemptIntelUsage(i, readable, forward, at) ==
  [i EXCEPT !.usage = CommitAttempt(@, IntelOutcome(i, readable, forward, at), at),
            !.counted = IF readable THEN Some(at) ELSE @]

------------------------------------------------------------------------------
(* The series of the selected card.                                           *)

GpuPoint(deadline, value, codec) == [deadline |-> deadline, value |-> value, codec |-> codec]

(* Fault: a codec that is gone goes on with its last value.                   *)
RetainDecoder(known, outcome) ==
  CASE outcome.kind = "Value" -> Some(outcome.value)
    [] outcome.kind = "Absent" -> None
    [] OTHER -> known

(* A failure keeps the last decoder value; not of an AMD card, whose retained *)
(* value comes with the sample.                                               *)
LatestDecoder(known, outcome) ==
  CASE outcome.kind = "Value" -> Some(outcome.value)
    [] outcome.kind = "Absent" -> None
    [] OTHER -> IF ~gpuHw.nvidia /\ gpuHw.amd # None THEN None ELSE known

CodecNow == IF gpuHw.amd = None THEN None ELSE gpuHw.amd[1].codec

SameCard(h) ==
  IF h.source = SelectedCard(gpuHw) THEN h
  ELSE [NewGpuHistory EXCEPT !.source = SelectedCard(gpuHw)]

SampleGpuHistory(h, usage, outcome, deadline) ==
  LET series == SameCard(h)
      known  == LatestDecoder(series.latest, outcome)
      grow(s, value) == Trimmed(s \o [i \in DOMAIN value |-> GpuPoint(deadline, value[i], CodecNow)],
                                GpuGraphLength)
  IN  [series EXCEPT !.latest = known,
                     !.usage = grow(@, usage),
                     !.decoder = grow(@, known)]

------------------------------------------------------------------------------
(* Jobs and what a job that goes makes everybody forget.  All runs are        *)
(* cancelled when the jobs are replaced, and their owners fall back.          *)

GpuJobs(hw) ==
  {<<"nvidia", "nvidia">> : x \in IF hw.nvidia THEN {1} ELSE {}}
    \cup {<<"amd", hw.amd[i].pci>> : i \in DOMAIN hw.amd}
    \cup {<<"intel", hw.intel[i]>> : i \in DOMAIN hw.intel}
    \cup {<<"history", SelectedCard(hw)[i]>> : i \in DOMAIN SelectedCard(hw)}

CodecChanged(hw) ==
  /\ gpuHw.amd # None /\ hw.amd # None
  /\ gpuHw.amd[1].pci = hw.amd[1].pci
  /\ gpuHw.amd[1].codec # hw.amd[1].codec

InvalidateGpuOwners(gone, codec) ==
  LET owners == {job[1] : job \in gone}
  IN  [nvidia  |-> IF "nvidia" \in owners THEN NewNvidia ELSE gpu.nvidia,
       amd     |-> IF "amd" \in owners
                   THEN [gpu.amd EXCEPT !.usage = NotRetained, !.codec = NotRetained]
                   ELSE IF codec THEN [gpu.amd EXCEPT !.codec = NotRetained] ELSE gpu.amd,
       intel   |-> IF "intel" \in owners
                   THEN [gpu.intel EXCEPT !.usage = NotRetained, !.counted = None]
                   ELSE gpu.intel,
       history |-> IF "history" \in owners THEN NewGpuHistory ELSE gpu.history]

WithoutCodec(r) ==
  LET blank(s) == [i \in DOMAIN s |->
                     [s[i] EXCEPT !.value.decoder = None, !.value.outcome = Baseline]]
  IN  [latest |-> blank(r.latest), previous |-> blank(r.previous)]

(* invalidate_decoder.  The samples of an Intel card are kept under another   *)
(* name than that of its own job: only the series' job forgets them.          *)
InvalidatePoints(gone, codec, hw) ==
  [card \in Cards |->
     IF <<"history", card>> \in gone \/ <<"amd", card>> \in gone THEN NotRetained
     ELSE IF codec /\ card = hw.amd[1].pci THEN WithoutCodec(points[card])
     ELSE points[card]]

InvalidateOutcomes(gone) ==
  [nvidia |-> IF gone \cap {<<"nvidia", "nvidia">>, <<"history", "nvidia">>} # {} THEN None
              ELSE decoders.nvidia,
   intel  |-> IF \E card \in Cards : <<"intel", card>> \in gone
                                     \/ (<<"history", card>> \in gone /\ Some(card) = gpuHw.intel)
              THEN None ELSE decoders.intel]

InvalidateShownGpu(gone, codec) ==
  LET owners == {job[1] : job \in gone}
      kept(owner) == IF owner \in owners THEN NoReading ELSE gpuShown[owner]
  IN  [nvidia  |-> kept("nvidia"),
       amd     |-> IF codec THEN [kept("amd") EXCEPT !.decoder = None] ELSE kept("amd"),
       intel   |-> kept("intel"),
       usage   |-> IF "history" \in owners THEN <<>> ELSE gpuShown.usage,
       decoder |-> IF "history" \in owners THEN <<>> ELSE gpuShown.decoder]

GpuDiscovered(hw) ==
  /\ hw # gpuHw
  /\ gpuMoves < MaxGpuMoves
  /\ gpuMoves' = gpuMoves + 1
  /\ LET gone  == GpuJobs(gpuHw) \ GpuJobs(hw)
         codec == CodecChanged(hw)
     IN  /\ gpu' = InvalidateGpuOwners(gone, codec)
         /\ points' = InvalidatePoints(gone, codec, hw)
         /\ decoders' = InvalidateOutcomes(gone)
         /\ gpuShown' = InvalidateShownGpu(gone, codec)
  /\ gpuRun' = None
  /\ gpuHw' = hw
  /\ UNCHANGED gpuNow

------------------------------------------------------------------------------
(* Runs.  Those of the cards read and are committed at one instant; the run   *)
(* of the series is dispatched at one and committed at another.               *)

GpuAround == UNCHANGED <<gpuRun, gpuHw, gpuNow, gpuMoves>>

(* The clock goes on between two samples of a card.                           *)
Fresh(r) == \A i \in DOMAIN r.latest : r.latest[i].at < gpuNow

(* WorkerState::execute and commit: the point of the newest sample, when it   *)
(* is newer than the one kept, with what the run says of the decoder.         *)
KeepPoint(card, sample, outcome) ==
  IF sample = None \/ (points[card].latest # None
                       /\ points[card].latest[1].at >= sample[1].at)
  THEN points
  ELSE [points EXCEPT ![card] =
          RecordValue(@, [usage |-> sample[1].value.usage, decoder |-> sample[1].value.decoder,
                          outcome |-> outcome], sample[1].at)]

DecoderOutcome(completion, value) ==
  CASE completion = "Captured" /\ value # None -> Value(value[1])
    [] completion = "Failed" -> Failed
    [] completion = "Baseline" -> Baseline
    [] OTHER -> Absent

CommitNvidia(n, completion) ==
  LET reading == IF n.samples.latest = None THEN gpuShown.nvidia ELSE n.samples.latest[1].value
      outcome == DecoderOutcome(completion, reading.decoder)
  IN  /\ gpu' = [gpu EXCEPT !.nvidia = n]
      /\ gpuShown' = [gpuShown EXCEPT !.nvidia = reading]
      /\ decoders' = [decoders EXCEPT !.nvidia = Some(outcome)]
      /\ points' = KeepPoint("nvidia", n.samples.latest, outcome)
      /\ GpuAround

DecoderRead(kind, at) ==
  IF kind = "Value" THEN Value(Load("nvidia", None, at)) ELSE [kind |-> kind]

NvmlRuns(result, kind) ==
  /\ gpuHw.nvidia
  /\ Fresh(gpu.nvidia.samples)
  /\ CommitNvidia(AttemptNvml(gpu.nvidia, result, DecoderRead(kind, gpuNow), gpuNow),
                  IF result = "ok" THEN "Captured" ELSE "Failed")

FallbackRuns(answered, kind) ==
  /\ gpuHw.nvidia
  /\ Fresh(gpu.nvidia.samples)
  /\ LET n  == gpu.nvidia
     IN  IF FallbackNeeded(n) /\ FallbackDue(n, gpuNow)
         THEN CommitNvidia(AttemptFallback(n, answered, DecoderRead(kind, gpuNow), gpuNow),
                           IF answered THEN "Captured" ELSE "Failed")
         ELSE IF FallbackNeeded(n) THEN CommitNvidia(n, "Captured")
         ELSE /\ points' = KeepPoint("nvidia", n.samples.latest,
                                     Measured(n.samples.latest[1].value.decoder))
              /\ UNCHANGED <<gpu, decoders, gpuShown>>
              /\ GpuAround

AmdRuns(usageRead, codecRead) ==
  /\ gpuHw.amd # None
  /\ Fresh(points[gpuHw.amd[1].pci])
  /\ LET a == SampleAmd(ReconcileAmd(gpu.amd), usageRead, codecRead, gpuNow)
         pair == [usage |-> LatestLoad(a.usage), decoder |-> LatestLoad(a.codec)]
     IN  /\ gpu' = [gpu EXCEPT !.amd = a]
         /\ gpuShown' = [gpuShown EXCEPT !.amd = pair]
         /\ points' = KeepPoint(a.source[1].pci, Some(Sample(pair, gpuNow)),
                                CodecOutcome(a, ~codecRead))
         /\ UNCHANGED decoders
         /\ GpuAround

IntelRuns(readable, forward) ==
  /\ gpuHw.intel # None
  /\ Fresh(gpu.intel.usage)
  /\ LET before == ReconcileIntel(gpu.intel)
         i == AttemptIntelUsage(before, readable, forward, gpuNow)
         kind == IntelOutcome(before, readable, forward, gpuNow).kind
         load == [usage |-> LatestLoad(i.usage), decoder |-> LatestLoad(i.usage)]
         reading == IF i.usage.latest = None THEN gpuShown.intel ELSE load
         outcome == DecoderOutcome(IF kind = "Value" THEN "Captured" ELSE kind, reading.decoder)
     IN  /\ gpu' = [gpu EXCEPT !.intel = i]
         /\ gpuShown' = [gpuShown EXCEPT !.intel = reading]
         /\ decoders' = [decoders EXCEPT !.intel = Some(outcome)]
         /\ points' = KeepPoint(gpuHw.intel[1],
                                [s \in DOMAIN i.usage.latest |-> Sample(load, i.usage.latest[s].at)],
                                outcome)
         /\ GpuAround

(* The run of the series takes its point with it when it is dispatched.       *)
StartGpuHistory(deadline) ==
  /\ gpuRun = None
  /\ SelectedCard(gpuHw) # None
  /\ \A series \in {gpu.history.usage, gpu.history.decoder} : \A p \in DOMAIN series :
       series[p].deadline < deadline
  /\ LET card == SelectedCard(gpuHw)[1]
         kept == IF card = "nvidia" THEN decoders.nvidia
                 ELSE IF gpuHw.amd = None THEN decoders.intel ELSE None
     IN  gpuRun' =
           Some([deadline |-> deadline,
                 point    |-> SampleAtOrBefore(points[card], deadline),
                 decoder  |-> IF kept = None THEN Baseline ELSE kept[1]])
  /\ UNCHANGED <<gpu, points, decoders, gpuShown, gpuHw, gpuNow, gpuMoves>>

GpuHistoryRuns ==
  /\ gpuRun # None
  /\ LET run == gpuRun[1]
         amd == ~gpuHw.nvidia /\ gpuHw.amd # None
         usage == IF run.point = None THEN None ELSE run.point[1].value.usage
         outcome == IF amd /\ CodecNow = None THEN Absent
                    ELSE IF run.point # None THEN run.point[1].value.outcome
                    ELSE IF amd THEN Baseline ELSE run.decoder
         h == SampleGpuHistory(gpu.history, usage, outcome, run.deadline)
     IN  /\ gpu' = [gpu EXCEPT !.history = h]
         /\ gpuShown' = [gpuShown EXCEPT !.usage = h.usage, !.decoder = h.decoder]
  /\ gpuRun' = None
  /\ UNCHANGED <<points, decoders, gpuHw, gpuNow, gpuMoves>>

ResetIntelBaseline ==
  /\ gpuHw.intel # None
  /\ gpu.intel.counted # None
  /\ gpu' = [gpu EXCEPT !.intel.counted = None]
  /\ UNCHANGED <<points, decoders, gpuShown>>
  /\ GpuAround

GpuTime ==
  /\ gpuNow < MaxGpuTime
  /\ gpuNow' = gpuNow + 1
  /\ UNCHANGED <<gpu, gpuRun, points, decoders, gpuShown, gpuHw, gpuMoves>>

GpuNext ==
  \/ \E result \in {"ok", "init", "read"}, kind \in {"Value", "Absent", "Failed"} :
       NvmlRuns(result, kind)
  \/ \E answered \in BOOLEAN, kind \in {"Value", "Absent"} : FallbackRuns(answered, kind)
  \/ \E usageRead, codecRead \in BOOLEAN : AmdRuns(usageRead, codecRead)
  \/ \E readable, forward \in BOOLEAN : IntelRuns(readable, forward)
  \/ \E deadline \in 0..gpuNow : StartGpuHistory(deadline)
  \/ GpuHistoryRuns
  \/ ResetIntelBaseline
  \/ \E hw \in GpuHardware : GpuDiscovered(hw)
  \/ GpuTime

GpuSpec == GpuInit /\ [][GpuNext]_gpuVars

------------------------------------------------------------------------------
(* One series holds one card: the points on display and in the owner belong   *)
(* to the selected card, no load was captured after its deadline, and each    *)
(* AMD codec value was read by its deadline from the file the inventory named *)
(* when the point was drawn: a codec that went, or moved to another file, is  *)
(* never revived.                                                             *)
GpuSeriesAgree ==
  LET h   == gpu.history
      amd == gpuHw.amd # None /\ ~gpuHw.nvidia
  IN  /\ h.source \in {None, SelectedCard(gpuHw)}
      /\ \A series \in {h.usage, h.decoder, gpuShown.usage, gpuShown.decoder} :
           \A p \in DOMAIN series : Some(series[p].value.card) = SelectedCard(gpuHw)
      /\ \A p \in DOMAIN h.usage : h.usage[p].value.at <= h.usage[p].deadline
      /\ amd => \A p \in DOMAIN h.decoder :
                  /\ h.decoder[p].value.at <= h.decoder[p].deadline
                  /\ h.decoder[p].value.path = h.decoder[p].codec
=============================================================================
