------------------------------ MODULE DiskSamples ------------------------------
(* The disk owner: the I/O rate of one device with its series, and the values *)
(* kept under a label whose file or drive may be exchanged: temperatures,     *)
(* fan speeds and SMART health, which follow one rule.  A rate is its device  *)
(* and the instant it was measured against, a labelled value its source.      *)
EXTENDS RetainedSamples, FiniteSets

CONSTANTS
  Disk,                    \* devices whose counters can be read
  Label, Source,           \* the labels of the readings, what they are read from
  DiskGraphLength, MaxDiskTime, MaxDiskMoves   \* bounds

ASSUME DiskAssumption ==
  /\ {DiskGraphLength, MaxDiskTime, MaxDiskMoves} \subseteq Nat
  /\ Label \cap {"DiskIo", "DiskIoHistory"} = {}     \* a label names a job of its own

VARIABLES
  disk,        \* DiskState of the worker
  diskShown,   \* the owner's fields of the readings on display
  diskHw,      \* the inventory: the I/O device, the source of each label
  diskWanted,  \* "io", "graph", "labels"
  diskNow,
  diskGap,     \* the last instant the counters were declared incomparable
  diskMoves

diskVars == <<disk, diskShown, diskHw, diskWanted, diskNow, diskGap, diskMoves>>

DiskDemands == {{"io", "graph"}, {"io", "labels"}, {"labels"}}

DiskHardware == [io : {None} \cup {Some(d) : d \in Disk},
                 labels : [Label -> {None} \cup {Some(s) : s \in Source}]]

Unlabelled == [l \in Label |-> [source |-> None, sample |-> NotRetained]]

DiskInit ==
  /\ disk = [io |-> NotRetained, device |-> None, counted |-> None, history |-> <<>>,
             labels |-> Unlabelled]
  /\ diskShown = [io |-> None, history |-> <<>>, labels |-> [l \in Label |-> None]]
  /\ diskHw \in DiskHardware
  /\ diskHw.io # None /\ \A l \in Label : diskHw.labels[l] # None
  /\ diskWanted \in DiskDemands
  /\ diskNow = 0
  /\ diskGap = 0
  /\ diskMoves = 0

------------------------------------------------------------------------------
(* The owner's state; reconcile_sources runs before every attempt.            *)

ResetIo(d) == [d EXCEPT !.io = NotRetained, !.device = None, !.counted = None]

ReconcileLabel(entry, l) ==
  IF "labels" \notin diskWanted \/ diskHw.labels[l] = None
  THEN [source |-> None, sample |-> NotRetained]
  ELSE IF entry.source = diskHw.labels[l] THEN entry
  ELSE [source |-> diskHw.labels[l], sample |-> NotRetained]

ReconcileDisk(d) ==
  LET series == /\ "graph" \in diskWanted
                /\ diskHw.io # None
                /\ d.device \in {None, diskHw.io}
      kept   == [d EXCEPT !.history = IF series THEN @ ELSE <<>>,
                          !.labels = [l \in Label |-> ReconcileLabel(@[l], l)]]
  IN  IF "io" \in diskWanted /\ diskHw.io # None /\ d.device = diskHw.io
      THEN kept ELSE ResetIo(kept)

(* read_disk_io_once; forward says that neither counter went back.            *)
DiskComparable(d, forward) == d.device = diskHw.io /\ d.counted # None /\ forward

DiskIoOutcome(d, forward) ==
  IF DiskComparable(d, forward) /\ d.counted[1].at < diskNow
  THEN Value([device |-> diskHw.io[1], since |-> d.counted[1].at, counter |-> d.counted[1].disk])
  ELSE Baseline

AttemptDiskIo(d, readable, forward) ==
  IF ~readable THEN d
  ELSE [d EXCEPT !.io = CommitAttempt(@, DiskIoOutcome(d, forward), diskNow),
                 !.device = diskHw.io,
                 !.counted = Some([at |-> diskNow, disk |-> diskHw.io[1]])]

(* attempt_disk_temperature, attempt_fan_speed, attempt_smart.                *)
AttemptLabel(d, l, readable) ==
  [d EXCEPT !.labels[l].sample =
     CommitAttempt(@, IF readable THEN Value(diskHw.labels[l][1]) ELSE Failed, diskNow)]

------------------------------------------------------------------------------
(* The jobs with their sources; forgetting one.                               *)

DiskJobs(hw, wanted) ==
  LET io    == IF "io" \in wanted /\ hw.io # None THEN {"DiskIo"} ELSE {}
      graph == IF "graph" \in wanted /\ io # {} THEN {"DiskIoHistory"} ELSE {}
      label == IF "labels" \in wanted THEN {l \in Label : hw.labels[l] # None} ELSE {}
  IN  [k \in io \cup graph \cup label |-> IF k \in Label THEN hw.labels[k] ELSE hw.io]

(* Fault: a label that is still there keeps the reading of its old source.    *)
InvalidateShownIo(shown, kinds) ==
  [shown EXCEPT !.io = IF "DiskIo" \in kinds THEN None ELSE @,
                !.history = IF "DiskIoHistory" \in kinds THEN <<>> ELSE @]

InvalidateDisk(d, kinds) ==
  LET io == IF "DiskIo" \in kinds THEN ResetIo(d) ELSE d
  IN  [io EXCEPT !.history = IF "DiskIoHistory" \in kinds THEN <<>> ELSE @,
                 !.labels = [l \in Label |-> IF l \in kinds THEN Unlabelled[l] ELSE @[l]]]

InvalidateShownDisk(shown, kinds) ==
  [shown EXCEPT !.io = IF "DiskIo" \in kinds THEN None ELSE @,
                !.history = IF "DiskIoHistory" \in kinds THEN <<>> ELSE @,
                !.labels = [l \in Label |-> IF l \in kinds THEN None ELSE @[l]]]

DiskRejob(hw, wanted) ==
  LET old  == DiskJobs(diskHw, diskWanted)
      new  == DiskJobs(hw, wanted)
      gone == {k \in DOMAIN old : k \notin DOMAIN new \/ old[k] # new[k]}
  IN  /\ diskMoves < MaxDiskMoves
      /\ <<hw, wanted>> # <<diskHw, diskWanted>>
      /\ diskMoves' = diskMoves + 1
      /\ disk' = InvalidateDisk(disk, gone)
      /\ diskShown' = InvalidateShownDisk(diskShown, gone)
      /\ diskHw' = hw
      /\ diskWanted' = wanted
      /\ UNCHANGED <<diskNow, diskGap>>

DiskDemanded(kind) == kind \in DOMAIN DiskJobs(diskHw, diskWanted)

------------------------------------------------------------------------------
(* One run of each job.                                                       *)

DiskAround == UNCHANGED <<diskHw, diskWanted, diskNow, diskGap, diskMoves>>

RunDiskIo(readable, forward) ==
  /\ DiskDemanded("DiskIo")
  /\ disk' = AttemptDiskIo(ReconcileDisk(disk), readable, forward)
  /\ diskShown' = [diskShown EXCEPT !.io = disk'.io.latest]
  /\ DiskAround

RunDiskIoHistory(deadline) ==
  /\ DiskDemanded("DiskIoHistory")
  /\ \A p \in DOMAIN disk.history : disk.history[p].deadline < deadline
  /\ LET d      == ReconcileDisk(disk)
         sample == SampleAtOrBefore(d.io, deadline)
     IN  IF sample = None THEN disk' = d /\ diskShown' = diskShown
         ELSE /\ disk' = [d EXCEPT !.history =
                    Trimmed(Append(@, [deadline |-> deadline, sample |-> sample[1]]),
                            DiskGraphLength)]
              /\ diskShown' = [diskShown EXCEPT !.history = disk'.history]
  /\ DiskAround

RunLabel(l, readable) ==
  /\ DiskDemanded(l)
  /\ disk' = AttemptLabel(ReconcileDisk(disk), l, readable)
  /\ diskShown' = [diskShown EXCEPT !.labels[l] = disk'.labels[l].sample.latest]
  /\ DiskAround

ResetDiskBaseline ==
  /\ DiskDemanded("DiskIo")
  /\ disk' = [disk EXCEPT !.counted = None]
  /\ diskGap' = diskNow
  /\ UNCHANGED <<diskShown, diskHw, diskWanted, diskNow, diskMoves>>

DiskTime ==
  /\ diskNow < MaxDiskTime
  /\ diskNow' = diskNow + 1
  /\ UNCHANGED <<disk, diskShown, diskHw, diskWanted, diskGap, diskMoves>>

DiskNext ==
  \/ \E readable, forward \in BOOLEAN : RunDiskIo(readable, forward)
  \/ \E deadline \in 0..diskNow : RunDiskIoHistory(deadline)
  \/ \E l \in Label, readable \in BOOLEAN : RunLabel(l, readable)
  \/ ResetDiskBaseline
  \/ DiskTime
  \/ \E hw \in DiskHardware : DiskRejob(hw, diskWanted)
  \/ \E wanted \in DiskDemands : DiskRejob(diskHw, wanted)

DiskSpec == DiskInit /\ [][DiskNext]_diskVars

------------------------------------------------------------------------------
(* What is shown of the disks is of the hardware the inventory names: the     *)
(* rate and its series of the I/O device, measured on its counters alone and  *)
(* over no interruption, and each labelled value of the file or drive that    *)
(* stands under the label now.                                                *)
DisksAgree ==
  /\ \A s \in Values(disk.io) \cup {disk.history[p].sample : p \in DOMAIN disk.history} :
       /\ s.value.counter = s.value.device
       /\ s.value.since < s.at
       /\ s.at > diskGap => s.value.since >= diskGap
  /\ diskShown.io # None => Some(diskShown.io[1].value.device) = diskHw.io
  /\ \A p \in DOMAIN diskShown.history :
       /\ Some(diskShown.history[p].sample.value.device) = diskHw.io
       /\ diskShown.history[p].sample.at <= diskShown.history[p].deadline
  /\ \A l \in Label :
       diskShown.labels[l] # None => Some(diskShown.labels[l][1].value) = diskHw.labels[l]
=============================================================================
