----------------------------- MODULE SourceProofs -----------------------------
(* What is shown and drawn of the disks, the status files, the backlight, the *)
(* NPU and the batteries is of the source the inventory and the configuration *)
(* name, the level of a Bolt device is the one it answered, and what is shown *)
(* of the processor, the processes and the memory was measured; and the jobs  *)
(* of the catalogue are those of the hardware there is: for every hardware,   *)
(* every demand and every order of reads, discoveries, reloads and reports.   *)
(* As in the network's proof, the samples and series have types that say      *)
(* whose they are and when they were measured.                                *)
EXTENDS MCSensors, SensorProofs, WellFoundedInduction

-----------------------------------------------------------------------------
(* What is retained.                                                           *)

(* A commit makes a record of what is retained.                               *)
LEMMA CommitRecords ==
  ASSUME NEW S, NEW r \in [latest : Maybe(S), previous : Maybe(S)], NEW at,
         NEW outcome, outcome \in {Baseline, Failed, Absent}
                       \/ \E v : outcome = Value(v) /\ Sample(v, at) \in S
  PROVE  CommitAttempt(r, outcome, at) \in [latest : Maybe(S), previous : Maybe(S)]
<1> DEFINE new == CommitAttempt(r, outcome, at)
<1>1. new.latest \in Maybe(S) /\ new.previous \in Maybe(S)
  <2>1. r.latest \in Maybe(S) /\ r.previous \in Maybe(S)
    OBVIOUS
  <2> QED BY <2>1, CommitKeeps
<1>2. outcome.kind \in {"Value", "Baseline", "Failed", "Absent"}
  BY DEF Value, Baseline, Failed, Absent
<1>3. new = [latest |-> new.latest, previous |-> new.previous]
  BY <1>2 DEF CommitAttempt, RecordValue, RecordBaseline, RecordAbsence, RecordFailure,
     NotRetained
<1> QED BY <1>1, <1>3

-----------------------------------------------------------------------------
(* The disks.                                                                 *)

(* A rate of a device: of its own counters, and over no interruption.         *)
RatesOf(device) ==
  {s \in [value : [device : Disk, since : 0..diskNow, counter : Disk], at : 0..diskNow] :
     /\ Some(s.value.device) = device /\ s.value.counter = s.value.device
     /\ s.value.since < s.at
     /\ s.at > diskGap => s.value.since >= diskGap}

(* The counters of a device, read after the gap.                            *)
Counts(device) == {c \in [at : diskGap..diskNow, disk : Disk] : Some(c.disk) = device}

(* A point of the series of a device.                                       *)
DiskPoints(device) ==
  {p \in [deadline : Nat, sample : RatesOf(device)] : p.sample.at <= p.deadline}

(* What is kept under a label was read from the label's source.               *)
LabelKept(entry) ==
  /\ {"source", "sample"} \subseteq DOMAIN entry
  /\ entry.sample.latest # None => Some(entry.sample.latest[1].value) = entry.source

(* What the owner keeps is of the I/O device in use and of each label's     *)
(* source.                                                                  *)
DiskKept(d) ==
  /\ {"io", "device", "counted", "history", "labels"} \subseteq DOMAIN d
  /\ d.device # None => d.device = diskHw.io /\ "io" \in diskWanted
  /\ d.io \in [latest : Maybe(RatesOf(d.device)), previous : Maybe(RatesOf(d.device))]
  /\ d.counted \in Maybe(Counts(d.device))
  /\ d.history \in Seq(DiskPoints(diskHw.io))
  /\ d.history # <<>> => {"io", "graph"} \subseteq diskWanted
  /\ DOMAIN d.labels = Label
  /\ \A l \in Label : LabelKept(d.labels[l])

(* What is shown is of the inventory, and of a demand that stands.          *)
DiskShows(shown) ==
  /\ {"io", "history", "labels"} \subseteq DOMAIN shown
  /\ shown.io \in Maybe(RatesOf(diskHw.io))
  /\ shown.io # None => "io" \in diskWanted
  /\ shown.history \in Seq(DiskPoints(diskHw.io))
  /\ shown.history # <<>> => {"io", "graph"} \subseteq diskWanted
  /\ DOMAIN shown.labels = Label
  /\ \A l \in Label : shown.labels[l] # None =>
       Some(shown.labels[l][1].value) = diskHw.labels[l] /\ "labels" \in diskWanted

(* The inductive invariant of the disks.                                    *)
DiskInv ==
  /\ diskHw \in DiskHardware /\ diskNow \in Nat /\ diskGap \in 0..diskNow
  /\ DiskKept(disk)
  /\ DiskShows(diskShown)

(* Nothing is retained of no device.                                          *)
LEMMA NothingOfNoDevice == RatesOf(None) = {} /\ DiskPoints(None) = {} /\ Counts(None) = {}
  BY SomeIsNotNone DEF RatesOf, DiskPoints, Counts

(* Nothing is retained of a device at first.                                  *)
LEMMA NothingRetained ==
  ASSUME NEW S
  PROVE  NotRetained \in [latest : Maybe(S), previous : Maybe(S)] /\ None \in Maybe(S)
  BY DEF NotRetained, Maybe

(* Without its device the owner keeps the series and the labels.            *)
LEMMA ResetIoKeeps ==
  ASSUME DiskAssumption, NEW d, DiskKept(d)
  PROVE  /\ DiskKept(ResetIo(d)) /\ ResetIo(d).device = None
         /\ ResetIo(d).labels = d.labels /\ ResetIo(d).history = d.history
<1> DEFINE r == ResetIo(d)
<1>1. /\ DOMAIN r = DOMAIN d /\ r.io = NotRetained /\ r.device = None /\ r.counted = None
      /\ r.history = d.history /\ r.labels = d.labels
  BY DEF ResetIo, DiskKept
<1> HIDE DEF r
<1>2. /\ r.io \in [latest : Maybe(RatesOf(r.device)), previous : Maybe(RatesOf(r.device))]
      /\ r.counted \in Maybe(Counts(r.device))
  BY <1>1, NothingRetained
<1>3. DiskKept(r)
  BY <1>1, <1>2 DEF DiskKept
<1> QED BY <1>1, <1>3 DEF r

(* What reconcile_sources leaves under a label is of the label's source.      *)
LEMMA ReconcileLabelKeeps ==
  ASSUME NEW entry, NEW l \in Label, LabelKept(entry)
  PROVE  /\ LabelKept(ReconcileLabel(entry, l))
         /\ "labels" \in diskWanted /\ diskHw.labels[l] # None =>
              ReconcileLabel(entry, l).source = diskHw.labels[l]
  BY DEF ReconcileLabel, LabelKept, NotRetained

(* Before an attempt, everything that is left is of the inventory.          *)
LEMMA ReconcileDiskKeeps ==
  ASSUME DiskAssumption, DiskInv
  PROVE  /\ DiskKept(ReconcileDisk(disk))
         /\ "labels" \in diskWanted =>
              \A l \in Label : diskHw.labels[l] # None =>
                 ReconcileDisk(disk).labels[l].source = diskHw.labels[l]
<1> DEFINE series == /\ "graph" \in diskWanted
                     /\ diskHw.io # None
                     /\ disk.device \in {None, diskHw.io}
           labels == [l \in Label |-> ReconcileLabel(disk.labels[l], l)]
           history == IF series THEN disk.history ELSE <<>>
           kept == [disk EXCEPT !.history = history, !.labels = labels]
<1>1. /\ DOMAIN kept = DOMAIN disk /\ kept.history = history /\ kept.labels = labels
      /\ kept.io = disk.io /\ kept.device = disk.device /\ kept.counted = disk.counted
  BY DEF DiskInv, DiskKept
<1>2. history \in Seq(DiskPoints(diskHw.io)) /\ (history # <<>> => history = disk.history)
  <2>1. <<>> \in Seq(DiskPoints(diskHw.io))
    OBVIOUS
  <2> HIDE DEF series
  <2> QED BY <2>1 DEF DiskInv, DiskKept
<1>3. /\ DOMAIN labels = Label
      /\ \A l \in Label : LabelKept(labels[l])
      /\ "labels" \in diskWanted =>
           \A l \in Label : diskHw.labels[l] # None => labels[l].source = diskHw.labels[l]
  BY ReconcileLabelKeeps DEF DiskInv, DiskKept
<1>4. ReconcileDisk(disk) \in {kept, ResetIo(kept)}
  BY DEF ReconcileDisk
<1> HIDE DEF labels, history, kept
<1>5. DiskKept(kept)
  BY <1>1, <1>2, <1>3 DEF DiskInv, DiskKept
<1>6. DiskKept(ResetIo(kept)) /\ ResetIo(kept).labels = kept.labels
  BY <1>5, ResetIoKeeps
<1> QED BY <1>1, <1>3, <1>4, <1>5, <1>6

(* A rate is measured on the counters of one device, since the last gap.    *)
LEMMA RunDiskIoKeeps ==
  ASSUME DiskAssumption, DiskInv, NEW readable \in BOOLEAN, NEW forward \in BOOLEAN,
         RunDiskIo(readable, forward)
  PROVE  DiskInv'
<1> DEFINE d == ReconcileDisk(disk)
           new == AttemptDiskIo(d, readable, forward)
<1>1. /\ "io" \in diskWanted /\ diskHw.io # None
      /\ disk' = new /\ diskShown' = [diskShown EXCEPT !.io = disk'.io.latest]
      /\ UNCHANGED <<diskHw, diskWanted, diskNow, diskGap>>
  BY DiskAssumption DEF RunDiskIo, DiskDemanded, DiskJobs, DiskAround
<1>2. DiskKept(d)
  BY ReconcileDiskKeeps
<1>3. diskHw.io = Some(diskHw.io[1]) /\ diskHw.io[1] \in Disk
  BY <1>1, SomeIsNotNone DEF DiskInv, DiskHardware
<1> HIDE DEF d
<1>4. DiskKept(new) /\ new.device \in {None, diskHw.io}
  <2>1. CASE ~readable
    BY <1>2, <2>1 DEF AttemptDiskIo, DiskKept
  <2>2. CASE readable
    <3> DEFINE outcome == DiskIoOutcome(d, forward)
               io == CommitAttempt(d.io, outcome, diskNow)
               counted == Some([at |-> diskNow, disk |-> diskHw.io[1]])
               S == RatesOf(diskHw.io)
    <3>1. /\ DOMAIN new = DOMAIN d /\ new.io = io /\ new.device = diskHw.io
          /\ new.counted = counted /\ new.history = d.history /\ new.labels = d.labels
      BY <1>2, <2>2 DEF AttemptDiskIo, DiskKept
    <3>2. d.io \in [latest : Maybe(S), previous : Maybe(S)]
      <4>1. CASE d.device = None
        BY <1>2, <4>1, NothingOfNoDevice DEF DiskKept, Maybe
      <4>2. CASE d.device # None
        BY <1>2, <4>2 DEF DiskKept
      <4> QED BY <4>1, <4>2
    <3>3. outcome = Baseline \/ \E v : outcome = Value(v) /\ Sample(v, diskNow) \in S
      <4>1. CASE DiskComparable(d, forward) /\ d.counted[1].at < diskNow
        <5> DEFINE v == [device |-> diskHw.io[1], since |-> d.counted[1].at,
           counter |-> d.counted[1].disk]
        <5>1. d.device = diskHw.io /\ d.counted # None /\ d.counted \in Maybe(Counts(diskHw.io))
          BY <1>2, <4>1 DEF DiskComparable, DiskKept
        <5>2. d.counted[1] \in Counts(diskHw.io)
          BY <5>1, MaybeEither
        <5>3. /\ d.counted[1].at \in diskGap..diskNow /\ d.counted[1].disk \in Disk
              /\ Some(d.counted[1].disk) = diskHw.io
          BY <5>2 DEF Counts
        <5>4. d.counted[1].disk = diskHw.io[1]
          BY <5>3, SomeIsNotNone
        <5>5. Sample(v, diskNow) \in S
          BY <1>3, <4>1, <5>3, <5>4 DEF RatesOf, Sample, DiskInv
        <5> QED BY <4>1, <5>5 DEF DiskIoOutcome
      <4> QED BY <4>1 DEF DiskIoOutcome
    <3>4. counted \in Maybe(Counts(diskHw.io))
      BY <1>3 DEF Maybe, Counts, DiskInv
    <3> HIDE DEF outcome, S, counted
    <3>5. io \in [latest : Maybe(S), previous : Maybe(S)]
      BY <3>2, <3>3, CommitRecords
    <3> HIDE DEF io, new
    <3> QED BY <1>1, <1>2, <3>1, <3>4, <3>5 DEF DiskKept, S
  <2> QED BY <2>1, <2>2
<1> HIDE DEF new
<1>5. new.io.latest \in Maybe(RatesOf(diskHw.io))
  <2>1. CASE new.device = None
    BY <1>4, <2>1, NothingOfNoDevice DEF DiskKept, Maybe
  <2>2. CASE new.device # None
    BY <1>4, <2>2 DEF DiskKept
  <2> QED BY <2>1, <2>2
<1>6. DiskKept(disk)'
  BY <1>1, <1>4 DEF DiskKept, RatesOf, Counts, DiskPoints, LabelKept
<1>7. /\ DOMAIN diskShown' = DOMAIN diskShown /\ diskShown'.io = new.io.latest
      /\ diskShown'.history = diskShown.history /\ diskShown'.labels = diskShown.labels
  BY <1>1 DEF DiskInv, DiskShows
<1>8. DiskShows(diskShown')
  BY <1>1, <1>5, <1>7 DEF DiskInv, DiskShows
<1>9. DiskShows(diskShown)'
  BY <1>1, <1>8 DEF DiskShows, RatesOf, DiskPoints
<1> QED BY <1>1, <1>6, <1>9 DEF DiskInv

(* A point is a retained rate of no later than its deadline.                *)
LEMMA RunDiskIoHistoryKeeps ==
  ASSUME DiskAssumption, DiskInv, NEW deadline \in 0..diskNow, RunDiskIoHistory(deadline)
  PROVE  DiskInv'
<1> DEFINE d == ReconcileDisk(disk)
           found == SampleAtOrBefore(d.io, deadline)
           point == [deadline |-> deadline, sample |-> found[1]]
           series == Trimmed(Append(d.history, point), DiskGraphLength)
           P == DiskPoints(diskHw.io)
<1>1. /\ {"io", "graph"} \subseteq diskWanted /\ diskHw.io # None
      /\ IF found = None THEN disk' = d /\ diskShown' = diskShown
         ELSE /\ disk' = [d EXCEPT !.history = series]
              /\ diskShown' = [diskShown EXCEPT !.history = disk'.history]
      /\ UNCHANGED <<diskHw, diskWanted, diskNow, diskGap>>
  BY DiskAssumption DEF RunDiskIoHistory, DiskDemanded, DiskJobs, DiskAround
<1>2. DiskKept(d)
  BY ReconcileDiskKeeps
<1> HIDE DEF d
<1>3. found # None => point \in P
  <2> DEFINE r == d.io
             S == RatesOf(d.device)
  <2>1. r.latest \in Maybe(S) /\ r.previous \in Maybe(S)
    BY <1>2 DEF DiskKept
  <2> HIDE DEF r, S
  <2>2. found # None => found[1] \in S /\ found[1].at <= deadline
    BY <2>1, SampleIsRetained DEF r
  <2>3. found # None => d.device = diskHw.io
    BY <1>2, <2>2, NothingOfNoDevice DEF DiskKept, S
  <2> HIDE DEF found
  <2> QED BY <2>2, <2>3 DEF S, DiskPoints, DiskInv
<1> HIDE DEF found, point, P
<1>4. found # None => series \in Seq(P)
  <2>1. found # None => Append(d.history, point) \in Seq(P)
    BY <1>2, <1>3 DEF DiskKept, P
  <2> QED BY <2>1, TrimmedSeries DEF DiskAssumption
<1> HIDE DEF series
<1>5. DiskKept(disk')
  <2>1. CASE found = None
    BY <1>1, <1>2, <2>1
  <2>2. CASE found # None
    <3>1. /\ DOMAIN disk' = DOMAIN d /\ disk'.history = series /\ disk'.io = d.io
          /\ disk'.device = d.device /\ disk'.counted = d.counted /\ disk'.labels = d.labels
      BY <1>1, <1>2, <2>2 DEF DiskKept
    <3> QED BY <1>1, <1>2, <1>4, <2>2, <3>1 DEF DiskKept, P
  <2> QED BY <2>1, <2>2
<1>6. DiskShows(diskShown')
  <2>1. CASE found = None
    BY <1>1, <2>1 DEF DiskInv
  <2>2. CASE found # None
    <3>1. disk'.history = series
      BY <1>1, <1>2, <2>2 DEF DiskKept
    <3>2. /\ DOMAIN diskShown' = DOMAIN diskShown /\ diskShown'.history = series
          /\ diskShown'.io = diskShown.io /\ diskShown'.labels = diskShown.labels
      BY <1>1, <2>2, <3>1 DEF DiskInv, DiskShows
    <3> QED BY <1>1, <1>4, <2>2, <3>2 DEF DiskInv, DiskShows, P
  <2> QED BY <2>1, <2>2
<1>7. DiskKept(disk)' /\ DiskShows(diskShown)'
  BY <1>1, <1>5, <1>6 DEF DiskKept, DiskShows, RatesOf, Counts, DiskPoints, LabelKept
<1> QED BY <1>1, <1>7 DEF DiskInv

(* A reading under a label is of the source that was read.                  *)
LEMMA RunLabelKeeps ==
  ASSUME DiskAssumption, DiskInv, NEW l \in Label, NEW readable \in BOOLEAN, RunLabel(l, readable)
  PROVE  DiskInv'
<1> DEFINE d == ReconcileDisk(disk)
           old == d.labels[l]
           outcome == IF readable THEN Value(diskHw.labels[l][1]) ELSE Failed
           sample == CommitAttempt(old.sample, outcome, diskNow)
<1>1. /\ "labels" \in diskWanted /\ diskHw.labels[l] # None
      /\ disk' = [d EXCEPT !.labels[l].sample = sample]
      /\ diskShown' = [diskShown EXCEPT !.labels[l] = disk'.labels[l].sample.latest]
      /\ UNCHANGED <<diskHw, diskWanted, diskNow, diskGap>>
  BY DiskAssumption DEF RunLabel, AttemptLabel, DiskDemanded, DiskJobs, DiskAround
<1>2. DiskKept(d) /\ old.source = diskHw.labels[l]
  BY <1>1, ReconcileDiskKeeps
<1>3. LabelKept(old)
  BY <1>2 DEF DiskKept
<1>4. diskHw.labels[l] = Some(diskHw.labels[l][1])
  BY <1>1, SomeIsNotNone DEF DiskInv, DiskHardware
<1> HIDE DEF d
<1>5. sample.latest # None => Some(sample.latest[1].value) = diskHw.labels[l]
  <2>1. CASE readable
    <3>1. sample.latest = Some(Sample(diskHw.labels[l][1], diskNow))
      BY <2>1 DEF CommitAttempt, Value, RecordValue
    <3> QED BY <1>4, <3>1, SomeIsNotNone DEF Sample
  <2>2. CASE ~readable
    BY <1>2, <1>3, <2>2 DEF CommitAttempt, Failed, RecordFailure, LabelKept
  <2> QED BY <2>1, <2>2
<1> HIDE DEF outcome, sample, old
<1> DEFINE new == [old EXCEPT !.sample = sample]
<1>6. new.sample = sample /\ new.source = old.source /\ {"source", "sample"} \subseteq DOMAIN new
  BY <1>3 DEF LabelKept
<1>7. LabelKept(new)
  BY <1>2, <1>5, <1>6 DEF LabelKept
<1>8. /\ DOMAIN disk' = DOMAIN d /\ disk'.history = d.history /\ disk'.io = d.io
      /\ disk'.device = d.device /\ disk'.counted = d.counted
      /\ disk'.labels = [d.labels EXCEPT ![l] = new]
  BY <1>1, <1>2 DEF DiskKept, old
<1> HIDE DEF new
<1>9. DiskKept(disk')
  BY <1>2, <1>7, <1>8 DEF DiskKept
<1>10. /\ DOMAIN diskShown' = DOMAIN diskShown /\ diskShown'.history = diskShown.history
       /\ diskShown'.io = diskShown.io
       /\ diskShown'.labels = [diskShown.labels EXCEPT ![l] = sample.latest]
  BY <1>1, <1>2, <1>6, <1>8 DEF DiskInv, DiskShows, DiskKept
<1>11. DiskShows(diskShown')
  BY <1>1, <1>5, <1>10 DEF DiskInv, DiskShows
<1>12. DiskKept(disk)' /\ DiskShows(diskShown)'
  BY <1>1, <1>9, <1>11 DEF DiskKept, DiskShows, RatesOf, Counts, DiskPoints, LabelKept
<1> QED BY <1>1, <1>12 DEF DiskInv

(* Every rate of before the gap stays one: it is no later than the gap.       *)
LEMMA ResetDiskBaselineKeeps ==
  ASSUME DiskAssumption, DiskInv, ResetDiskBaseline
  PROVE  DiskInv'
<1>1. /\ disk' = [disk EXCEPT !.counted = None] /\ diskGap' = diskNow
      /\ UNCHANGED <<diskShown, diskHw, diskWanted, diskNow>>
  BY DEF ResetDiskBaseline
<1>2. \A device : RatesOf(device) \subseteq RatesOf(device)'
         /\ DiskPoints(device) \subseteq DiskPoints(device)'
  <2>1. \A device : RatesOf(device) \subseteq RatesOf(device)'
    BY <1>1 DEF RatesOf, DiskInv
  <2> QED BY <2>1 DEF DiskPoints
<1>3. \A device : /\ Maybe(RatesOf(device)) \subseteq Maybe(RatesOf(device)')
                  /\ Seq(DiskPoints(device)) \subseteq Seq(DiskPoints(device)')
  BY <1>2, MaybeMonotonic, SeriesMonotonic
<1>4. /\ DOMAIN disk' = DOMAIN disk /\ disk'.history = disk.history /\ disk'.io = disk.io
      /\ disk'.device = disk.device /\ disk'.counted = None /\ disk'.labels = disk.labels
  BY <1>1 DEF DiskInv, DiskKept
<1>5. None \in Maybe(Counts(disk.device)')
  BY DEF Maybe
<1>6. DiskKept(disk)'
  BY <1>1, <1>3, <1>4, <1>5 DEF DiskInv, DiskKept, LabelKept
<1>7. DiskShows(diskShown)'
  BY <1>1, <1>3 DEF DiskInv, DiskShows
<1> QED BY <1>1, <1>6, <1>7 DEF DiskInv

(* Time only widens what may be kept.                                       *)
LEMMA DiskTimeKeeps == ASSUME DiskAssumption, DiskInv, DiskTime PROVE DiskInv'
<1>1. diskNow' = diskNow + 1 /\ UNCHANGED <<disk, diskShown, diskHw, diskWanted, diskGap>>
  BY DEF DiskTime
<1>2. \A device : /\ RatesOf(device) \subseteq RatesOf(device)'
                     /\ DiskPoints(device) \subseteq DiskPoints(device)'
                  /\ Counts(device) \subseteq Counts(device)'
  <2>1. \A device : RatesOf(device) \subseteq RatesOf(device)'
           /\ Counts(device) \subseteq Counts(device)'
    BY <1>1 DEF RatesOf, Counts, DiskInv
  <2> QED BY <2>1 DEF DiskPoints
<1>3. \A device : /\ Maybe(RatesOf(device)) \subseteq Maybe(RatesOf(device)')
                  /\ Maybe(Counts(device)) \subseteq Maybe(Counts(device)')
                  /\ Seq(DiskPoints(device)) \subseteq Seq(DiskPoints(device)')
  BY <1>2, MaybeMonotonic, SeriesMonotonic
<1>4. DiskKept(disk)'
  BY <1>1, <1>3 DEF DiskInv, DiskKept, LabelKept
<1>5. DiskShows(diskShown)'
  BY <1>1, <1>3 DEF DiskInv, DiskShows
<1> QED BY <1>1, <1>4, <1>5 DEF DiskInv

(* A job that is not gone reads what it read before.                          *)
StaysWith(gone, hw, wanted) ==
  /\ "io" \in diskWanted /\ diskHw.io # None /\ "DiskIo" \notin gone
       => "io" \in wanted /\ hw.io = diskHw.io
  /\ {"io", "graph"} \subseteq diskWanted /\ diskHw.io # None /\ "DiskIoHistory" \notin gone
       => {"io", "graph"} \subseteq wanted /\ hw.io = diskHw.io
  /\ \A l \in Label :
       "labels" \in diskWanted /\ diskHw.labels[l] # None /\ l \notin gone
         => "labels" \in wanted /\ hw.labels[l] = diskHw.labels[l]

(* A rejob forgets each job that is no longer wanted or reads something     *)
(* else.                                                                    *)
LEMMA JobsStay ==
  ASSUME DiskAssumption, NEW hw, NEW wanted
  PROVE  LET old  == DiskJobs(diskHw, diskWanted)
             new  == DiskJobs(hw, wanted)
             gone == {k \in DOMAIN old : k \notin DOMAIN new \/ old[k] # new[k]}
         IN  StaysWith(gone, hw, wanted)
<1> DEFINE old == DiskJobs(diskHw, diskWanted)
           new == DiskJobs(hw, wanted)
           gone == {k \in DOMAIN old : k \notin DOMAIN new \/ old[k] # new[k]}
<1>1. ASSUME NEW h, NEW w
      PROVE  LET jobs == DiskJobs(h, w)
             IN  /\ "DiskIo" \in DOMAIN jobs <=> "io" \in w /\ h.io # None
                 /\ "DiskIoHistory" \in DOMAIN jobs <=> {"io", "graph"} \subseteq w /\ h.io # None
                 /\ \A l \in Label : l \in DOMAIN jobs <=> "labels" \in w /\ h.labels[l] # None
                 /\ \A l \in Label : l \in DOMAIN jobs => jobs[l] = h.labels[l]
                 /\ "DiskIo" \in DOMAIN jobs => jobs["DiskIo"] = h.io
                 /\ "DiskIoHistory" \in DOMAIN jobs => jobs["DiskIoHistory"] = h.io
  BY DiskAssumption DEF DiskJobs, DiskAssumption
<1>2. StaysWith(gone, hw, wanted)
  BY <1>1 DEF StaysWith
<1> QED BY <1>2

(* An inventory and a demand leave only what still has its job and its      *)
(* source.                                                                  *)
LEMMA DiskRejobKeeps ==
  ASSUME DiskAssumption, DiskInv, NEW hw \in DiskHardware, NEW wanted, DiskRejob(hw, wanted)
  PROVE  DiskInv'
<1> DEFINE old == DiskJobs(diskHw, diskWanted)
           new == DiskJobs(hw, wanted)
           gone == {k \in DOMAIN old : k \notin DOMAIN new \/ old[k] # new[k]}
<1>1. /\ disk' = InvalidateDisk(disk, gone) /\ diskShown' = InvalidateShownDisk(diskShown, gone)
      /\ diskHw' = hw /\ diskWanted' = wanted /\ UNCHANGED <<diskNow, diskGap>>
  BY DEF DiskRejob
<1>2. StaysWith(gone, hw, wanted)
  BY JobsStay
<1> HIDE DEF gone
<1>3. \A device : RatesOf(device)' = RatesOf(device) /\ DiskPoints(device)' = DiskPoints(device)
                                                        /\ Counts(device)' = Counts(device)
  BY <1>1 DEF RatesOf, DiskPoints, Counts
<1>4. ASSUME NEW h \in Seq(DiskPoints(diskHw.io)), h # <<>>
      PROVE  diskHw.io # None
  BY <1>4, NothingOfNoDevice
<1>5. \A q : <<>> \in Seq(q)
  OBVIOUS
<1>6. DiskKept(disk)'
  <2> DEFINE io == IF "DiskIo" \in gone THEN ResetIo(disk) ELSE disk
             history == IF "DiskIoHistory" \in gone THEN <<>> ELSE disk.history
             labels == [l \in Label |-> IF l \in gone THEN Unlabelled[l] ELSE disk.labels[l]]
  <2>1. /\ DiskKept(io) /\ ("DiskIo" \in gone => io.device = None)
        /\ ("DiskIo" \notin gone => io = disk)
        /\ io.history = disk.history /\ io.labels = disk.labels
    BY ResetIoKeeps DEF DiskInv
  <2>2. disk' = [io EXCEPT !.history = IF "DiskIoHistory" \in gone THEN <<>> ELSE io.history,
                           !.labels = [l \in Label |-> IF l \in gone THEN Unlabelled[l] ELSE io.labels[l]]]
    BY <1>1 DEF InvalidateDisk
  <2> HIDE DEF io
  <2>3. /\ DOMAIN disk' = DOMAIN io /\ disk'.io = io.io /\ disk'.device = io.device
        /\ disk'.counted = io.counted /\ disk'.history = history /\ disk'.labels = labels
    BY <2>1, <2>2 DEF DiskKept
  <2>4. io.device # None => io.device = hw.io /\ "io" \in wanted
    BY <1>2, <2>1 DEF DiskInv, DiskKept, StaysWith
  <2>5. history \in Seq(DiskPoints(hw.io)) /\ (history # <<>> => {"io", "graph"} \subseteq wanted)
    <3>1. CASE history = <<>>
      BY <1>5, <3>1
    <3>2. CASE history # <<>>
      <4>1. history = disk.history /\ "DiskIoHistory" \notin gone
        BY <3>2
      <4>2. {"io", "graph"} \subseteq diskWanted /\ disk.history \in Seq(DiskPoints(diskHw.io))
        BY <3>2, <4>1 DEF DiskInv, DiskKept
      <4>3. diskHw.io # None
        BY <1>4, <3>2, <4>1, <4>2
      <4> QED BY <1>2, <4>1, <4>2, <4>3 DEF StaysWith
    <3> QED BY <3>1, <3>2
  <2>6. DOMAIN labels = Label /\ \A l \in Label : LabelKept(labels[l])
    BY DEF DiskInv, DiskKept, LabelKept, Unlabelled, NotRetained
  <2> HIDE DEF history, labels
  <2> QED BY <1>1, <1>3, <2>1, <2>3, <2>4, <2>5, <2>6 DEF DiskKept, LabelKept
<1>7. DiskShows(diskShown)'
  <2> DEFINE io == IF "DiskIo" \in gone THEN None ELSE diskShown.io
             history == IF "DiskIoHistory" \in gone THEN <<>> ELSE diskShown.history
             labels == [l \in Label |-> IF l \in gone THEN None ELSE diskShown.labels[l]]
  <2>1. /\ DOMAIN diskShown' = DOMAIN diskShown /\ diskShown'.io = io
        /\ diskShown'.history = history /\ diskShown'.labels = labels
    BY <1>1 DEF InvalidateShownDisk, DiskInv, DiskShows
  <2>2. io \in Maybe(RatesOf(hw.io)) /\ (io # None => "io" \in wanted)
    <3>1. CASE io = None
      BY <3>1 DEF Maybe
    <3>2. CASE io # None
      <4>1. io = diskShown.io /\ "DiskIo" \notin gone
        BY <3>2
      <4>2. "io" \in diskWanted /\ diskShown.io \in Maybe(RatesOf(diskHw.io))
        BY <3>2, <4>1 DEF DiskInv, DiskShows
      <4>3. diskHw.io # None
        BY <3>2, <4>1, <4>2, NothingOfNoDevice DEF Maybe
      <4> QED BY <1>2, <4>1, <4>2, <4>3 DEF StaysWith
    <3> QED BY <3>1, <3>2
  <2>3. history \in Seq(DiskPoints(hw.io)) /\ (history # <<>> => {"io", "graph"} \subseteq wanted)
    <3>1. CASE history = <<>>
      BY <1>5, <3>1
    <3>2. CASE history # <<>>
      <4>1. history = diskShown.history /\ "DiskIoHistory" \notin gone
        BY <3>2
      <4>2. {"io", "graph"} \subseteq diskWanted
               /\ diskShown.history \in Seq(DiskPoints(diskHw.io))
        BY <3>2, <4>1 DEF DiskInv, DiskShows
      <4>3. diskHw.io # None
        BY <1>4, <3>2, <4>1, <4>2
      <4> QED BY <1>2, <4>1, <4>2, <4>3 DEF StaysWith
    <3> QED BY <3>1, <3>2
  <2>4. /\ DOMAIN labels = Label
        /\ \A l \in Label : labels[l] # None =>
             Some(labels[l][1].value) = hw.labels[l] /\ "labels" \in wanted
    BY <1>2, SomeIsNotNone DEF DiskInv, DiskShows, StaysWith
  <2> HIDE DEF io, history, labels
  <2> QED BY <1>1, <1>3, <2>1, <2>2, <2>3, <2>4 DEF DiskInv, DiskShows
<1> QED BY <1>1, <1>6, <1>7 DEF DiskInv

(* What the invariant says of the disks.                                    *)
LEMMA DiskInvAgrees == ASSUME DiskInv PROVE DisksAgree
<1>1. ASSUME NEW s \in Values(disk.io) \cup {disk.history[p].sample : p \in DOMAIN disk.history}
      PROVE  \E device : s \in RatesOf(device)
  <2>1. CASE s \in Values(disk.io)
    <3>1. disk.io.latest \in Maybe(RatesOf(disk.device))
             /\ disk.io.previous \in Maybe(RatesOf(disk.device))
      BY DEF DiskInv, DiskKept
    <3>2. \A m \in Maybe(RatesOf(disk.device)) : \A i \in DOMAIN m : m[i] \in RatesOf(disk.device)
      BY DEF Maybe, None, Some
    <3> QED BY <2>1, <3>1, <3>2 DEF Values
  <2>2. CASE s \in {disk.history[p].sample : p \in DOMAIN disk.history}
    <3>1. \A p \in DOMAIN disk.history : disk.history[p] \in DiskPoints(diskHw.io)
      BY DEF DiskInv, DiskKept
    <3> QED BY <2>2, <3>1 DEF DiskPoints
  <2> QED BY <2>1, <2>2
<1>2. diskShown.io # None => Some(diskShown.io[1].value.device) = diskHw.io
  <2>1. diskShown.io # None => diskShown.io[1] \in RatesOf(diskHw.io)
    BY MaybeEither DEF DiskInv, DiskShows
  <2> QED BY <2>1 DEF RatesOf
<1>3. \A p \in DOMAIN diskShown.history : diskShown.history[p] \in DiskPoints(diskHw.io)
  BY DEF DiskInv, DiskShows
<1>4. /\ \A p \in DOMAIN diskShown.history :
           /\ Some(diskShown.history[p].sample.value.device) = diskHw.io
           /\ diskShown.history[p].sample.at <= diskShown.history[p].deadline
  BY <1>3 DEF DiskPoints, RatesOf
<1>5. \A s \in Values(disk.io) \cup {disk.history[p].sample : p \in DOMAIN disk.history} :
        /\ s.value.counter = s.value.device
        /\ s.value.since < s.at
        /\ s.at > diskGap => s.value.since >= diskGap
  BY <1>1 DEF RatesOf
<1> QED BY <1>2, <1>4, <1>5 DEF DisksAgree, DiskInv, DiskShows

(* Every reading of the disks is of the hardware the inventory names.       *)
LEMMA DisksAreRead == DiskSpec => []DisksAgree
<1>1. DiskInit => DiskInv
  <2> SUFFICES ASSUME DiskInit PROVE DiskInv
    OBVIOUS
  <2>1. \A q : <<>> \in Seq(q)
    OBVIOUS
  <2>2. DiskKept(disk)
    BY <2>1, NothingRetained DEF DiskInit, DiskKept, LabelKept, Unlabelled, NotRetained
  <2>3. DiskShows(diskShown)
    BY <2>1, NothingRetained DEF DiskInit, DiskShows
  <2> QED BY <2>2, <2>3 DEF DiskInit, DiskInv
<1>2. DiskInv /\ [DiskNext]_diskVars => DiskInv'
  <2> SUFFICES ASSUME DiskInv, [DiskNext]_diskVars PROVE DiskInv'
    OBVIOUS
  <2>1. CASE UNCHANGED diskVars
    BY <2>1 DEF diskVars, DiskInv, DiskKept, DiskShows, RatesOf, Counts, DiskPoints, LabelKept
  <2>2. diskHw \in DiskHardware
    BY DEF DiskInv
  <2> QED BY <2>1, <2>2, DiskAssumption, RunDiskIoKeeps, RunDiskIoHistoryKeeps, RunLabelKeeps,
             ResetDiskBaselineKeeps, DiskTimeKeeps, DiskRejobKeeps DEF DiskNext
<1> QED BY <1>1, <1>2, DiskInvAgrees, PTL DEF DiskSpec

-----------------------------------------------------------------------------
(* The status files and the backlight.                                        *)

(* A sample that is kept of an item was read from the item's source.          *)
KeptItem(item, kept) ==
  /\ {"sample", "source"} \subseteq DOMAIN kept
  /\ kept.sample.latest # None =>
       IF item \in File
       THEN kept.source # None /\ Some(kept.sample.latest[1].value) = kept.source
       ELSE kept.sample.latest[1].value = Backlight

(* The inductive invariant of the files and the backlight.                  *)
ExternalInv ==
  /\ external = [item \in Item |-> external[item]]
  /\ externalShown = [item \in Item |-> externalShown[item]]
  /\ externalCfg \in [File -> Paths]
  /\ \A item \in Item : KeptItem(item, external[item])
  /\ ExternalAgrees

(* A new source has no sample.                                              *)
LEMMA NothingKept == ASSUME NEW item, NEW source
   PROVE KeptItem(item, [NewItem EXCEPT !.source = source])
BY DEF NewItem, NotRetained, KeptItem, None

(* A new item has no sample.                                                *)
LEMMA NewItemKept == ASSUME NEW item PROVE KeptItem(item, NewItem)
BY DEF NewItem, NotRetained, KeptItem, None

(* The source of an item is a path or the backlight.                          *)
LEMMA SourceHolds ==
  ASSUME externalCfg \in [File -> Paths], NEW item \in Item, SourceOf(item) # None
  PROVE  /\ SourceOf(item) = Some(SourceOf(item)[1])
         /\ item \notin File => SourceOf(item) = Some(Backlight)
<1>1. \/ item \in File /\ SourceOf(item) = externalCfg[item]
      \/ item \notin File /\ SourceOf(item) = Some(Backlight)
  BY DEF SourceOf, ExternalSource, Item, File
<1>2. \A path \in Paths : path = None \/ path = Some(path[1])
  BY SomeIsNotNone DEF Paths
<1> QED BY <1>1, <1>2, SomeIsNotNone

(* Before a run the sample of another source goes; one on display stays.      *)
LEMMA ReconcileItem ==
  ASSUME ExternalInv, NEW item \in Item
  PROVE  /\ KeptItem(item, ReconcileExternal(item))
         /\ item \in File => ReconcileExternal(item).source = SourceOf(item)
         /\ externalShown[item] # None => ReconcileExternal(item) = external[item]
<1>1. ReconcileExternal(item) \in {external[item],
         NewItem, [NewItem EXCEPT !.source = SourceOf(item)]}
  BY DEF ReconcileExternal
<1>2. KeptItem(item, ReconcileExternal(item))
  <2>1. KeptItem(item, [NewItem EXCEPT !.source = SourceOf(item)])
    BY NothingKept
  <2>2. KeptItem(item, NewItem) /\ KeptItem(item, external[item])
    BY NewItemKept DEF ExternalInv
  <2> QED BY <1>1, <2>1, <2>2
<1>3. item \in File => ReconcileExternal(item).source = SourceOf(item)
  <2>1. [NewItem EXCEPT !.source = SourceOf(item)].source = SourceOf(item)
    BY DEF NewItem
  <2> QED BY <2>1 DEF ReconcileExternal
<1>4. ASSUME externalShown[item] # None
      PROVE  ReconcileExternal(item) = external[item]
  <2>1. /\ Some(externalShown[item][1].value) = SourceOf(item)
        /\ externalShown[item] = external[item].sample.latest
    BY <1>4 DEF ExternalInv, ExternalAgrees
  <2>2. SourceOf(item) # None
    BY <2>1, SomeIsNotNone
  <2>3. item \in File => external[item].source = SourceOf(item)
    BY <1>4, <2>1 DEF ExternalInv, KeptItem
  <2> QED BY <2>2, <2>3 DEF ReconcileExternal
<1> QED BY <1>2, <1>3, <1>4

(* A sample that is committed was read from the item's source.              *)
LEMMA RunExternalKeeps ==
  ASSUME ExternalInv, NEW item \in Item, NEW readable \in BOOLEAN, RunExternal(item, readable)
  PROVE  ExternalInv'
<1> DEFINE outcome == IF readable THEN Value(SourceOf(item)[1]) ELSE Failed
           before == ReconcileExternal(item)
           sample == CommitAttempt(before.sample, outcome, externalNow)
           new == [before EXCEPT !.sample = sample]
<1>1. /\ SourceOf(item) # None /\ UNCHANGED externalCfg /\ \A i : SourceOf(i)' = SourceOf(i)
      /\ external' = [i \in Item |-> IF i = item THEN new ELSE ReconcileExternal(i)]
      /\ externalShown' = [externalShown EXCEPT ![item] = external'[item].sample.latest]
  BY DEF RunExternal, ExternalAround, SourceOf
<1>2. /\ KeptItem(item, before) /\ (item \in File => before.source = SourceOf(item))
      /\ SourceOf(item) = Some(SourceOf(item)[1])
      /\ item \notin File => SourceOf(item) = Some(Backlight)
  BY <1>1, ReconcileItem, SourceHolds DEF ExternalInv
<1>3. \/ sample = before.sample
      \/ sample.latest = Some(Sample(SourceOf(item)[1], externalNow))
  BY DEF CommitAttempt, Value, Failed, RecordValue, RecordFailure
<1> HIDE DEF sample, before
<1>4. /\ {"sample", "source"} \subseteq DOMAIN new /\ new.sample = sample
         /\ new.source = before.source
  BY <1>2 DEF KeptItem
<1> HIDE DEF new
<1>5. new.sample.latest # None => Some(new.sample.latest[1].value) = SourceOf(item)
  <2>1. CASE sample = before.sample
    BY <1>2, <1>4, <2>1 DEF KeptItem
  <2>2. CASE sample.latest = Some(Sample(SourceOf(item)[1], externalNow))
    <3>1. sample.latest[1].value = SourceOf(item)[1]
      BY <2>2, SomeIsNotNone DEF Sample
    <3> QED BY <1>2, <1>4, <3>1
  <2> QED BY <1>3, <2>1, <2>2
<1>6. KeptItem(item, new)
  <2>1. item \notin File => \A x : Some(x) = SourceOf(item) => x = Backlight
    BY <1>2, SomeIsNotNone
  <2> QED BY <1>1, <1>2, <1>4, <1>5, <2>1 DEF KeptItem
<1>7. /\ external' = [i \in Item |-> external'[i]]
      /\ externalShown' = [i \in Item |-> externalShown'[i]]
      /\ external'[item] = new /\ externalShown'[item] = new.sample.latest
      /\ \A i \in Item : i # item => /\ external'[i] = ReconcileExternal(i)
                                     /\ externalShown'[i] = externalShown[i]
  BY <1>1 DEF ExternalInv
<1>8. \A i \in Item : KeptItem(i, external'[i])
  BY <1>6, <1>7, ReconcileItem
<1>9. ExternalAgrees'
  <2>1. \A i \in Item : externalShown'[i] # None =>
           /\ Some(externalShown'[i][1].value) = SourceOf(i)
           /\ externalShown'[i] = external'[i].sample.latest
    <3> SUFFICES ASSUME NEW i \in Item, externalShown'[i] # None
                 PROVE  /\ Some(externalShown'[i][1].value) = SourceOf(i)
                        /\ externalShown'[i] = external'[i].sample.latest
      OBVIOUS
    <3>1. CASE i = item
      BY <1>5, <1>7, <3>1
    <3>2. CASE i # item
      BY <1>7, <3>2, ReconcileItem DEF ExternalInv, ExternalAgrees
    <3> QED BY <3>1, <3>2
  <2> QED BY <1>1, <2>1 DEF ExternalAgrees
<1> QED BY <1>1, <1>7, <1>8, <1>9 DEF ExternalInv, KeptItem

(* What a reload or a demand retires goes, what stays has its source.       *)
LEMMA ExternalRejobKeeps ==
  ASSUME ExternalInv, NEW cfg \in [File -> Paths], NEW wanted, NEW lit, ExternalRejob(cfg,
     wanted, lit)
  PROVE  ExternalInv'
<1> DEFINE gone == {i \in Item : SourceOf(i) \notin {None, ExternalSource(i, cfg, wanted, lit)}}
<1>1. /\ externalCfg' = cfg /\ \A i : SourceOf(i)' = ExternalSource(i, cfg, wanted, lit)
      /\ external' = [i \in Item |-> IF i \in gone THEN NewItem ELSE external[i]]
      /\ externalShown' = [i \in Item |-> IF i \in gone THEN None ELSE externalShown[i]]
  BY DEF ExternalRejob, InvalidateExternal, SourceOf
<1>2. \A i \in Item : KeptItem(i, external'[i])
  <2> HIDE DEF gone
  <2> QED BY <1>1, NewItemKept DEF ExternalInv
<1>3. ExternalAgrees'
  <2> SUFFICES ASSUME NEW i \in Item, externalShown'[i] # None
               PROVE  /\ Some(externalShown'[i][1].value) = SourceOf(i)'
                      /\ externalShown'[i] = external'[i].sample.latest
    BY DEF ExternalAgrees
  <2>1. i \notin gone /\ externalShown'[i] = externalShown[i] /\ external'[i] = external[i]
    <3> HIDE DEF gone
    <3> QED BY <1>1
  <2>2. Some(externalShown[i][1].value) = SourceOf(i)
           /\ externalShown[i] = external[i].sample.latest
    BY <2>1 DEF ExternalInv, ExternalAgrees
  <2>3. SourceOf(i)' = SourceOf(i)
    BY <1>1, <2>1, <2>2, SomeIsNotNone
  <2> QED BY <2>1, <2>2, <2>3
<1>4. external' = [i \in Item |-> external'[i]]
         /\ externalShown' = [i \in Item |-> externalShown'[i]]
  BY <1>1
<1> QED BY <1>1, <1>2, <1>3, <1>4 DEF ExternalInv, KeptItem

(* Every value shown of an item was read from its source.                   *)
LEMMA FilesAreRead == ExternalSpec => []ExternalAgrees
<1>1. ExternalInit => ExternalInv
  BY NewItemKept DEF ExternalInit, ExternalInv, ExternalAgrees
<1>2. ExternalInv /\ [ExternalNext]_externalVars => ExternalInv'
  <2> SUFFICES ASSUME ExternalInv, [ExternalNext]_externalVars PROVE ExternalInv'
    OBVIOUS
  <2>1. CASE ExternalTime \/ UNCHANGED externalVars
    BY <2>1 DEF ExternalTime, externalVars, ExternalInv, ExternalAgrees, KeptItem, SourceOf
  <2>2. ASSUME NEW wanted, NEW lit, ExternalRejob(externalCfg, wanted, lit) PROVE ExternalInv'
    BY <2>2, ExternalRejobKeeps DEF ExternalInv
  <2> QED BY <2>1, <2>2, RunExternalKeeps, ExternalRejobKeeps DEF ExternalNext
<1> QED BY <1>1, <1>2, PTL DEF ExternalSpec, ExternalInv

-----------------------------------------------------------------------------
(* The NPU.                                                                   *)

(* The NPU of an inventory, if any.                                         *)
NpuNames == {None} \cup {Some(n) : n \in Npu}

(* The samples and the points that may be kept of an NPU.                     *)
NpuSamplesOf(source) == {s \in [value : Npu, at : npuLayout..npuNow] : Some(s.value) = source}

(* The points that may be drawn of an NPU.                                  *)
NpuPointsOf(source) ==
  {p \in [sample : [value : Npu, at : 0..npuNow], due : 0..npuNow] :
     /\ Some(p.sample.value) = source /\ p.sample.at <= p.due
     /\ p.due > npuLayout => p.sample.at >= npuLayout}

(* What may be retained of an NPU.                                          *)
NpuRetained(source) ==
  [NpuMetric -> [latest : Maybe(NpuSamplesOf(source)), previous : Maybe(NpuSamplesOf(source))]]

(* Power and clock are of one table.                                          *)
Paired(samples) ==
  samples["power"].latest # None /\ samples["frequency"].latest # None =>
    samples["power"].latest = samples["frequency"].latest

(* The state of the worker is of one NPU.                                   *)
NpuKept(kept) ==
  /\ kept = [source |-> kept.source, samples |-> kept.samples, history |-> kept.history]
  /\ kept.samples \in NpuRetained(kept.source) /\ Paired(kept.samples)
  /\ kept.history \in Seq(NpuPointsOf(kept.source))

(* What is on display is retained, of the NPU that is read.                   *)
NpuShows ==
  \A m \in NpuMetric : npuShown.now[m] # None =>
    /\ npuShown.now[m] = npu.samples[m].latest
    /\ npu.source = NpuSource(npuHw, npuWanted)

(* The inductive invariant of the NPU.                                      *)
NpuInv ==
  /\ npuHw \in NpuNames /\ npuNow \in Nat /\ npuLayout \in 0..npuNow
  /\ NpuKept(npu)
  /\ npuShown = [now |-> npuShown.now, history |-> npuShown.history]
  /\ npuShown.history \in Seq(NpuPointsOf(HistorySource(npuHw, npuWanted)))
  /\ NpuShows

(* Before a run everything of another source goes.                            *)
LEMMA ReconcileNpuKeeps ==
  ASSUME NpuInv
  PROVE  /\ NpuKept(ReconcileNpu) /\ ReconcileNpu.source = NpuSource(npuHw, npuWanted)
         /\ \A m \in NpuMetric : npuShown.now[m] # None => ReconcileNpu.samples[m] = npu.samples[m]
<1> DEFINE source == NpuSource(npuHw, npuWanted)
           kept == IF npu.source = source THEN npu ELSE NewNpu(source)
<1>1. NpuKept(NewNpu(source)) /\ NewNpu(source).source = source
  <2>1. NotRetained \in [latest : Maybe(NpuSamplesOf(source)),
           previous : Maybe(NpuSamplesOf(source))]
    BY DEF NotRetained, Maybe
  <2>2. <<>> \in Seq(NpuPointsOf(source))
    OBVIOUS
  <2> HIDE DEF source
  <2> QED BY <2>1, <2>2 DEF NewNpu, NpuKept, NpuRetained, Paired, NotRetained, NpuMetric
<1>2. NpuKept(kept) /\ kept.source = source
  BY <1>1 DEF NpuInv
<1>3. /\ ReconcileNpu = IF "graph" \in npuWanted THEN kept ELSE [kept EXCEPT !.history = <<>>]
      /\ npu.source = source => kept = npu
  BY DEF ReconcileNpu
<1> HIDE DEF kept
<1>4. /\ [kept EXCEPT !.history = <<>>] = [source |-> source, samples |-> kept.samples,
         history |-> <<>>]
      /\ <<>> \in Seq(NpuPointsOf(source))
  BY <1>2 DEF NpuKept
<1>5. /\ NpuKept(ReconcileNpu) /\ ReconcileNpu.source = source
      /\ ReconcileNpu.samples = kept.samples
  BY <1>2, <1>3, <1>4 DEF NpuKept
<1>6. \A m \in NpuMetric : npuShown.now[m] # None => npu.source = source
  BY DEF NpuInv, NpuShows
<1> QED BY <1>3, <1>5, <1>6

(* Any new reading of the NPU: what is shown is what is retained then.        *)
LEMMA ReadingKeeps ==
  ASSUME NpuInv, NpuSource(npuHw, npuWanted) # None, NEW samples,
         npu' = [ReconcileNpu EXCEPT !.samples = samples], ShowNpu = npuShown',
         UNCHANGED <<npuHw, npuWanted, npuNow>>, npuLayout' \in {npuLayout, npuNow},
         samples \in NpuRetained(NpuSource(npuHw, npuWanted))', Paired(samples)
  PROVE  NpuInv'
<1> DEFINE source == NpuSource(npuHw, npuWanted)
           kept == ReconcileNpu
<1>1. NpuKept(kept) /\ kept.source = source
  BY ReconcileNpuKeeps
<1> HIDE DEF kept
<1>2. npu' = [source |-> source, samples |-> samples, history |-> kept.history]
  BY <1>1 DEF NpuKept, kept
<1>3. \A s : NpuPointsOf(s) \subseteq NpuPointsOf(s)'
  BY DEF NpuPointsOf, NpuInv
<1>4. \A s, q : q \in Seq(NpuPointsOf(s)) => q \in Seq(NpuPointsOf(s)')
  BY <1>3, SeriesMonotonic
<1>5. NpuKept(npu)'
  <2>1. source' = source
    OBVIOUS
  <2>2. kept.history \in Seq(NpuPointsOf(source)')
    BY <1>1, <1>4 DEF NpuKept
  <2>3. /\ npu'.source = source /\ npu'.samples = samples /\ npu'.history = kept.history
    BY <1>2
  <2>4. samples \in NpuRetained(source)' /\ Paired(samples)
    OBVIOUS
  <2> HIDE DEF source
  <2> QED BY <1>2, <2>1, <2>2, <2>3, <2>4 DEF NpuKept, NpuRetained, NpuPointsOf, NpuSamplesOf,
     Paired
<1>6. /\ npuShown' = [now |-> [m \in NpuMetric |-> npu'.samples[m].latest],
         history |-> npuShown.history]
  BY DEF ShowNpu, NpuInv
<1>7. NpuShows'
  BY <1>2, <1>6 DEF NpuShows
<1>8. npuShown'.history \in Seq(NpuPointsOf(HistorySource(npuHw, npuWanted)))'
  <2>1. HistorySource(npuHw, npuWanted)' = HistorySource(npuHw, npuWanted)
    OBVIOUS
  <2>2. npuShown'.history \in Seq(NpuPointsOf(HistorySource(npuHw, npuWanted)))
    BY <1>6 DEF NpuInv
  <2> QED BY <1>3, <2>1, <2>2, SeriesMonotonic DEF NpuPointsOf
<1> QED BY <1>5, <1>6, <1>7, <1>8 DEF NpuInv

(* A table is recorded for the NPU that was read.                           *)
LEMMA RunNpuKeeps == ASSUME NpuInv, NEW table \in NpuTables, RunNpu(table) PROVE NpuInv'
<1> DEFINE source == NpuSource(npuHw, npuWanted)
           kept == ReconcileNpu.samples
           samples == RecordTable(kept, table)
           S == NpuSamplesOf(source)
           Said(m) == CASE table[m] = "value" -> Value(npuHw[1])
                        [] table[m] = "unavailable" -> Absent
                        [] table[m] = "invalid" -> Failed
<1>1. /\ source # None /\ UNCHANGED <<npuHw, npuWanted, npuNow, npuLayout>>
      /\ npu' = [ReconcileNpu EXCEPT !.samples = samples] /\ npuShown' = ShowNpu
  BY DEF RunNpu, NpuAround
<1>2. /\ npuHw = Some(npuHw[1]) /\ source = npuHw /\ npuHw[1] \in Npu
  BY <1>1, SomeIsNotNone DEF NpuSource, NpuInv, NpuNames
<1>3. kept \in [NpuMetric -> [latest : Maybe(S), previous : Maybe(S)]]
  BY ReconcileNpuKeeps DEF NpuKept, NpuRetained
<1>4. Sample(npuHw[1], npuNow) \in S
  BY <1>2 DEF Sample, NpuSamplesOf, NpuInv
<1>5. \A m \in NpuMetric :
        /\ Said(m) \in {Baseline, Failed, Absent} \/ \E v : Said(m) = Value(v) /\ Sample(v,
           npuNow) \in S
        /\ m # "usage" => Said(m) \in {Absent, Value(npuHw[1])}
  <2> HIDE DEF S
  <2> QED BY <1>4 DEF NpuTables
<1>6. samples = [m \in NpuMetric |-> CommitAttempt(kept[m], Said(m), npuNow)]
  BY DEF RecordTable
<1> HIDE DEF S, Said, samples, kept
<1>7. samples \in [NpuMetric -> [latest : Maybe(S), previous : Maybe(S)]]
  <2>1. \A m \in NpuMetric : CommitAttempt(kept[m], Said(m), npuNow) \in [latest : Maybe(S),
           previous : Maybe(S)]
    BY <1>3, <1>5, CommitRecords
  <2> QED BY <1>6, <2>1
<1>8. Paired(samples)
  <2>1. \A m \in NpuMetric : m # "usage" =>
          samples[m].latest \in {None, Some(Sample(npuHw[1], npuNow))}
    BY <1>5, <1>6 DEF CommitAttempt, Value, Absent, RecordAbsence, RecordValue, NotRetained
  <2> QED BY <2>1 DEF Paired, NpuMetric
<1>9. samples \in NpuRetained(source)'
  BY <1>1, <1>7 DEF NpuRetained, NpuSamplesOf, S
<1> HIDE DEF source
<1> QED BY <1>1, <1>8, <1>9, ReadingKeeps DEF source, kept

(* A table of another layout leaves no sample.                              *)
LEMMA OtherLayoutKeeps == ASSUME NpuInv, RunNpuOtherLayout PROVE NpuInv'
<1> DEFINE source == NpuSource(npuHw, npuWanted)
           samples == AfterLayout(ReconcileNpu.samples)
<1>1. /\ source # None /\ UNCHANGED <<npuHw, npuWanted, npuNow>> /\ npuLayout' = npuNow
      /\ npu' = [ReconcileNpu EXCEPT !.samples = samples] /\ npuShown' = ShowNpu
  BY DEF RunNpuOtherLayout, NpuAround
<1>2. samples = [m \in NpuMetric |-> [latest |-> None, previous |-> None]]
  BY DEF AfterLayout, RecordAbsence, NotRetained
<1> HIDE DEF samples
<1>3. samples \in NpuRetained(source)' /\ Paired(samples)
  BY <1>2 DEF NpuRetained, Maybe, Paired, NpuMetric
<1> QED BY <1>1, <1>3, ReadingKeeps

(* A table that cannot be read changes no sample.                           *)
LEMMA RunNpuFailedKeeps == ASSUME NpuInv, RunNpuFailed PROVE NpuInv'
<1> DEFINE source == NpuSource(npuHw, npuWanted)
           kept == ReconcileNpu.samples
           samples == [m \in NpuMetric |-> RecordFailure(kept[m])]
<1>1. /\ source # None /\ UNCHANGED <<npuHw, npuWanted, npuNow, npuLayout>>
      /\ npu' = [ReconcileNpu EXCEPT !.samples = samples] /\ npuShown' = ShowNpu
  BY DEF RunNpuFailed, NpuAround
<1>2. kept \in NpuRetained(source) /\ Paired(kept)
  BY ReconcileNpuKeeps DEF NpuKept
<1> HIDE DEF kept
<1>3. samples = kept
  BY <1>2 DEF RecordFailure, NpuRetained
<1> HIDE DEF samples
<1>4. samples \in NpuRetained(source)' /\ Paired(samples)
  BY <1>1, <1>2, <1>3 DEF NpuRetained, NpuSamplesOf
<1> QED BY <1>1, <1>4, ReadingKeeps DEF samples, kept

(* A point is a retained load of no later than its deadline.                *)
LEMMA RunNpuHistoryKeeps ==
  ASSUME NpuAssumption, NpuInv, NEW deadline \in 0..npuNow, RunNpuHistory(deadline)
  PROVE  NpuInv'
<1> DEFINE source == NpuSource(npuHw, npuWanted)
           kept == ReconcileNpu
           found == SampleAtOrBefore(kept.samples["usage"], deadline)
           point == [sample |-> found[1], due |-> deadline]
           series == Trimmed(Append(kept.history, point), NpuGraphLength)
<1>1. /\ HistorySource(npuHw, npuWanted) # None
      /\ UNCHANGED <<npuHw, npuWanted, npuNow, npuLayout>>
      /\ IF found = None THEN npu' = kept /\ UNCHANGED npuShown
         ELSE /\ npu' = [kept EXCEPT !.history = series]
              /\ npuShown' = [npuShown EXCEPT !.history = npu'.history]
  BY DEF RunNpuHistory, NpuAround
<1>2. /\ NpuKept(kept) /\ kept.source = source
      /\ \A m \in NpuMetric : npuShown.now[m] # None => kept.samples[m] = npu.samples[m]
  BY ReconcileNpuKeeps
<1>3. HistorySource(npuHw, npuWanted) = source
  BY <1>1 DEF HistorySource, NpuSource
<1> HIDE DEF kept
<1>4. found # None => point \in NpuPointsOf(source)
  <2> DEFINE r == kept.samples["usage"]
             S == NpuSamplesOf(source)
  <2>1. r.latest \in Maybe(S) /\ r.previous \in Maybe(S)
    BY <1>2 DEF NpuKept, NpuRetained, NpuMetric
  <2> HIDE DEF r, S
  <2>2. found # None => found[1] \in S /\ found[1].at <= deadline
    BY <2>1, SampleIsRetained DEF r
  <2> HIDE DEF found
  <2> QED BY <2>2 DEF S, NpuSamplesOf, NpuPointsOf, NpuInv
<1> HIDE DEF found, point
<1>5. found # None => series \in Seq(NpuPointsOf(source))
  <2>1. found # None => Append(kept.history, point) \in Seq(NpuPointsOf(source))
    BY <1>2, <1>4 DEF NpuKept
  <2> QED BY <2>1, TrimmedSeries DEF NpuAssumption
<1> HIDE DEF series
<1>6. CASE found = None
  <2>1. NpuKept(npu)'
    BY <1>1, <1>2, <1>6 DEF NpuKept, NpuRetained, NpuPointsOf, NpuSamplesOf, Paired
  <2>2. NpuShows'
    BY <1>1, <1>2, <1>6 DEF NpuInv, NpuShows
  <2>3. npuShown'.history \in Seq(NpuPointsOf(HistorySource(npuHw, npuWanted)))'
    BY <1>1, <1>6 DEF NpuInv, NpuPointsOf
  <2> QED BY <1>1, <1>6, <2>1, <2>2, <2>3 DEF NpuInv
<1>7. CASE found # None
  <2>1. /\ npu' = [source |-> source, samples |-> kept.samples, history |-> series]
        /\ npuShown' = [now |-> npuShown.now, history |-> series]
    BY <1>1, <1>2, <1>7 DEF NpuKept, NpuInv
  <2>2. NpuKept(npu)'
    BY <1>1, <1>2, <1>5, <1>7, <2>1 DEF NpuKept, NpuRetained, NpuPointsOf, NpuSamplesOf, Paired
  <2>3. NpuShows'
    BY <1>1, <1>2, <2>1 DEF NpuInv, NpuShows
  <2>4. npuShown'.history \in Seq(NpuPointsOf(HistorySource(npuHw, npuWanted)))'
    BY <1>1, <1>3, <1>5, <1>7, <2>1 DEF NpuPointsOf
  <2> QED BY <1>1, <2>1, <2>2, <2>3, <2>4 DEF NpuInv
<1> QED BY <1>6, <1>7

(* An inventory and a demand leave only what is of the NPU they name.       *)
LEMMA NpuRejobKeeps ==
  ASSUME NpuInv, NEW hw \in NpuNames, NEW wanted, NpuRejob(hw, wanted)
  PROVE  NpuInv'
<1> DEFINE lost == NpuSource(npuHw, npuWanted) \notin {None, NpuSource(hw, wanted)}
           ended == HistorySource(npuHw, npuWanted) \notin {None, HistorySource(hw, wanted)}
           none == [m \in NpuMetric |-> NotRetained]
<1>1. /\ npu' = [npu EXCEPT !.samples = IF lost THEN none ELSE npu.samples,
                            !.history = IF ended THEN <<>> ELSE npu.history]
      /\ npuShown' = [now |-> IF lost THEN Unread ELSE npuShown.now,
                      history |-> IF ended THEN <<>> ELSE npuShown.history]
      /\ npuHw' = hw /\ npuWanted' = wanted /\ UNCHANGED <<npuNow, npuLayout>>
  BY DEF NpuRejob
<1>2. none \in NpuRetained(npu.source) /\ Paired(none) /\ <<>> \in Seq(NpuPointsOf(npu.source))
  BY DEF NpuRetained, Maybe, Paired, NpuMetric, NotRetained
<1> HIDE DEF none
<1>3. npu' = [source |-> npu.source, samples |-> IF lost THEN none ELSE npu.samples,
              history |-> IF ended THEN <<>> ELSE npu.history]
  <2> HIDE DEF lost, ended
  <2> QED BY <1>1 DEF NpuInv, NpuKept
<1>4. NpuKept(npu)'
  <2> HIDE DEF lost, ended
  <2>1. \A s : NpuRetained(s)' = NpuRetained(s) /\ NpuPointsOf(s)' = NpuPointsOf(s)
    BY <1>1 DEF NpuRetained, NpuSamplesOf, NpuPointsOf
  <2>2. /\ npu'.samples \in NpuRetained(npu.source) /\ Paired(npu'.samples)
        /\ npu'.history \in Seq(NpuPointsOf(npu.source))
        /\ npu'.source = npu.source /\ npu' = [source |-> npu'.source, samples |-> npu'.samples,
           history |-> npu'.history]
    BY <1>2, <1>3 DEF NpuInv, NpuKept
  <2> QED BY <1>1, <2>1, <2>2 DEF NpuKept, NpuRetained, NpuSamplesOf, NpuPointsOf, Paired
<1>5. NpuShows'
  <2>1. CASE lost
    BY <1>1, <2>1 DEF NpuShows, Unread
  <2>2. CASE ~lost
    <3>1. npuShown'.now = npuShown.now /\ npu'.samples = npu.samples /\ npu'.source = npu.source
      BY <1>1, <1>3, <2>2
    <3>2. ASSUME NEW m \in NpuMetric, npuShown.now[m] # None
          PROVE  NpuSource(npuHw, npuWanted) # None
      <4>1. /\ npu.samples[m].latest # None /\ npu.source = NpuSource(npuHw, npuWanted)
            /\ npu.samples[m].latest \in Maybe(NpuSamplesOf(npu.source))
        BY <3>2 DEF NpuInv, NpuShows, NpuKept, NpuRetained
      <4>2. npu.samples[m].latest[1] \in NpuSamplesOf(npu.source)
        BY <4>1, MaybeEither
      <4> QED BY <4>1, <4>2, SomeIsNotNone DEF NpuSamplesOf
    <3>3. NpuSource(npuHw, npuWanted) # None => NpuSource(hw, wanted) = NpuSource(npuHw,
             npuWanted)
      BY <2>2
    <3> HIDE DEF lost
    <3> QED BY <1>1, <3>1, <3>2, <3>3 DEF NpuInv, NpuShows
  <2> QED BY <2>1, <2>2
<1>6. npuShown'.history \in Seq(NpuPointsOf(HistorySource(npuHw, npuWanted)))'
  <2> DEFINE old == HistorySource(npuHw, npuWanted)
             new == HistorySource(hw, wanted)
  <2>1. npuShown'.history \in Seq(NpuPointsOf(new))
    <3>1. CASE ended
      BY <1>1, <3>1
    <3>2. CASE ~ended
      <4>1. old = None \/ old = new
        BY <3>2
      <4>2. npuShown'.history = npuShown.history /\ npuShown.history \in Seq(NpuPointsOf(old))
        BY <1>1, <3>2 DEF NpuInv
      <4>3. NpuPointsOf(None) \subseteq NpuPointsOf(new)
        BY SomeIsNotNone DEF NpuPointsOf
      <4> HIDE DEF ended, old, new
      <4> QED BY <4>1, <4>2, <4>3, SeriesMonotonic
    <3> QED BY <3>1, <3>2
  <2> QED BY <1>1, <2>1 DEF NpuPointsOf
<1> QED BY <1>1, <1>4, <1>5, <1>6 DEF NpuInv

(* Time only widens what may be kept of the NPU.                            *)
LEMMA NpuTimeKeeps == ASSUME NpuInv, NpuTime PROVE NpuInv'
<1>1. npuNow' = npuNow + 1 /\ UNCHANGED <<npu, npuShown, npuHw, npuWanted, npuLayout>>
  BY DEF NpuTime
<1>2. \A s : NpuSamplesOf(s) \subseteq NpuSamplesOf(s)'
         /\ NpuPointsOf(s) \subseteq NpuPointsOf(s)'
  BY <1>1 DEF NpuSamplesOf, NpuPointsOf, NpuInv
<1>3. \A s : /\ Maybe(NpuSamplesOf(s)) \subseteq Maybe(NpuSamplesOf(s)')
             /\ Seq(NpuPointsOf(s)) \subseteq Seq(NpuPointsOf(s)')
  BY <1>2, MaybeMonotonic, SeriesMonotonic
<1>4. \A s : NpuRetained(s) \subseteq NpuRetained(s)'
  BY <1>3 DEF NpuRetained
<1>5. NpuKept(npu)'
  BY <1>1, <1>3, <1>4 DEF NpuInv, NpuKept
<1>6. npuShown'.history \in Seq(NpuPointsOf(HistorySource(npuHw, npuWanted)))'
  BY <1>1, <1>3 DEF NpuInv
<1> QED BY <1>1, <1>5, <1>6 DEF NpuInv, NpuShows

(* What the invariant says of the NPU.                                      *)
LEMMA NpuInvShows == ASSUME NpuInv PROVE NpuAgrees
<1>1. ASSUME NEW m \in NpuMetric, npuShown.now[m] # None
      PROVE  /\ Some(npuShown.now[m][1].value) = npuHw
             /\ npuShown.now[m] = npu.samples[m].latest
             /\ npuShown.now[m][1].at >= npuLayout
  <2>1. /\ npuShown.now[m] = npu.samples[m].latest /\ npu.source = NpuSource(npuHw, npuWanted)
        /\ npu.samples[m].latest \in Maybe(NpuSamplesOf(npu.source))
    BY <1>1 DEF NpuInv, NpuShows, NpuKept, NpuRetained
  <2>2. npuShown.now[m][1] \in NpuSamplesOf(npu.source)
    BY <1>1, <2>1, MaybeEither
  <2> QED BY <2>1, <2>2, SomeIsNotNone DEF NpuSamplesOf, NpuSource, NpuInv
<1>2. npuShown.now["power"] # None /\ npuShown.now["frequency"] # None =>
        npuShown.now["power"] = npuShown.now["frequency"]
  BY <1>1 DEF NpuInv, NpuKept, Paired, NpuMetric
<1>3. ASSUME NEW i \in DOMAIN npuShown.history
      PROVE  LET point == npuShown.history[i]
             IN  /\ Some(point.sample.value) = npuHw
                 /\ point.sample.at <= point.due
                 /\ point.due > npuLayout => point.sample.at >= npuLayout
  <2>1. npuShown.history[i] \in NpuPointsOf(HistorySource(npuHw, npuWanted))
    BY DEF NpuInv
  <2> QED BY <2>1, SomeIsNotNone DEF NpuPointsOf, HistorySource
<1> QED BY <1>1, <1>2, <1>3 DEF NpuAgrees

(* Every reading of the NPU is of the one in the inventory.                 *)
LEMMA NpuIsRead == NpuSpec => []NpuAgrees
<1>1. NpuInit => NpuInv
  <2> SUFFICES ASSUME NpuInit PROVE NpuInv
    OBVIOUS
  <2>1. NotRetained \in [latest : Maybe(NpuSamplesOf(None)), previous : Maybe(NpuSamplesOf(None))]
    BY DEF NotRetained, Maybe
  <2>2. NpuKept(npu)
    BY <2>1 DEF NpuInit, NewNpu, NpuKept, NpuRetained, Paired, NotRetained, NpuMetric
  <2> QED BY <2>2 DEF NpuInit, NpuInv, NpuNames, NpuShows, Unread
<1>2. NpuInv /\ [NpuNext]_npuVars => NpuInv'
  <2> SUFFICES ASSUME NpuInv, [NpuNext]_npuVars PROVE NpuInv'
    OBVIOUS
  <2>1. CASE UNCHANGED npuVars
    BY <2>1 DEF npuVars, NpuInv, NpuKept, NpuRetained, NpuSamplesOf, NpuPointsOf, Paired, NpuShows
  <2> QED BY <2>1, NpuAssumption, RunNpuKeeps, OtherLayoutKeeps, RunNpuFailedKeeps,
     RunNpuHistoryKeeps,
             NpuRejobKeeps, NpuTimeKeeps DEF NpuNext, NpuNames
<1> QED BY <1>1, <1>2, NpuInvShows, PTL DEF NpuSpec

-----------------------------------------------------------------------------
(* The batteries.                                                             *)

(* A set of positions that holds 0 and with each one the next holds them all. *)
LEMMA EveryPosition ==
  ASSUME NEW N \in Nat, NEW A, 0 \in A, \A n \in 1..N : n - 1 \in A => n \in A
  PROVE  N \in A
<1> DEFINE R == {ss \in Nat \X Nat : ss[1] < ss[2]}
           B == {n \in 0..N : n \notin A}
<1>1. IsWellFoundedOn(R, Nat)
  BY NatLessThanWellFounded, Zenon DEF OpToRel
<1>2. \A m, n \in Nat : <<m, n>> \in R <=> m < n
  OBVIOUS
<1> HIDE DEF R
<1> SUFFICES ASSUME B # {} PROVE FALSE
  OBVIOUS
<1>3. PICK n \in B : \A m \in B : <<m, n>> \notin R
  <2>1. B \subseteq Nat
    OBVIOUS
  <2> HIDE DEF B
  <2> QED BY <1>1, <2>1, WFMin
<1>4. n \in 1..N /\ n - 1 \in 0..N /\ n - 1 < n
  BY <1>3
<1>5. <<n - 1, n>> \in R
  BY <1>2, <1>4
<1>6. n - 1 \notin B
  BY <1>3, <1>5
<1> QED BY <1>3, <1>4, <1>6

(* The recursive function of Retain.                                          *)
Retaining(readings, gone, kept) ==
  kept = [n \in 0..Len(readings) |->
            IF n = 0 THEN <<>>
            ELSE IF readings[n] \in gone THEN kept[n - 1] ELSE Append(kept[n - 1], readings[n])]

(* It is one.                                                                 *)
LEMMA RetainingExists ==
  ASSUME NEW readings, Len(readings) \in Nat, NEW gone
  PROVE  \E kept : Retaining(readings, gone, kept)
<1> DEFINE N == Len(readings)
           After(f, n) == IF n = 0 THEN <<>>
                          ELSE IF readings[n] \in gone THEN f[n - 1]
                          ELSE Append(f[n - 1], readings[n])
           Upto(f, k) == f = [n \in 0..k |-> After(f, n)]
           A == {k \in 0..N : \E f : Upto(f, k)}
<1>1. 0 \in A
  <2> DEFINE f == [n \in 0..0 |-> <<>>]
  <2>1. Upto(f, 0)
    OBVIOUS
  <2> HIDE DEF Upto, f
  <2> QED BY <2>1
<1>2. ASSUME NEW k \in 1..N, k - 1 \in A PROVE k \in A
  <2>1. PICK f : Upto(f, k - 1)
    BY <1>2
  <2> DEFINE g == [n \in 0..k |-> IF n = k THEN After(f, k) ELSE f[n]]
  <2>2. \A n \in 0..k : After(g, n) = After(f, n)
    OBVIOUS
  <2>3. \A n \in 0..k - 1 : f[n] = After(f, n)
    BY <2>1
  <2>4. \A n \in 0..k : g[n] = After(g, n)
    BY <2>2, <2>3
  <2>5. Upto(g, k)
    BY <2>4
  <2> HIDE DEF Upto, g
  <2> QED BY <2>5
<1>3. N \in A
  <2> HIDE DEF A, N
  <2> QED BY <1>1, <1>2, EveryPosition DEF N
<1> QED BY <1>3 DEF Retaining

(* No reading is listed twice.                                              *)
Distinct(q) == \A i, j \in DOMAIN q : q[i] = q[j] => i = j

(* What is retained is there once, and is what was there but is not gone.     *)
LEMMA RetainKeeps ==
  ASSUME NEW S, NEW readings \in Seq(S), Distinct(readings), NEW gone
  PROVE  LET kept == Retain(readings, gone)
         IN  /\ kept \in Seq(S) /\ Distinct(kept)
             /\ \A i \in DOMAIN kept :
                  kept[i] \notin gone /\ \E j \in DOMAIN readings : kept[i] = readings[j]
<1> DEFINE N == Len(readings)
           f == CHOOSE kept : Retaining(readings, gone, kept)
           Fine(n) == /\ f[n] \in Seq(S) /\ Distinct(f[n])
                      /\ \A i \in DOMAIN f[n] :
                           f[n][i] \notin gone /\ \E j \in 1..n : f[n][i] = readings[j]
           A == {n \in 0..N : Fine(n)}
<1>1. N \in Nat /\ DOMAIN readings = 1..N
  OBVIOUS
<1>2. Retaining(readings, gone, f)
  BY <1>1, RetainingExists
<1>3. Retain(readings, gone) = f[N]
  BY DEF Retain, Retaining
<1> HIDE DEF f
<1>4. /\ f[0] = <<>>
      /\ \A n \in 1..N : f[n] = IF readings[n] \in gone THEN f[n - 1]
                                ELSE Append(f[n - 1], readings[n])
  <2>1. \A n \in 0..N : f[n] = IF n = 0 THEN <<>> ELSE IF readings[n] \in gone THEN f[n - 1]
                                ELSE Append(f[n - 1], readings[n])
    BY <1>2 DEF Retaining
  <2> QED BY <1>1, <2>1
<1>5. 0 \in A
  <2>1. <<>> \in Seq(S) /\ DOMAIN <<>> = {}
    OBVIOUS
  <2>2. Fine(0)
    BY <1>4, <2>1 DEF Distinct
  <2> HIDE DEF Fine
  <2> QED BY <1>1, <2>2
<1>6. ASSUME NEW n \in 1..N, n - 1 \in A PROVE n \in A
  <2> DEFINE p == f[n - 1]
  <2>1. /\ p \in Seq(S) /\ Distinct(p) /\ n \in 0..N /\ n \in Nat
        /\ \A i \in DOMAIN p : p[i] \notin gone /\ \E j \in 1..n - 1 : p[i] = readings[j]
    BY <1>1, <1>6
  <2>2. CASE readings[n] \in gone
    <3>1. f[n] = p
      BY <1>4, <2>2
    <3>2. 1..n - 1 \subseteq 1..n
      OBVIOUS
    <3> HIDE DEF p
    <3> QED BY <2>1, <3>1, <3>2
  <2>3. CASE readings[n] \notin gone
    <3> DEFINE q == Append(p, readings[n])
    <3>1. f[n] = q
      BY <1>4, <2>3
    <3> HIDE DEF p
    <3>2. /\ q \in Seq(S) /\ Len(p) \in Nat /\ DOMAIN p = 1..Len(p) /\ DOMAIN q = 1..Len(p) + 1
          /\ q[Len(p) + 1] = readings[n] /\ \A i \in 1..Len(p) : q[i] = p[i]
      BY <1>1, <2>1
    <3> HIDE DEF q
    <3>3. \A i \in DOMAIN q : q[i] \notin gone /\ \E j \in 1..n : q[i] = readings[j]
      <4> SUFFICES ASSUME NEW i \in DOMAIN q
                   PROVE  q[i] \notin gone /\ \E j \in 1..n : q[i] = readings[j]
        OBVIOUS
      <4>1. CASE i \in 1..Len(p)
        BY <2>1, <3>2, <4>1
      <4>2. CASE i = Len(p) + 1
        BY <2>1, <2>3, <3>2, <4>2
      <4> QED BY <3>2, <4>1, <4>2
    <3>4. \A i \in DOMAIN p : p[i] # readings[n]
      <4> SUFFICES ASSUME NEW i \in DOMAIN p PROVE p[i] # readings[n]
        OBVIOUS
      <4>1. PICK j \in 1..n - 1 : p[i] = readings[j]
        BY <2>1
      <4>2. j \in DOMAIN readings /\ n \in DOMAIN readings /\ j # n
        BY <1>1
      <4> QED BY <4>1, <4>2 DEF Distinct
    <3>5. Distinct(q)
      BY <2>1, <3>2, <3>4 DEF Distinct
    <3> QED BY <2>1, <3>1, <3>2, <3>3, <3>5
  <2> QED BY <2>2, <2>3
<1>7. N \in A
  <2> HIDE DEF A, N
  <2> QED BY <1>1, <1>5, <1>6, EveryPosition
<1> QED BY <1>1, <1>3, <1>7

-----------------------------------------------------------------------------
(* The names a peripheral read at source may go by.                           *)
NamesAt(source) == {None, Some(Configured), source}

(* What the cache of a peripheral holds was read at its source.               *)
Cached(cache) ==
  /\ {"source", "name", "charge"} \subseteq DOMAIN cache
  /\ cache.name \in NamesAt(cache.source)
  /\ cache.charge # None => /\ Some(cache.charge[1].of) = cache.source
                            /\ cache.charge = Some(cache.charge[1])

(* A peripheral on display is the cached one, read where it is read now.      *)
MouseAgrees ==
  powerShown.mouse # None =>
    /\ Mouse # None /\ power.mouse.source = Mouse
    /\ powerShown.mouse[1].name \in NamesAt(Mouse)
    /\ power.mouse.charge = Some(powerShown.mouse[1].charge)
    /\ Some(powerShown.mouse[1].charge.of) = Mouse

(* A battery on display is one of the machine, with the charge that is kept.*)
ShownAgree ==
  /\ powerShown.sys \in Seq(Battery) /\ Distinct(powerShown.sys)
  /\ \A i \in DOMAIN powerShown.sys :
       /\ powerShown.sys[i] \in Batteries \cap DOMAIN power.sys
       /\ power.sys[powerShown.sys[i]] # None

(* The inductive invariant of the batteries.                                *)
PowerInv ==
  /\ power = [sys |-> power.sys, mouse |-> power.mouse]
  /\ powerShown = [sys |-> powerShown.sys, mouse |-> powerShown.mouse]
  /\ power.sys = [b \in DOMAIN power.sys |-> power.sys[b]]
  /\ powerHw \in PowerHardware
  /\ Cached(power.mouse) /\ MouseAgrees /\ ShownAgree

(* An empty cache is of any source.                                         *)
LEMMA NewCacheCached == ASSUME NEW source
   PROVE Cached([NewPeripheralCache EXCEPT !.source = source])
BY DEF NewPeripheralCache, Cached, NamesAt

(* Before a run the cache is of the source in force.                          *)
LEMMA ReconcileMouse ==
  ASSUME PowerInv
  PROVE  Cached(ReconcilePower(power).mouse) /\ ReconcilePower(power).mouse.source = Mouse
<1>1. ReconcilePower(power).mouse = IF power.mouse.source = Mouse THEN power.mouse
                                    ELSE [NewPeripheralCache EXCEPT !.source = Mouse]
  BY DEF ReconcilePower
<1>2. [NewPeripheralCache EXCEPT !.source = Mouse].source = Mouse
  BY DEF NewPeripheralCache
<1> QED BY <1>1, <1>2, NewCacheCached DEF PowerInv

(* A read of the peripheral.                                                  *)
LEMMA AttemptCached ==
  ASSUME NEW cache, Cached(cache), cache.source = Mouse, Mouse # None,
         NEW answer \in {"charge", "nameless", "away", "failed"}, NEW new,
         new \in {AttemptUpower(cache, answer), AttemptBolt(cache, answer)},
         Mouse = Some(Mouse[1])
  PROVE  Cached(new) /\ new.source = Mouse
<1> DEFINE now == Charge(Mouse[1])
           names == NamesAt(Mouse)
           Made(name, charge) == [cache EXCEPT !.name = name, !.charge = charge]
<1>1. now # None /\ now[1].of = Mouse[1] /\ now = Some(now[1])
  BY DEF Charge, Some, None
<1>2. ASSUME NEW name \in names, NEW charge \in {None, now}
      PROVE  Cached(Made(name, charge)) /\ Made(name, charge).source = Mouse
  <2> HIDE DEF now, names
  <2> DEFINE m == Made(name, charge)
  <2>1. {"source", "name", "charge"} \subseteq DOMAIN m
    BY DEF Cached
  <2>2. m.source = Mouse /\ m.name = name /\ m.charge = charge
    BY DEF Cached
  <2>3. charge # None => Some(charge[1].of) = Mouse /\ charge = Some(charge[1])
    BY <1>1, <1>2
  <2> HIDE DEF m
  <2>4. Cached(m)
    BY <1>2, <2>1, <2>2, <2>3 DEF Cached, names
  <2> QED BY <2>2, <2>4 DEF m
<1>3. cache.name \in names /\ Mouse \in names /\ Some(Configured) \in names
  BY DEF Cached, NamesAt
<1>4. \/ new = cache
      \/ \E name \in names, charge \in {None, now} : new = Made(name, charge)
  <2>1. CASE new = AttemptUpower(cache, answer)
    <3>1. \A percent, model \in BOOLEAN :
            \E name \in names, charge \in {None, now} :
              RefreshPeriph(cache, percent, model) = Made(name, charge)
      <4> HIDE DEF names, now
      <4> QED BY <1>3 DEF RefreshPeriph, now
    <3> HIDE DEF Made
    <3> QED BY <2>1, <3>1 DEF AttemptUpower
  <2>2. CASE new = AttemptBolt(cache, answer)
    <3>1. CASE answer = "failed"
      BY <2>2, <3>1 DEF AttemptBolt
    <3>2. CASE answer \in {"charge", "nameless"}
      <4>1. \E name \in names : new = [cache EXCEPT !.name = name, !.charge = now]
        BY <1>3, <2>2, <3>2 DEF AttemptBolt
      <4> QED BY <4>1
    <3>3. CASE answer = "away"
      <4>1. new = [cache EXCEPT !.charge = None]
        BY <2>2, <3>3 DEF AttemptBolt
      <4>2. [cache EXCEPT !.charge = None] = Made(cache.name, None)
        BY DEF Cached
      <4> QED BY <1>3, <4>1, <4>2
    <3> QED BY <3>1, <3>2, <3>3
  <2> QED BY <2>1, <2>2
<1> HIDE DEF Made, names, now
<1> QED BY <1>2, <1>4

(* What a read of a peripheral leaves is of that peripheral.                *)
LEMMA RunPeripheralKeeps ==
  ASSUME PowerInv, NEW answer \in {"charge", "nameless", "away", "failed"},
     RunPeripheralBattery(answer)
  PROVE  PowerInv'
<1> DEFINE before == ReconcilePower(power)
           new == power'.mouse
<1>1. /\ Mouse # None /\ UNCHANGED <<powerHw, powerCfg, powerWanted>> /\ Mouse' = Mouse
      /\ Batteries' = Batteries
  BY DEF RunPeripheralBattery, PowerAround, Mouse, Batteries
<1>2. before = [sys |-> before.sys, mouse |-> before.mouse]
      /\ before.sys = [b \in DOMAIN power.sys \cap Batteries |-> power.sys[b]]
  BY DEF ReconcilePower
<1>3. Cached(before.mouse) /\ before.mouse.source = Mouse
  BY ReconcileMouse
<1>4. /\ power' = [sys |-> before.sys, mouse |-> new]
      /\ new \in {AttemptUpower(before.mouse, answer), AttemptBolt(before.mouse, answer)}
  <2> HIDE DEF before
  <2>1. power' = [before EXCEPT !.mouse = IF Mouse[1].by = "upower"
                                           THEN AttemptUpower(before.mouse, answer)
                                           ELSE AttemptBolt(before.mouse, answer)]
    BY DEF RunPeripheralBattery, before
  <2> QED BY <1>2, <2>1
<1>5. Mouse = Some(Mouse[1])
  BY <1>1, SomeIsNotNone DEF Mouse, MouseSource, ResolvePeripheralSource
<1>6. powerShown' = [powerShown EXCEPT !.mouse = PeripheralReading(new)]
  BY DEF RunPeripheralBattery
<1> HIDE DEF before, new
<1>7. Cached(new) /\ new.source = Mouse
  BY <1>1, <1>3, <1>4, <1>5, AttemptCached
<1>8. /\ powerShown' = [sys |-> powerShown.sys, mouse |-> PeripheralReading(new)]
      /\ power'.mouse = new /\ power'.sys = before.sys
  BY <1>4, <1>6 DEF PowerInv
<1>9. MouseAgrees'
  <2>1. PeripheralReading(new) # None =>
          /\ new.charge # None
          /\ PeripheralReading(new)[1].name \in {Some(Configured), new.name}
          /\ PeripheralReading(new)[1].charge = new.charge[1]
    BY SomeIsNotNone DEF PeripheralReading
  <2>2. PeripheralReading(new) # None =>
          /\ PeripheralReading(new)[1].name \in NamesAt(Mouse)
          /\ new.charge = Some(PeripheralReading(new)[1].charge)
          /\ Some(PeripheralReading(new)[1].charge.of) = Mouse
    BY <1>7, <2>1 DEF Cached, NamesAt
  <2> QED BY <1>1, <1>7, <1>8, <2>2 DEF MouseAgrees, NamesAt
<1>10. ShownAgree'
  BY <1>1, <1>2, <1>8 DEF PowerInv, ShownAgree, Distinct
<1> QED BY <1>1, <1>2, <1>4, <1>7, <1>8, <1>9, <1>10 DEF PowerInv

(* A battery is read, and its reading moves to the end.                       *)
LEMMA RunBatteryKeeps ==
  ASSUME PowerInv, NEW id \in Battery, NEW sysfs \in BOOLEAN, NEW upower \in BOOLEAN,
         RunSystemBattery(id, sysfs, upower)
  PROVE  PowerInv'
<1> DEFINE before == ReconcilePower(power)
           old == IF id \in DOMAIN before.sys THEN before.sys[id] ELSE None
           sampled == IF sysfs \/ upower THEN Some(powerNow) ELSE old
           others == Retain(powerShown.sys, {id})
           shown == BatteryReplaced(powerShown.sys, id, sampled # None)
<1>1. /\ id \in Batteries /\ UNCHANGED <<powerHw, powerCfg, powerWanted>> /\ Mouse' = Mouse
      /\ Batteries' = Batteries
  BY DEF RunSystemBattery, PowerAround, Mouse, Batteries
<1>2. before = [sys |-> before.sys, mouse |-> before.mouse]
      /\ before.sys = [b \in DOMAIN power.sys \cap Batteries |-> power.sys[b]]
  BY DEF ReconcilePower
<1>3. Cached(before.mouse) /\ before.mouse.source = Mouse
  BY ReconcileMouse
<1> HIDE DEF before
<1>4. /\ power' = [sys |-> [b \in DOMAIN before.sys \cup {id} |->
                            IF b = id THEN sampled ELSE before.sys[b]],
                   mouse |-> before.mouse]
      /\ powerShown' = [sys |-> shown, mouse |-> powerShown.mouse]
  <2>1. /\ power' = [before EXCEPT !.sys = [b \in DOMAIN before.sys \cup {id} |->
                                              IF b = id THEN sampled ELSE before.sys[b]]]
        /\ powerShown' = [powerShown EXCEPT !.sys = shown]
    BY DEF RunSystemBattery, before
  <2> HIDE DEF sampled, shown
  <2> QED BY <1>2, <2>1 DEF PowerInv
<1>5. shown = IF sampled # None THEN Append(others, id) ELSE others
  BY DEF BatteryReplaced
<1>6. /\ others \in Seq(Battery) /\ Distinct(others)
      /\ \A i \in DOMAIN others :
           others[i] # id /\ \E j \in DOMAIN powerShown.sys : others[i] = powerShown.sys[j]
  <2>1. powerShown.sys \in Seq(Battery) /\ Distinct(powerShown.sys)
    BY DEF PowerInv, ShownAgree
  <2> DEFINE gone == {id}
             kept == Retain(powerShown.sys, gone)
  <2> HIDE DEF gone
  <2>2. /\ kept \in Seq(Battery) /\ Distinct(kept)
        /\ \A i \in DOMAIN kept :
             kept[i] \notin gone /\ \E j \in DOMAIN powerShown.sys : kept[i] = powerShown.sys[j]
    BY <2>1, RetainKeeps
  <2> HIDE DEF kept
  <2>3. others = kept
    BY DEF gone, kept
  <2> HIDE DEF others
  <2> QED BY <2>2, <2>3 DEF gone
<1> HIDE DEF sampled, shown, others
<1>7. /\ shown \in Seq(Battery) /\ Distinct(shown)
      /\ \A i \in DOMAIN shown :
           \/ shown[i] = id /\ sampled # None
           \/ shown[i] # id /\ \E j \in DOMAIN powerShown.sys : shown[i] = powerShown.sys[j]
  <2>1. CASE sampled = None
    BY <1>5, <1>6, <2>1
  <2>2. CASE sampled # None
    <3>1. /\ shown \in Seq(Battery) /\ Len(others) \in Nat /\ DOMAIN others = 1..Len(others)
          /\ DOMAIN shown = 1..Len(others) + 1 /\ shown[Len(others) + 1] = id
          /\ \A i \in 1..Len(others) : shown[i] = others[i]
      BY <1>5, <1>6, <2>2
    <3>2. Distinct(shown)
      BY <1>6, <3>1 DEF Distinct
    <3>3. \A i \in DOMAIN shown : i = Len(others) + 1 \/ i \in DOMAIN others
      BY <3>1
    <3> QED BY <1>6, <2>2, <3>1, <3>2, <3>3
  <2> QED BY <2>1, <2>2
<1>8. /\ power'.mouse = before.mouse /\ powerShown'.mouse = powerShown.mouse
      /\ powerShown'.sys = shown /\ DOMAIN power'.sys = DOMAIN before.sys \cup {id}
      /\ power'.sys[id] = sampled
      /\ \A b \in DOMAIN power.sys \cap Batteries :
           b # id => b \in DOMAIN power'.sys /\ power'.sys[b] = power.sys[b]
  BY <1>2, <1>4
<1>9. ShownAgree'
  <2>1. \A i \in DOMAIN shown : /\ shown[i] \in Batteries \cap DOMAIN power'.sys
                                /\ power'.sys[shown[i]] # None
    BY <1>1, <1>7, <1>8 DEF PowerInv, ShownAgree
  <2> QED BY <1>1, <1>7, <1>8, <2>1 DEF ShownAgree, Distinct
<1>10. MouseAgrees'
  <2>1. before.mouse = power.mouse \/ power.mouse.source # Mouse
    BY DEF ReconcilePower, before
  <2> QED BY <1>1, <1>8, <2>1 DEF PowerInv, MouseAgrees, NamesAt
<1>11. /\ power' = [sys |-> power'.sys, mouse |-> power'.mouse]
       /\ powerShown' = [sys |-> powerShown'.sys, mouse |-> powerShown'.mouse]
       /\ power'.sys = [b \in DOMAIN power'.sys |-> power'.sys[b]]
  BY <1>4
<1> QED BY <1>1, <1>3, <1>8, <1>9, <1>10, <1>11 DEF PowerInv

(* A battery that leaves and a source that is replaced take what is shown of  *)
(* them along.                                                                *)
LEMMA PowerRejobKeeps ==
  ASSUME PowerInv, NEW hw \in PowerHardware, NEW cfg, NEW wanted, PowerRejob(hw, cfg, wanted)
  PROVE  PowerInv'
<1> DEFINE gone == Batteries \ SystemBatteries(hw, wanted)
           moved == Mouse # None /\ MouseSource(cfg, hw, wanted) # Mouse
           shown == Retain(powerShown.sys, gone)
<1>1. /\ power' = [sys |-> [b \in DOMAIN power.sys \ gone |-> power.sys[b]],
                   mouse |-> IF moved THEN NewPeripheralCache ELSE power.mouse]
      /\ powerShown' = [sys |-> shown, mouse |-> IF moved THEN None ELSE powerShown.mouse]
      /\ powerHw' = hw
      /\ Mouse' = MouseSource(cfg, hw, wanted) /\ Batteries' = SystemBatteries(hw, wanted)
  BY DEF PowerRejob, InvalidateBatteries, Mouse, Batteries
<1>2. /\ shown \in Seq(Battery) /\ Distinct(shown)
      /\ \A i \in DOMAIN shown :
           shown[i] \notin gone /\ \E j \in DOMAIN powerShown.sys : shown[i] = powerShown.sys[j]
  <2>1. powerShown.sys \in Seq(Battery) /\ Distinct(powerShown.sys)
    BY DEF PowerInv, ShownAgree
  <2> HIDE DEF gone
  <2> QED BY <2>1, RetainKeeps
<1>3. /\ powerShown'.sys = shown /\ DOMAIN power'.sys = DOMAIN power.sys \ gone
      /\ \A b \in DOMAIN power.sys \ gone : power'.sys[b] = power.sys[b]
  <2> HIDE DEF gone, shown
  <2> QED BY <1>1
<1>4. ShownAgree'
  <2>1. \A i \in DOMAIN shown :
          /\ shown[i] \in Batteries \cap DOMAIN power.sys /\ power.sys[shown[i]] # None
          /\ shown[i] \notin gone
    <3> HIDE DEF gone, shown
    <3> QED BY <1>2 DEF PowerInv, ShownAgree
  <2>2. \A i \in DOMAIN shown : shown[i] \in Batteries'
    BY <1>1, <2>1
  <2> HIDE DEF gone, shown
  <2>3. \A i \in DOMAIN shown : shown[i] \in DOMAIN power'.sys /\ power'.sys[shown[i]] # None
    BY <1>3, <2>1
  <2> QED BY <1>2, <1>3, <2>2, <2>3 DEF ShownAgree, Distinct
<1>5. MouseAgrees'
  <2>1. CASE moved
    BY <1>1, <2>1 DEF MouseAgrees
  <2>2. CASE ~moved
    <3>1. power'.mouse = power.mouse /\ powerShown'.mouse = powerShown.mouse
      BY <1>1, <2>2
    <3>2. Mouse # None => Mouse' = Mouse
      BY <1>1, <2>2
    <3> HIDE DEF moved
    <3> QED BY <3>1, <3>2 DEF PowerInv, MouseAgrees, NamesAt
  <2> QED BY <2>1, <2>2
<1>6. Cached(power'.mouse)
  <2>1. Cached(NewPeripheralCache)
    BY DEF NewPeripheralCache, Cached, NamesAt
  <2>2. power'.mouse \in {NewPeripheralCache, power.mouse}
    BY <1>1
  <2> QED BY <2>1, <2>2 DEF PowerInv
<1>7. /\ power' = [sys |-> power'.sys, mouse |-> power'.mouse]
      /\ powerShown' = [sys |-> powerShown'.sys, mouse |-> powerShown'.mouse]
      /\ power'.sys = [b \in DOMAIN power'.sys |-> power'.sys[b]]
  BY <1>1
<1> QED BY <1>1, <1>4, <1>5, <1>6, <1>7 DEF PowerInv

(* Every charge shown was read of its battery.                              *)
LEMMA BatteriesAreRead == PowerSpec => []BatteriesAgree
<1>1. PowerInit => PowerInv
  <2> SUFFICES ASSUME PowerInit PROVE PowerInv
    OBVIOUS
  <2>1. Cached(NewPeripheralCache)
    BY DEF NewPeripheralCache, Cached, NamesAt
  <2> QED BY <2>1 DEF PowerInit, PowerInv, MouseAgrees, ShownAgree, Distinct
<1>2. PowerInv /\ [PowerNext]_powerVars => PowerInv'
  <2> SUFFICES ASSUME PowerInv, [PowerNext]_powerVars PROVE PowerInv'
    OBVIOUS
  <2>1. ASSUME NEW hw \in PowerHardware, PowerDiscovered(hw) PROVE PowerInv'
    BY <2>1, PowerRejobKeeps DEF PowerDiscovered
  <2>2. ASSUME NEW cfg \in PowerConfigs, PowerReloaded(cfg) PROVE PowerInv'
    BY <2>2, PowerRejobKeeps DEF PowerReloaded, PowerInv
  <2>3. ASSUME NEW wanted, PowerDemand(wanted) PROVE PowerInv'
    BY <2>3, PowerRejobKeeps DEF PowerDemand, PowerInv
  <2>4. CASE UNCHANGED powerVars \/ PowerTime
    BY <2>4 DEF powerVars, PowerTime, PowerInv, MouseAgrees, ShownAgree, Mouse, Batteries
  <2> QED BY <2>1, <2>2, <2>3, <2>4, RunBatteryKeeps, RunPeripheralKeeps DEF PowerNext
<1>3. PowerInv => BatteriesAgree
  BY DEF PowerInv, MouseAgrees, ShownAgree, Distinct, BatteriesAgree, NamesAt
<1> QED BY <1>1, <1>2, <1>3, PTL DEF PowerSpec

-----------------------------------------------------------------------------
(* A battery behind a Bolt receiver.                                          *)

(* What a report may carry.                                                 *)
Payload == Nat \cup Level \cup Device

(* The reports of the receiver.                                             *)
Reports == [device : Device, feature : Payload, payload : Payload]

(* The steps of a query.                                                    *)
Phases == {"closed", "name_index", "name", "battery_index", "level"}

(* The types of a query.                                                    *)
BoltShape ==
  /\ boltDevice \in [features : Features, level : Level]
  /\ boltQuery \in [phase : Phases, want : BOOLEAN, index : Payload, name : Payload, reads : Nat]
  /\ boltFile \in Seq(Reports)
  /\ boltAsked = <<>> \/ \E r \in Reports : boltAsked = <<r>>
  /\ boltQuery.phase # "closed" => boltDevice.level \in boltSeen

(* A report of the device's own battery or name says so.                      *)
Truthful(r) ==
  r.device = Asked /\ r.feature # ROOT_FEATURE =>
    /\ r.feature = boltDevice.features.battery => r.payload \in boltSeen
    /\ r.feature = boltDevice.features.name => r.payload = Asked

(* The device says where a feature is.                                        *)
IndexReply(r) == r.device = Asked /\ r.feature = ROOT_FEATURE

(* It is the feature the query asks for.                                      *)
AnswersIndex(r) ==
  \/ boltQuery.phase = "name_index" /\ r.payload = boltDevice.features.name
  \/ boltQuery.phase = "battery_index" /\ r.payload = boltDevice.features.battery

(* A report of the device asked can be believed.                            *)
Reliable(r) == Truthful(r) /\ (IndexReply(r) => AnswersIndex(r))

(* An open query knows the index it uses, and only one index is on its way.   *)
Dialogue ==
  /\ boltQuery.phase = "name" =>
       boltQuery.index = boltDevice.features.name /\ boltQuery.index # 0
  /\ boltQuery.phase = "level" =>
       boltQuery.index = boltDevice.features.battery /\ boltQuery.index # 0
  /\ boltQuery.name \in {NoName, Asked}
  /\ \A i \in DOMAIN boltFile : Reliable(boltFile[i])
  /\ \A i, j \in DOMAIN boltFile : IndexReply(boltFile[i]) /\ IndexReply(boltFile[j]) => i = j
  /\ boltAsked # <<>> =>
       /\ Reliable(boltAsked[1])
       /\ IndexReply(boltAsked[1]) => \A i \in DOMAIN boltFile : ~IndexReply(boltFile[i])

(* The inductive invariant of a query.                                      *)
BoltInv ==
  /\ BoltShape /\ BoltAnswersHold
  /\ ~boltMixed /\ boltQuery.phase # "closed" => Dialogue

(* The next request is written, and no index is on its way yet.               *)
LEMMA TransferKeeps ==
  ASSUME BoltAssumption, NEW q, Transfer(q), UNCHANGED boltDevice,
         boltDevice \in [features : Features, level : Level], boltDevice.level \in boltSeen',
         q \in [phase : Phases \ {"closed"}, want : BOOLEAN, index : Payload, name : Payload,
                reads : Nat],
         boltFile' \in Seq(Reports),
         ~boltMixed' =>
           /\ q.phase = "name" => q.index = boltDevice.features.name /\ q.index # 0
           /\ q.phase = "level" => q.index = boltDevice.features.battery /\ q.index # 0
           /\ q.name \in {NoName, Asked}
           /\ \A i \in DOMAIN boltFile' : Truthful(boltFile[i])' /\ ~IndexReply(boltFile'[i])
  PROVE  BoltInv'
<1> DEFINE r == ReplyTo(q)
           d == boltDevice.features
<1>1. /\ boltQuery' = [q EXCEPT !.reads = MAX_READS] /\ boltAsked' = <<r>>
      /\ boltAnswer' = [kind |-> "none"]
  BY DEF Transfer, Unanswered
<1>2. /\ boltQuery' \in [phase : Phases, want : BOOLEAN, index : Payload, name : Payload,
         reads : Nat]
      /\ boltQuery'.phase = q.phase /\ boltQuery'.index = q.index /\ boltQuery'.name = q.name
      /\ q.phase \in {"name_index", "name", "battery_index", "level"}
  BY <1>1 DEF BoltAssumption, Phases
<1>3. d.name \in Nat /\ d.battery \in Nat /\ (d.name # 0 => d.name # d.battery)
  BY DEF BoltAssumption
<1>4. /\ r.device = Asked /\ r \in Reports
      /\ r.feature = IF q.phase \in {"name_index", "battery_index"} THEN 0 ELSE q.index
      /\ q.phase = "name_index" => r.payload = d.name
      /\ q.phase = "battery_index" => r.payload = d.battery
      /\ q.phase = "name" => r.payload = Asked
      /\ q.phase = "level" => r.payload = boltDevice.level
  BY <1>2, <1>3 DEF ReplyTo, Report, ExpectedFeature, ROOT_FEATURE, Reports, Payload,
     BoltAssumption
<1> HIDE DEF r
<1>5. BoltShape'
  BY <1>1, <1>2, <1>4 DEF BoltShape
<1>6. BoltAnswersHold'
  BY <1>1 DEF BoltAnswersHold
<1>7. ASSUME ~boltMixed' PROVE Dialogue'
  <2>1. Reliable(boltAsked[1])'
    BY <1>1, <1>2, <1>3, <1>4, <1>7 DEF Reliable, Truthful, IndexReply, AnswersIndex, ROOT_FEATURE
  <2>2. \A i \in DOMAIN boltFile' : Reliable(boltFile[i])'
    BY <1>7 DEF Reliable, IndexReply
  <2>3. \A i \in DOMAIN boltFile' : ~IndexReply(boltFile[i])'
    BY <1>7 DEF IndexReply
  <2> QED BY <1>1, <1>2, <1>7, <2>1, <2>2, <2>3 DEF Dialogue
<1> QED BY <1>5, <1>6, <1>7 DEF BoltInv

(* The query ends.                                                            *)
LEMMA ReturnsKeeps ==
  ASSUME BoltShape, NEW answer, BoltReturns(answer), UNCHANGED boltDevice,
         boltFile' \in Seq(Reports),
         BoltAnswersHold'
  PROVE  BoltInv'
<1>1. /\ boltQuery' \in [phase : Phases, want : BOOLEAN, index : Payload, name : Payload,
         reads : Nat]
      /\ boltQuery'.phase = "closed" /\ boltAsked' = <<>>
  BY DEF BoltReturns, Closed, Phases, NoName, Payload
<1> QED BY <1>1 DEF BoltInv, BoltShape

(* A query starts with an empty file.                                       *)
LEMMA QueryInnerKeeps ==
  ASSUME BoltAssumption, BoltInv, NEW want \in BOOLEAN, NEW opened \in BOOLEAN, QueryInner(want,
     opened)
  PROVE  BoltInv'
<1> DEFINE q == [Closed EXCEPT !.phase = IF want THEN "name_index" ELSE "battery_index", !.want = want]
<1>1. /\ boltFile' = <<>> /\ boltSeen' = {boltDevice.level} /\ UNCHANGED boltDevice
      /\ boltFile' \in Seq(Reports)
  BY DEF QueryInner
<1>2. CASE opened
  <2>1. Transfer(q)
    BY <1>2 DEF QueryInner
  <2>2. /\ q \in [phase : Phases \ {"closed"}, want : BOOLEAN, index : Payload, name : Payload,
           reads : Nat]
        /\ q.phase \in {"name_index", "battery_index"} /\ q.name = NoName
    BY DEF Closed, Phases, Payload, NoName
  <2> HIDE DEF q
  <2> QED BY <1>1, <2>1, <2>2, TransferKeeps DEF BoltInv, BoltShape
<1>3. CASE ~opened
  <2>1. BoltReturns(HidFailed)
    BY <1>3 DEF QueryInner
  <2>2. BoltAnswersHold'
    BY <2>1 DEF BoltReturns, HidFailed, BoltAnswersHold
  <2> QED BY <1>1, <2>1, <2>2, ReturnsKeeps DEF BoltInv
<1> QED BY <1>2, <1>3

(* One report is read.                                                        *)
LEMMA RestOfFile ==
  ASSUME NEW S, NEW q \in Seq(S), q # <<>>
  PROVE  /\ Head(q) \in S /\ 1 \in DOMAIN q /\ Head(q) = q[1] /\ Tail(q) \in Seq(S)
         /\ \A i \in DOMAIN Tail(q) : i + 1 \in DOMAIN q /\ Tail(q)[i] = q[i + 1] /\ i + 1 # 1
OBVIOUS

(* A report that is taken for an answer is one.                             *)
LEMMA ReadReportKeeps ==
  ASSUME BoltAssumption, BoltInv, ReadReport
  PROVE  BoltInv'
<1> DEFINE r == Head(boltFile)
           d == boltDevice.features
           unmixed == ~boltMixed
<1>1. /\ boltQuery.phase # "closed" /\ boltFile # <<>> /\ boltFile' = Tail(boltFile)
      /\ UNCHANGED <<boltDevice, boltSeen, boltMixed>>
      /\ IF Matches(r, boltQuery) THEN QueryDevice(boltQuery, r.payload)
         ELSE IF boltQuery.reads > 1
         THEN boltQuery' = [boltQuery EXCEPT !.reads = @ - 1] /\ UNCHANGED <<boltAsked,
                                                                 boltAnswer>>
         ELSE BoltReturns(HidFailed)
  BY DEF ReadReport
<1>2. /\ r \in Reports /\ 1 \in DOMAIN boltFile /\ r = boltFile[1] /\ boltFile' \in Seq(Reports)
      /\ \A i \in DOMAIN boltFile' :
           i + 1 \in DOMAIN boltFile /\ boltFile'[i] = boltFile[i + 1] /\ i + 1 # 1
  BY <1>1, RestOfFile DEF BoltInv, BoltShape
<1> HIDE DEF r
<1>3. /\ boltQuery \in [phase : Phases, want : BOOLEAN, index : Payload, name : Payload,
         reads : Nat]
      /\ boltDevice \in [features : Features, level : Level] /\ boltDevice.level \in boltSeen'
      /\ d.name \in Nat /\ d.battery \in Nat /\ r.payload \in Payload
      /\ unmixed => Dialogue
  BY <1>1, <1>2 DEF BoltInv, BoltShape, BoltAssumption, Reports
<1>4. ASSUME unmixed
      PROVE  /\ Reliable(r)
             /\ \A i \in DOMAIN boltFile' : Reliable(boltFile'[i]) /\ Truthful(boltFile[i])'
  BY <1>1, <1>2, <1>3, <1>4 DEF Dialogue, Reliable, Truthful
<1>5. ASSUME unmixed, Matches(r, boltQuery)
      PROVE  \A i \in DOMAIN boltFile' : ~IndexReply(boltFile'[i])
  <2>1. \A i \in DOMAIN boltFile' : IndexReply(boltFile'[i]) => boltQuery.phase \in {"name_index", "battery_index"}
    BY <1>4, <1>5 DEF Reliable, AnswersIndex
  <2>2. boltQuery.phase \in {"name_index", "battery_index"} => IndexReply(r)
    BY <1>5 DEF Matches, ExpectedFeature, IndexReply
  <2>3. \A i \in DOMAIN boltFile' : ~(IndexReply(r) /\ IndexReply(boltFile'[i]))
    BY <1>2, <1>3, <1>5 DEF Dialogue
  <2> QED BY <2>1, <2>2, <2>3
<1>6. CASE Matches(r, boltQuery)
  <2>1. QueryDevice(boltQuery, r.payload) /\ r.device = Asked
                                             /\ r.feature = ExpectedFeature(boltQuery)
    BY <1>1, <1>6 DEF Matches
  <2>2. CASE boltQuery.phase = "name_index"
    <3> DEFINE q == [boltQuery EXCEPT !.phase = IF r.payload = 0 THEN "battery_index" ELSE "name",
                                      !.index = r.payload]
    <3>1. Transfer(q)
      BY <2>1, <2>2 DEF QueryDevice
    <3>2. unmixed => r.payload = d.name
      BY <1>4, <2>1, <2>2 DEF Reliable, IndexReply, AnswersIndex, ExpectedFeature
    <3>3. /\ q \in [phase : Phases \ {"closed"}, want : BOOLEAN, index : Payload,
             name : Payload, reads : Nat]
          /\ q.phase = "name" => q.index = r.payload /\ r.payload # 0
          /\ q.phase # "level" /\ q.name = boltQuery.name
      BY <1>3 DEF Phases
    <3> HIDE DEF q
    <3> QED BY <1>1, <1>2, <1>3, <1>4, <1>5, <1>6, <3>1, <3>2, <3>3, TransferKeeps DEF Dialogue
  <2>3. CASE boltQuery.phase = "name"
    <3> DEFINE q == [boltQuery EXCEPT !.phase = "battery_index", !.name = r.payload]
    <3>1. Transfer(q)
      BY <2>1, <2>3 DEF QueryDevice
    <3>2. unmixed => r.payload = Asked
      BY <1>3, <1>4, <2>1, <2>3 DEF Reliable, Truthful, Dialogue, ExpectedFeature, ROOT_FEATURE
    <3>3. /\ q \in [phase : Phases \ {"closed"}, want : BOOLEAN, index : Payload,
             name : Payload, reads : Nat]
          /\ q.phase = "battery_index" /\ q.name = r.payload
      BY <1>3 DEF Phases
    <3> HIDE DEF q
    <3> QED BY <1>1, <1>2, <1>3, <1>4, <1>5, <1>6, <3>1, <3>2, <3>3, TransferKeeps
  <2>4. CASE boltQuery.phase = "battery_index"
    <3>1. unmixed => r.payload = d.battery
      BY <1>4, <2>1, <2>4 DEF Reliable, IndexReply, AnswersIndex, ExpectedFeature
    <3>2. CASE r.payload = 0
      <4>1. BoltReturns([kind |-> "unsupported"])
        BY <2>1, <2>4, <3>2 DEF QueryDevice
      <4>2. BoltAnswersHold'
        BY <1>1, <3>1, <3>2, <4>1 DEF BoltReturns, BoltAnswersHold
      <4> QED BY <1>1, <1>2, <4>1, <4>2, ReturnsKeeps DEF BoltInv
    <3>3. CASE r.payload # 0
      <4> DEFINE q == [boltQuery EXCEPT !.phase = "level", !.index = r.payload]
      <4>1. Transfer(q)
        BY <2>1, <2>4, <3>3 DEF QueryDevice
      <4>2. /\ q \in [phase : Phases \ {"closed"}, want : BOOLEAN, index : Payload,
               name : Payload, reads : Nat]
            /\ q.phase = "level" /\ q.index = r.payload /\ q.name = boltQuery.name
        BY <1>3 DEF Phases
      <4> HIDE DEF q
      <4> QED BY <1>1, <1>2, <1>3, <1>4, <1>5, <1>6, <3>1, <3>3, <4>1, <4>2, TransferKeeps
         DEF Dialogue
    <3> QED BY <3>2, <3>3
  <2>5. CASE boltQuery.phase = "level"
    <3> DEFINE answer == [kind |-> "captured", name |-> boltQuery.name, level |-> r.payload]
    <3>1. BoltReturns(answer)
      BY <2>1, <2>5 DEF QueryDevice
    <3>2. unmixed => r.payload \in boltSeen /\ d.battery # 0 /\ boltQuery.name \in {NoName, Asked}
      BY <1>3, <1>4, <2>1, <2>5 DEF Reliable, Truthful, Dialogue, ExpectedFeature, ROOT_FEATURE
    <3>3. BoltAnswersHold'
      BY <1>1, <3>1, <3>2 DEF BoltReturns, BoltAnswersHold
    <3> HIDE DEF answer
    <3> QED BY <1>1, <1>2, <3>1, <3>3, ReturnsKeeps DEF BoltInv
  <2> QED BY <1>1, <1>3, <2>2, <2>3, <2>4, <2>5 DEF Phases
<1>7. CASE ~Matches(r, boltQuery) /\ boltQuery.reads > 1
  <2>1. boltQuery' = [boltQuery EXCEPT !.reads = boltQuery.reads - 1] /\ UNCHANGED <<boltAsked,
                                                                         boltAnswer>>
    BY <1>1, <1>7
  <2>2. /\ boltQuery' \in [phase : Phases, want : BOOLEAN, index : Payload, name : Payload,
           reads : Nat]
        /\ boltQuery'.phase = boltQuery.phase /\ boltQuery'.index = boltQuery.index
        /\ boltQuery'.name = boltQuery.name
    BY <1>3, <1>7, <2>1
  <2>3. BoltShape'
    BY <1>1, <1>2, <2>1, <2>2 DEF BoltInv, BoltShape
  <2>4. BoltAnswersHold'
    BY <1>1, <2>1 DEF BoltInv, BoltAnswersHold
  <2>5. ASSUME unmixed PROVE Dialogue'
    <3>1. \A x : Reliable(x) => Reliable(x)'
      BY <1>1, <2>2 DEF Reliable, Truthful, IndexReply, AnswersIndex
    <3>2. \A i, j \in DOMAIN boltFile' : IndexReply(boltFile'[i])
             /\ IndexReply(boltFile'[j]) => i = j
      <4>1. SUFFICES ASSUME NEW i \in DOMAIN boltFile', NEW j \in DOMAIN boltFile',
                            IndexReply(boltFile'[i]), IndexReply(boltFile'[j])
                     PROVE  i = j
        OBVIOUS
      <4>2. i \in Nat /\ j \in Nat
        BY <1>2
      <4>3. i + 1 = j + 1
        BY <1>2, <1>3, <2>5, <4>1 DEF Dialogue
      <4> QED BY <4>2, <4>3
    <3>3. boltAsked # <<>> =>
            /\ Reliable(boltAsked[1])
            /\ IndexReply(boltAsked[1]) => \A i \in DOMAIN boltFile' : ~IndexReply(boltFile'[i])
      BY <1>2, <1>3, <2>5 DEF Dialogue
    <3>4. \A i \in DOMAIN boltFile' : Reliable(boltFile[i])'
      BY <1>2, <1>4, <2>5, <3>1
    <3>5. boltAsked' = boltAsked /\ (boltAsked # <<>> => Reliable(boltAsked[1])')
      BY <2>1, <3>1, <3>3
    <3>6. /\ boltQuery'.phase = "name" => boltQuery'.index = d.name /\ boltQuery'.index # 0
          /\ boltQuery'.phase = "level" => boltQuery'.index = d.battery /\ boltQuery'.index # 0
          /\ boltQuery'.name \in {NoName, Asked}
      BY <1>3, <2>2, <2>5 DEF Dialogue
    <3> QED BY <1>1, <3>2, <3>3, <3>4, <3>5, <3>6 DEF Dialogue, IndexReply
  <2> QED BY <1>1, <2>3, <2>4, <2>5 DEF BoltInv
<1>8. CASE ~Matches(r, boltQuery) /\ ~(boltQuery.reads > 1)
  <2>1. BoltReturns(HidFailed)
    BY <1>1, <1>8
  <2>2. BoltAnswersHold'
    BY <2>1 DEF BoltReturns, HidFailed, BoltAnswersHold
  <2> QED BY <1>1, <1>2, <2>1, <2>2, ReturnsKeeps DEF BoltInv
<1> QED BY <1>6, <1>7, <1>8

(* The device answers the request it got.                                   *)
LEMMA DeviceRepliesKeeps ==
  ASSUME BoltAssumption, BoltInv, DeviceReplies
  PROVE  BoltInv'
<1>1. PICK r \in Reports : boltAsked = <<r>>
  BY DEF DeviceReplies, BoltInv, BoltShape
<1>2. /\ boltFile' = Append(boltFile, r) /\ boltAsked' = <<>>
      /\ UNCHANGED <<boltDevice, boltQuery, boltAnswer, boltSeen, boltMixed>>
  BY <1>1 DEF DeviceReplies
<1>3. /\ boltFile \in Seq(Reports) /\ boltFile' \in Seq(Reports)
      /\ \A i \in DOMAIN boltFile' :
           (i \in DOMAIN boltFile /\ boltFile'[i] = boltFile[i])
             \/ (i = Len(boltFile) + 1 /\ boltFile'[i] = r)
  BY <1>2 DEF BoltInv, BoltShape
<1>4. BoltShape' /\ BoltAnswersHold'
  BY <1>2, <1>3 DEF BoltInv, BoltShape, BoltAnswersHold
<1>5. ASSUME Dialogue PROVE Dialogue'
  <2>1. Reliable(r) /\ (IndexReply(r) => \A i \in DOMAIN boltFile : ~IndexReply(boltFile[i]))
    BY <1>1, <1>5 DEF Dialogue
  <2>2. \A i \in DOMAIN boltFile' : Reliable(boltFile'[i])
    BY <1>3, <1>5, <2>1 DEF Dialogue
  <2>3. \A i, j \in DOMAIN boltFile' : IndexReply(boltFile'[i])
           /\ IndexReply(boltFile'[j]) => i = j
    BY <1>3, <1>5, <2>1 DEF Dialogue
  <2>4. \A i \in DOMAIN boltFile' : Reliable(boltFile[i])'
    BY <1>2, <2>2 DEF Reliable, Truthful, IndexReply, AnswersIndex
  <2> QED BY <1>2, <1>5, <2>3, <2>4 DEF Dialogue, IndexReply
<1> QED BY <1>2, <1>4, <1>5 DEF BoltInv

(* What other devices report answers no request.                            *)
LEMMA OthersReportKeeps ==
  ASSUME BoltAssumption, BoltInv, NEW device \in Device, NEW feature \in FeatureIndex,
         NEW payload \in Level \cup {0}, OthersReport(device, feature, payload)
  PROVE  BoltInv'
<1> DEFINE r == Report(device, feature, payload)
<1>1. /\ boltQuery.phase # "closed" /\ boltFile' = Append(boltFile, r)
      /\ UNCHANGED <<boltDevice, boltQuery, boltAsked, boltAnswer, boltSeen>>
      /\ boltMixed' = (boltMixed \/ (device = Asked /\ feature = ROOT_FEATURE))
      /\ device = Asked /\ feature # ROOT_FEATURE =>
           IF feature = boltDevice.features.battery THEN payload = boltDevice.level
           ELSE feature # boltDevice.features.name
  BY DEF OthersReport
<1>2. r \in Reports /\ r.device = device /\ r.feature = feature /\ r.payload = payload
  BY DEF Report, Reports, Payload, FeatureIndex, ROOT_FEATURE, BoltAssumption
<1>3. /\ boltDevice \in [features : Features, level : Level] /\ boltDevice.level \in boltSeen
      /\ boltDevice.features.battery \in Nat /\ boltDevice.features.name \in Nat
      /\ boltDevice.features.name # 0 =>
           boltDevice.features.name # boltDevice.features.battery
  BY <1>1 DEF BoltInv, BoltShape, BoltAssumption
<1> HIDE DEF r
<1>4. /\ boltFile \in Seq(Reports) /\ boltFile' \in Seq(Reports)
      /\ \A i \in DOMAIN boltFile' :
           (i \in DOMAIN boltFile /\ boltFile'[i] = boltFile[i])
             \/ (i = Len(boltFile) + 1 /\ boltFile'[i] = r)
  BY <1>1, <1>2 DEF BoltInv, BoltShape
<1>5. BoltShape'
  BY <1>1, <1>3, <1>4 DEF BoltInv, BoltShape
<1>6. BoltAnswersHold'
  BY <1>1 DEF BoltInv, BoltAnswersHold
<1>7. ASSUME ~boltMixed' PROVE Dialogue'
  <2>1. Dialogue /\ ~IndexReply(r)
    BY <1>1, <1>2, <1>7 DEF BoltInv, IndexReply
  <2>2. Truthful(r)
    BY <1>1, <1>2, <1>3 DEF Truthful, ROOT_FEATURE
  <2>3. \A i \in DOMAIN boltFile' : Reliable(boltFile'[i])
    BY <1>4, <2>1, <2>2 DEF Dialogue, Reliable
  <2>4. \A i, j \in DOMAIN boltFile' : IndexReply(boltFile'[i])
           /\ IndexReply(boltFile'[j]) => i = j
    BY <1>4, <2>1 DEF Dialogue
  <2>5. \A x : Reliable(x) => Reliable(x)'
    BY <1>1 DEF Reliable, Truthful, IndexReply, AnswersIndex
  <2>6. \A i \in DOMAIN boltFile' : Reliable(boltFile[i])'
    BY <2>3, <2>5
  <2>7. boltAsked # <<>> =>
          /\ Reliable(boltAsked[1])'
          /\ IndexReply(boltAsked[1]) => \A i \in DOMAIN boltFile' : ~IndexReply(boltFile'[i])
    BY <1>1, <1>4, <2>1, <2>5 DEF Dialogue
  <2> QED BY <1>1, <2>1, <2>4, <2>6, <2>7 DEF Dialogue, IndexReply
<1> QED BY <1>5, <1>6, <1>7 DEF BoltInv

(* A level the battery had while the query was open is an answer to it.     *)
LEMMA BatteryDrainsKeeps ==
  ASSUME BoltInv, NEW level \in Level, BatteryDrains(level)
  PROVE  BoltInv'
<1>1. /\ boltDevice' = [boltDevice EXCEPT !.level = level] /\ boltSeen' = boltSeen \cup {level}
      /\ UNCHANGED <<boltQuery, boltFile, boltAsked, boltAnswer, boltMixed>>
  BY DEF BatteryDrains
<1>2. /\ boltDevice' \in [features : Features, level : Level]
      /\ boltDevice'.features = boltDevice.features /\ boltDevice'.level \in boltSeen'
  BY <1>1 DEF BoltInv, BoltShape
<1>3. BoltShape' /\ BoltAnswersHold'
  BY <1>1, <1>2 DEF BoltInv, BoltShape, BoltAnswersHold
<1>4. \A x : Reliable(x) => Reliable(x)'
  BY <1>1, <1>2 DEF Reliable, Truthful, IndexReply, AnswersIndex
<1>5. ASSUME Dialogue PROVE Dialogue'
  BY <1>1, <1>2, <1>4, <1>5 DEF Dialogue, IndexReply
<1> QED BY <1>1, <1>3, <1>5 DEF BoltInv

(* Whatever the receiver's devices report, a query tells the battery it asked *)
(* about.                                                                     *)
LEMMA BoltAnswersAreItsOwn == BoltSpec => []BoltAnswersHold
<1>1. BoltInit => BoltInv
  BY DEF BoltInit, BoltInv, BoltShape, BoltAnswersHold, Closed, Phases, Payload, NoName
<1>2. BoltInv /\ [BoltNext]_boltVars => BoltInv'
  <2> SUFFICES ASSUME BoltInv, [BoltNext]_boltVars PROVE BoltInv'
    OBVIOUS
  <2>1. CASE ReadFails
    <3>1. BoltReturns(HidFailed) /\ UNCHANGED <<boltDevice, boltFile>>
      BY <2>1 DEF ReadFails
    <3>2. BoltAnswersHold'
      BY <3>1 DEF BoltReturns, HidFailed, BoltAnswersHold
    <3> QED BY <3>1, <3>2, ReturnsKeeps DEF BoltInv, BoltShape
  <2>2. CASE UNCHANGED boltVars
    BY <2>2 DEF boltVars, BoltInv, BoltShape, BoltAnswersHold, Dialogue, Reliable, Truthful,
                IndexReply, AnswersIndex
  <2> QED BY <2>1, <2>2, BoltAssumption, QueryInnerKeeps, ReadReportKeeps, DeviceRepliesKeeps,
             OthersReportKeeps, BatteryDrainsKeeps DEF BoltNext
<1> QED BY <1>1, <1>2, PTL DEF BoltSpec, BoltInv

-----------------------------------------------------------------------------
(* The processes.                                                             *)

(* The shares of two scans, the first of them after the gap.                  *)
Shares ==
  {s \in [value : [scan : Nat, from : Nat], at : 0..procNow] :
     /\ s.value.scan = s.value.from /\ s.value.scan < s.at
     /\ s.at > procGap => s.value.scan >= procGap}

(* What is kept of one surface: its last scan, counted from that very scan,   *)
(* and only while it is in demand.                                            *)
Scanned(kind, prev, at) ==
  prev = at /\ prev \in Maybe(procGap..procNow) /\ (prev # None => kind \in procWanted)

ProcessKept(s) ==
  /\ {"prev", "prev_at", "panel", "page_prev", "page_at", "page"} \subseteq DOMAIN s
  /\ Scanned("PanelProcesses", s.prev, s.prev_at)
  /\ Scanned("PageProcesses", s.page_prev, s.page_at)
  /\ s.panel \in [latest : Maybe(Shares), previous : Maybe(Shares)]
  /\ s.page \in [latest : Maybe(Shares), previous : Maybe(Shares)]

ProcessInv ==
  /\ procNow \in Nat /\ procGap \in 0..procNow
  /\ ProcessKept(proc)
  /\ procShown \in [top : Maybe(Shares), full : Maybe(Shares)]
  /\ procShown.top # None => "PanelProcesses" \in procWanted

(* Nothing is kept at first.                                                  *)
LEMMA ProcessInitKeeps == ProcessInit => ProcessInv
<1> SUFFICES ASSUME ProcessInit PROVE ProcessInv
  OBVIOUS
<1>1. NotRetained \in [latest : Maybe(Shares), previous : Maybe(Shares)] /\ None \in Maybe(Shares)
      /\ None \in Maybe(procGap..procNow)
  BY NothingRetained
<1>2. procNow = 0 /\ procGap = 0 /\ proc = NewProcessState /\ procShown = [top |-> None, full |-> None]
  BY DEF ProcessInit
<1> QED BY <1>1, <1>2 DEF ProcessInv, ProcessKept, Scanned, NewProcessState

(* A scan is forgotten with all it left.                                      *)
LEMMA ResetsKeep ==
  ASSUME ProcessInv, NEW s, ProcessKept(s)
  PROVE  ProcessKept(ResetPanel(s)) /\ ProcessKept(ResetPage(s)) /\ ProcessKept(ReconcilePanel(s))
<1>1. NotRetained \in [latest : Maybe(Shares), previous : Maybe(Shares)]
      /\ None \in Maybe(procGap..procNow)
  BY NothingRetained
<1>2. ProcessKept(ResetPanel(s))
  <2> DEFINE r == ResetPanel(s)
  <2>1. /\ DOMAIN r = DOMAIN s
        /\ r.prev = None /\ r.prev_at = None /\ r.panel = NotRetained
        /\ r.page_prev = s.page_prev /\ r.page_at = s.page_at /\ r.page = s.page
    BY DEF ResetPanel, ProcessKept
  <2> HIDE DEF r
  <2>2. ProcessKept(r)
    BY <1>1, <2>1 DEF ProcessKept, Scanned
  <2> QED BY <2>2 DEF r
<1>3. ProcessKept(ResetPage(s))
  <2> DEFINE r == ResetPage(s)
  <2>1. /\ DOMAIN r = DOMAIN s
        /\ r.prev = s.prev /\ r.prev_at = s.prev_at /\ r.panel = s.panel
        /\ r.page_prev = None /\ r.page_at = None /\ r.page = NotRetained
    BY DEF ResetPage, ProcessKept
  <2> HIDE DEF r
  <2>2. ProcessKept(r)
    BY <1>1, <2>1 DEF ProcessKept, Scanned
  <2> QED BY <2>2 DEF r
<1> QED BY <1>2, <1>3 DEF ReconcilePanel

(* Rows compare this scan with the one before.                                *)
LEMMA RowsAreShares ==
  ASSUME ProcessInv, NEW kind, NEW prev, Scanned(kind, prev, prev), prev # None, ~NoTimeSince(prev)
  PROVE  Rows(prev, prev) = Value([scan |-> prev[1], from |-> prev[1]])
         /\ Sample([scan |-> prev[1], from |-> prev[1]], procNow) \in Shares
<1>1. prev[1] \in procGap..procNow /\ prev[1] # procNow
  BY MaybeEither DEF Scanned, NoTimeSince
<1>2. procNow \in Nat /\ procGap \in Nat
  BY DEF ProcessInv
<1> QED BY <1>1, <1>2 DEF Rows, Sample, Shares

(* The scan of now.                                                           *)
LEMMA ScannedNow ==
  ASSUME ProcessInv, NEW kind \in procWanted
  PROVE  Scanned(kind, Some(procNow), Some(procNow))
<1>1. procNow \in procGap..procNow
  BY DEF ProcessInv
<1> QED BY <1>1 DEF Scanned, Maybe

(* The scan of the panel: its shares are of two scans after the gap.          *)
LEMMA RunPanelKeeps ==
  ASSUME ProcessInv, NEW readable \in BOOLEAN, NEW listed \in BOOLEAN, RunPanelProcesses(readable, listed)
  PROVE  ProcessInv'
<1> DEFINE s == ReconcilePanel(proc)
           scan == IF readable THEN ReadTopProcess(s, listed) ELSE [state |-> s, outcome |-> Failed]
           next == [s EXCEPT !.prev = Some(procNow), !.prev_at = Some(procNow)]
<1>1. ProcessKept(s) /\ "PanelProcesses" \in procWanted
  BY ResetsKeep DEF ProcessInv, RunPanelProcesses
<1>2. ProcessKept(next)
  <2> HIDE DEF s
  <2>1. /\ DOMAIN next = DOMAIN s
        /\ next.prev = Some(procNow) /\ next.prev_at = Some(procNow) /\ next.panel = s.panel
        /\ next.page_prev = s.page_prev /\ next.page_at = s.page_at /\ next.page = s.page
    BY <1>1 DEF ProcessKept
  <2> HIDE DEF next
  <2> QED BY <1>1, <2>1, ScannedNow DEF ProcessKept
<1>3. /\ ProcessKept(scan.state)
      /\ \/ scan.outcome \in {Baseline, Failed, Absent}
         \/ \E v : scan.outcome = Value(v) /\ Sample(v, procNow) \in Shares
  <2>1. CASE scan = [state |-> s, outcome |-> Failed] \/ scan = [state |-> s, outcome |-> Baseline]
             \/ scan = [state |-> next, outcome |-> Baseline] \/ scan = [state |-> next, outcome |-> Absent]
    BY <1>1, <1>2, <2>1
  <2>2. CASE scan = [state |-> next, outcome |-> Rows(s.prev, s.prev_at)] /\ s.prev # None /\ ~NoTimeSince(s.prev_at)
    <3>1. s.prev = s.prev_at /\ Scanned("PanelProcesses", s.prev, s.prev)
      BY <1>1 DEF ProcessKept, Scanned
    <3> HIDE DEF s, next, scan
    <3>2. scan.state = next /\ scan.outcome = Rows(s.prev, s.prev)
      BY <2>2, <3>1
    <3>3. /\ Rows(s.prev, s.prev) = Value([scan |-> s.prev[1], from |-> s.prev[1]])
          /\ Sample([scan |-> s.prev[1], from |-> s.prev[1]], procNow) \in Shares
      BY <2>2, <3>1, RowsAreShares
    <3> QED BY <1>2, <3>2, <3>3
  <2> HIDE DEF s
  <2>3. scan = [state |-> s, outcome |-> Failed] \/ scan = ReadTopProcess(s, listed)
    OBVIOUS
  <2>4. CASE s.prev # None /\ NoTimeSince(s.prev_at)
    BY <2>1, <2>3, <2>4 DEF ReadTopProcess
  <2>5. CASE ~(s.prev # None /\ NoTimeSince(s.prev_at))
    <3>1. ReadTopProcess(s, listed) = 
            [state |-> next, outcome |-> CASE s.prev = None -> Baseline
                                           [] s.prev # None /\ listed -> Rows(s.prev, s.prev_at)
                                           [] OTHER -> Absent]
      BY <2>5 DEF ReadTopProcess
    <3> HIDE DEF scan, next
    <3> QED BY <2>1, <2>2, <2>3, <2>5, <3>1
  <2> QED BY <2>4, <2>5
<1> HIDE DEF scan, s, next
<1> DEFINE t == [scan.state EXCEPT !.panel = CommitAttempt(scan.state.panel, scan.outcome, procNow)]
<1>4. proc' = t
  BY DEF RunPanelProcesses, AttemptProcess, scan, s
<1>5. CommitAttempt(scan.state.panel, scan.outcome, procNow) \in [latest : Maybe(Shares), previous : Maybe(Shares)]
  <2>1. scan.state.panel \in [latest : Maybe(Shares), previous : Maybe(Shares)]
    BY <1>3 DEF ProcessKept
  <2> QED BY <1>3, <2>1, CommitRecords
<1>6. ProcessKept(t) /\ t.panel.latest \in Maybe(Shares)
  BY <1>3, <1>5 DEF ProcessKept
<1> HIDE DEF t
<1>7. UNCHANGED <<procWanted, procMoves, procNow, procGap>>
      /\ procShown' \in {procShown, [top |-> t.panel.latest, full |-> t.panel.latest]}
  BY <1>4 DEF RunPanelProcesses
<1>8. procShown' \in [top : Maybe(Shares), full : Maybe(Shares)]
  BY <1>6, <1>7 DEF ProcessInv
<1>9. Shares' = Shares
  BY <1>7 DEF Shares
<1> QED BY <1>1, <1>4, <1>6, <1>7, <1>8, <1>9 DEF ProcessInv, ProcessKept, Scanned

(* The scan of the page, beside it.                                           *)
LEMMA RunPageKeeps ==
  ASSUME ProcessInv, NEW readable \in BOOLEAN, NEW listed \in BOOLEAN, RunPageProcesses(readable, listed)
  PROVE  ProcessInv'
<1> DEFINE s == ReconcilePanel(proc)
           counters == PageCounters(s)
           counted == PageCountedFrom(s)
           next == [s EXCEPT !.page_prev = Some(procNow), !.page_at = Some(procNow)]
           t == ReadTopProcessPage(s, readable, listed)
<1>1. ProcessKept(s) /\ "PageProcesses" \in procWanted
  BY ResetsKeep DEF ProcessInv, RunPageProcesses
<1>2. ProcessKept(next) /\ next.page = s.page
  <2> HIDE DEF s
  <2>1. /\ DOMAIN next = DOMAIN s
        /\ next.prev = s.prev /\ next.prev_at = s.prev_at /\ next.panel = s.panel
        /\ next.page_prev = Some(procNow) /\ next.page_at = Some(procNow) /\ next.page = s.page
    BY <1>1 DEF ProcessKept
  <2> HIDE DEF next
  <2> QED BY <1>1, <2>1, ScannedNow DEF ProcessKept
<1>3. counters = counted /\ \E kind : Scanned(kind, counters, counters)
  BY <1>1 DEF ProcessKept, Scanned, PageCounters, PageCountedFrom
<1>4. s.page \in [latest : Maybe(Shares), previous : Maybe(Shares)]
  BY <1>1 DEF ProcessKept
<1>5. \A u : ProcessKept(u) /\ u.page = s.page =>
        \A page \in [latest : Maybe(Shares), previous : Maybe(Shares)] :
          ProcessKept([u EXCEPT !.page = page])
  BY DEF ProcessKept
<1> HIDE DEF s, counters, counted, next
<1>6. \E u \in {s, next} :
        \/ t = [u EXCEPT !.page = s.page]
        \/ \E outcome : /\ t = [u EXCEPT !.page = CommitAttempt(s.page, outcome, procNow)]
                        /\ \/ outcome = Absent
                           \/ outcome = Rows(counters, counted) /\ counters # None /\ ~NoTimeSince(counted)
  <2>1. t = CASE ~readable -> [s EXCEPT !.page = s.page]
              [] readable /\ counters = None -> [next EXCEPT !.page = s.page]
              [] readable /\ counters # None /\ NoTimeSince(counted) -> [s EXCEPT !.page = s.page]
              [] OTHER ->
                   [next EXCEPT !.page =
                      CommitAttempt(s.page, IF listed THEN Rows(counters, counted) ELSE Absent, procNow)]
    BY <1>2 DEF ReadTopProcessPage, RecordFailure, RecordBaseline, counters, counted, next
  <2> HIDE DEF t
  <2> QED BY <2>1
<1>7. \A outcome :
        outcome = Absent \/ (outcome = Rows(counters, counted) /\ counters # None /\ ~NoTimeSince(counted))
        => CommitAttempt(s.page, outcome, procNow) \in [latest : Maybe(Shares), previous : Maybe(Shares)]
  <2> SUFFICES ASSUME NEW outcome,
                      outcome = Absent \/ (outcome = Rows(counters, counted) /\ counters # None /\ ~NoTimeSince(counted))
               PROVE  CommitAttempt(s.page, outcome, procNow) \in [latest : Maybe(Shares), previous : Maybe(Shares)]
    OBVIOUS
  <2>1. outcome \in {Baseline, Failed, Absent} \/ \E v : outcome = Value(v) /\ Sample(v, procNow) \in Shares
    BY <1>3, RowsAreShares
  <2> QED BY <1>4, <2>1, CommitRecords
<1>8. ProcessKept(t) /\ t.page.latest \in Maybe(Shares)
  <2> HIDE DEF t
  <2>1. \E u \in {s, next} : \E page \in [latest : Maybe(Shares), previous : Maybe(Shares)] :
           t = [u EXCEPT !.page = page]
    BY <1>4, <1>6, <1>7
  <2>2. ProcessKept(t)
    BY <1>1, <1>2, <1>5, <2>1
  <2> QED BY <2>2 DEF ProcessKept
<1>9. proc' = t /\ UNCHANGED <<procWanted, procMoves, procNow, procGap>>
      /\ procShown' = [procShown EXCEPT !.full = t.page.latest]
  BY DEF RunPageProcesses, s
<1> HIDE DEF t
<1>10. procShown' \in [top : Maybe(Shares), full : Maybe(Shares)] /\ procShown'.top = procShown.top
  BY <1>8, <1>9 DEF ProcessInv
<1>11. Shares' = Shares
  BY <1>9 DEF Shares
<1> QED BY <1>8, <1>9, <1>10, <1>11 DEF ProcessInv, ProcessKept, Scanned

(* A surface that is left takes its scans along.                              *)
LEMMA ProcessDemandKeeps ==
  ASSUME ProcessInv, NEW wanted, ProcessDemand(wanted)
  PROVE  ProcessInv'
<1> DEFINE kinds == procWanted \ wanted
           panel == IF "PanelProcesses" \in kinds THEN ResetPanel(proc) ELSE proc
           page == IF "PageProcesses" \in kinds THEN ResetPage(panel) ELSE panel
<1>1. ProcessKept(page)
  <2>1. ProcessKept(panel)
    BY ResetsKeep DEF ProcessInv
  <2> HIDE DEF panel
  <2> QED BY <2>1, ResetsKeep
<1>2. ("PanelProcesses" \in kinds => page.prev = None) /\ ("PageProcesses" \in kinds => page.page_prev = None)
  BY DEF ProcessInv, ProcessKept, ResetPanel, ResetPage
<1>3. /\ proc' = page /\ procWanted' = wanted /\ UNCHANGED <<procNow, procGap>>
      /\ procShown' = [top |-> IF "PanelProcesses" \in kinds THEN None ELSE procShown.top,
                      full |-> IF "PageProcesses" \in kinds THEN None ELSE procShown.full]
  BY DEF ProcessDemand, InvalidateProcesses
<1> HIDE DEF page
<1>4. Shares' = Shares /\ None \in Maybe(Shares)
  BY <1>3, NothingRetained DEF Shares
<1>5. ProcessKept(proc)'
  BY <1>1, <1>2, <1>3, <1>4 DEF ProcessKept, Scanned
<1> QED BY <1>3, <1>4, <1>5 DEF ProcessInv

(* Shares stay comparable as time goes on, and after a resume.                *)
LEMMA SharesLater ==
  ASSUME ProcessInv, procNow' \in Nat, procNow' >= procNow, procGap' \in {procGap, procNow}
  PROVE  Shares \subseteq Shares'
<1>1. procNow \in Nat /\ procGap \in 0..procNow
  BY DEF ProcessInv
<1> SUFFICES ASSUME NEW s \in Shares PROVE s \in Shares'
  OBVIOUS
<1>2. s \in [value : [scan : Nat, from : Nat], at : 0..procNow]
  BY DEF Shares
<1>3. s \in [value : [scan : Nat, from : Nat], at : 0..procNow']
  BY <1>1, <1>2
<1> QED BY <1>1, <1>2, <1>3 DEF Shares

(* The time, and a resume.                                                    *)
LEMMA ProcessTimesKeep ==
  ASSUME ProcessInv, ResumeProcesses \/ ProcessTime
  PROVE  ProcessInv'
<1>0. procNow \in Nat /\ procGap \in 0..procNow
  BY DEF ProcessInv
<1>1. /\ procNow' \in Nat /\ procNow' >= procNow /\ procGap' \in {procGap, procNow} /\ procGap' \in 0..procNow'
      /\ UNCHANGED <<procShown, procWanted>>
  BY <1>0 DEF ResumeProcesses, ProcessTime
<1>2. Maybe(Shares) \subseteq Maybe(Shares')
  BY <1>1, SharesLater, MaybeMonotonic
<1> HIDE DEF Shares
<1>3. procShown \in [top : Maybe(Shares'), full : Maybe(Shares')]
      /\ proc.panel \in [latest : Maybe(Shares'), previous : Maybe(Shares')]
      /\ proc.page \in [latest : Maybe(Shares'), previous : Maybe(Shares')]
  BY <1>2 DEF ProcessInv, ProcessKept
<1>4. CASE ResumeProcesses
  <2>1. /\ proc'.prev = None /\ proc'.prev_at = None /\ proc'.page_prev = None /\ proc'.page_at = None
        /\ proc'.panel = proc.panel /\ proc'.page = proc.page /\ DOMAIN proc' = DOMAIN proc
    BY <1>4 DEF ResumeProcesses, ResetProcessBaselines, ProcessInv, ProcessKept, Scanned
  <2>2. None \in Maybe(procGap'..procNow')
    BY NothingRetained
  <2> QED BY <1>1, <1>3, <2>1, <2>2 DEF ProcessInv, ProcessKept, Scanned
<1>5. CASE ProcessTime
  <2>1. proc' = proc /\ procGap' = procGap
    BY <1>5 DEF ProcessTime
  <2>2. Maybe(procGap..procNow) \subseteq Maybe(procGap'..procNow')
    <3>1. procGap..procNow \subseteq procGap'..procNow'
      BY <1>0, <1>1, <2>1
    <3> QED BY <3>1, MaybeMonotonic
  <2> QED BY <1>1, <1>3, <2>1, <2>2 DEF ProcessInv, ProcessKept, Scanned
<1> QED BY <1>4, <1>5

(* A share on display compares two scans of one process and no interruption,  *)
(* and what a surface has left is not shown to it.                            *)
LEMMA ProcessesAreScanned == ProcessSpec => []ProcessesHold
<1>1. ProcessInv /\ [ProcessNext]_processVars => ProcessInv'
  <2> SUFFICES ASSUME ProcessInv, [ProcessNext]_processVars PROVE ProcessInv'
    OBVIOUS
  <2>1. CASE UNCHANGED processVars
    BY <2>1 DEF processVars, ProcessInv, ProcessKept, Scanned, Shares
  <2> QED BY <2>1, RunPanelKeeps, RunPageKeeps, ProcessDemandKeeps, ProcessTimesKeep DEF ProcessNext
<1>2. ProcessInv => ProcessesHold
  <2> SUFFICES ASSUME ProcessInv PROVE ProcessesHold
    OBVIOUS
  <2>1. \A m \in Maybe(Shares) : {m[i] : i \in DOMAIN m} \subseteq Shares
    BY DEF Maybe, Some, None
  <2>2. \A r \in [latest : Maybe(Shares), previous : Maybe(Shares)] : Values(r) \subseteq Shares
    BY <2>1 DEF Values
  <2>3. \A s \in Shares : /\ s.value.scan = s.value.from /\ s.value.scan < s.at
                          /\ s.at > procGap => s.value.scan >= procGap
    BY DEF Shares
  <2> HIDE DEF Shares
  <2> QED BY <2>1, <2>2, <2>3 DEF ProcessInv, ProcessKept, ProcessesHold
<1> QED BY <1>1, <1>2, ProcessInitKeeps, PTL DEF ProcessSpec

-----------------------------------------------------------------------------
(* The processor.                                                             *)

(* A usage of two reads, the first of them after the gap; and one of cores    *)
(* that were all there in both.                                               *)
Usages ==
  {s \in [value : [since : Nat], at : 0..cpuNow] :
     s.value.since < s.at /\ (s.at > cpuGap => s.value.since >= cpuGap)}

CoreUsages ==
  {s \in [value : [since : Nat, first : Nat, second : Nat], at : 0..cpuNow] :
     /\ s.value.since < s.at /\ (s.at > cpuGap => s.value.since >= cpuGap)
     /\ s.value.first = s.value.second}

Drawn(samples) == {p \in [deadline : Nat, sample : samples] : p.sample.at <= p.deadline}

(* Counters that were read after the gap.                                     *)
Reads == [at : cpuGap..cpuNow, cores : Nat]

(* The temperatures of a sensor, and of a card.                               *)
Heats(sensor) == {s \in [value : TempSensor, at : Nat] : Some(s.value) = sensor}

HeatsOfCard(card) == {g \in Gpu : Some(g) = card}

(* What is retained of one metric.                                            *)
Retained(samples) == [latest : Maybe(samples), previous : Maybe(samples)]

CpuFields(c) ==
  {"usage", "times", "history", "temperature", "source", "cpu_temps", "temp_cpu", "gpu_temps",
   "temp_gpu", "core_usage", "core_times", "core_history"} \subseteq DOMAIN c

UsageKept(c) ==
  /\ c.usage \in Retained(Usages)
  /\ c.times \in Maybe(Reads) /\ (c.times # None => "cpu" \in cpuWanted)
  /\ c.history \in Seq(Drawn(Usages))

HeatKept(c) ==
  /\ c.temperature \in Retained(Heats(c.source))
  /\ c.cpu_temps \in Seq(Heats(c.temp_cpu))
  /\ c.gpu_temps \in Seq(HeatsOfCard(c.temp_gpu))

CoresKept(c) ==
  /\ c.core_usage \in Retained(CoreUsages)
  /\ c.core_times \in Maybe(Reads) /\ (c.core_times # None => "cores" \in cpuWanted)
  /\ \A core \in DOMAIN c.core_history : c.core_history[core] \in Seq(Drawn(CoreUsages))

CpuKept(c) == CpuFields(c) /\ UsageKept(c) /\ HeatKept(c) /\ CoresKept(c)

(* What is shown of the temperature is of the inventory's sensor.             *)
CpuDisplayed(shown) ==
  /\ {"temp", "cpu_temps"} \subseteq DOMAIN shown
  /\ shown.temp \in Maybe(Heats(cpuHw.temp)) /\ shown.cpu_temps \in Seq(Heats(cpuHw.temp))
  /\ shown.temp # None \/ shown.cpu_temps # <<>> => "cpu" \in cpuWanted

CpuTypes ==
  /\ cpuHw \in CpuHardware
  /\ cpuNow \in Nat /\ cpuGap \in 0..cpuNow
  /\ "cores" \in DOMAIN stat /\ stat.cores \in Nat
  /\ gpuTemp \in Maybe(HeatsOfCard(cpuHw.gpu))

CpuInv == CpuTypes /\ CpuKept(cpu) /\ CpuDisplayed(cpuShown)

(* Two ways to name the hardware.                                             *)
LEMMA CpuHardwareIs ==
  ASSUME CpuTypes
  PROVE  cpuHw.temp \in Maybe(TempSensor) /\ cpuHw.gpu \in Maybe(Gpu)
  BY DEF CpuTypes, CpuHardware, Maybe

(* Nothing is measured at first.                                              *)
LEMMA CpuInitKeeps == CpuInit => CpuInv
<1> SUFFICES ASSUME CpuInit PROVE CpuInv
  OBVIOUS
<1>1. \A S : NotRetained \in Retained(S) /\ None \in Maybe(S) /\ <<>> \in Seq(S)
  BY NothingRetained DEF Retained
<1>2. cpuNow = 0 /\ cpuGap = 0 /\ cpu = NewCpu /\ gpuTemp = None /\ stat.cores = MaxCores /\ "cores" \in DOMAIN stat
      /\ cpuShown.temp = None /\ cpuShown.cpu_temps = <<>> /\ {"temp", "cpu_temps"} \subseteq DOMAIN cpuShown
  BY DEF CpuInit
<1>3. cpuHw \in CpuHardware
  BY DEF CpuInit, CpuHardware
<1>4. MaxCores \in Nat
  BY CpuAssumption
<1>5. CpuTypes /\ CpuDisplayed(cpuShown)
  BY <1>1, <1>2, <1>3, <1>4 DEF CpuTypes, CpuDisplayed
<1>6. CpuKept(NewCpu)
  BY <1>1 DEF CpuKept, CpuFields, UsageKept, HeatKept, CoresKept, NewCpu, None
<1> QED BY <1>2, <1>5, <1>6 DEF CpuInv

(* The jobs that are there.                                                   *)
LEMMA CpuJobsDemanded ==
  ASSUME NEW temp, NEW wanted
  PROVE  LET jobs == CpuJobs(temp, wanted)
         IN  /\ "Cpu" \in DOMAIN jobs <=> "cpu" \in wanted
             /\ "CpuCores" \in DOMAIN jobs <=> "cores" \in wanted
             /\ "CpuCoreHistory" \in DOMAIN jobs <=> "cores" \in wanted
             /\ "CpuHistory" \in DOMAIN jobs => "cpu" \in wanted
             /\ "Cpu" \in DOMAIN jobs => jobs["Cpu"] = temp
  BY DEF CpuJobs

(* Nothing is kept of a page that is not shown.                               *)
LEMMA ReconcileCoresKeeps ==
  ASSUME CpuInv, NEW c, CpuKept(c)
  PROVE  CpuKept(ReconcileCorePage(c))
<1>1. CASE "cores" \in cpuWanted
  BY <1>1 DEF ReconcileCorePage
<1>2. CASE "cores" \notin cpuWanted
  <2> DEFINE r == [c EXCEPT !.core_usage = NotRetained, !.core_times = None, !.core_history = <<>>]
  <2>1. CpuFields(r) /\ UsageKept(r) /\ HeatKept(r)
        /\ r.core_usage = NotRetained /\ r.core_times = None /\ r.core_history = <<>>
    BY DEF CpuKept, CpuFields, UsageKept, HeatKept
  <2> HIDE DEF r
  <2>2. CoresKept(r)
    BY <2>1, NothingRetained DEF CoresKept, Retained
  <2> QED BY <1>2, <2>1, <2>2 DEF CpuKept, ReconcileCorePage, r
<1> QED BY <1>1, <1>2

(* attempt_cpu: the temperature that is kept is of the sensor of now.         *)
LEMMA AttemptTemperatureKeeps ==
  ASSUME CpuInv, NEW c, CpuKept(c), NEW readable \in BOOLEAN
  PROVE  LET r == AttemptTemperature(c, readable)
         IN  /\ CpuKept(r)
             /\ r.temperature.latest \in Maybe(Heats(cpuHw.temp))
             /\ r.temperature.latest # None => "cpu" \in cpuWanted
<1> DEFINE r == AttemptTemperature(c, readable)
<1>0. NotRetained \in Retained(Heats(None)) /\ None \in Maybe(Heats(cpuHw.temp)) /\ NotRetained.latest = None
      /\ NotRetained \in Retained(Heats(cpuHw.temp))
  BY NothingRetained DEF Retained, NotRetained
<1>1. CASE "cpu" \notin cpuWanted \/ cpuHw.temp = None
  <2>1. r = [c EXCEPT !.temperature = NotRetained, !.source = None]
    BY <1>1 DEF AttemptTemperature
  <2>2. /\ CpuFields(r) /\ UsageKept(r) /\ CoresKept(r)
        /\ r.temperature = NotRetained /\ r.source = None
        /\ r.cpu_temps = c.cpu_temps /\ r.temp_cpu = c.temp_cpu
        /\ r.gpu_temps = c.gpu_temps /\ r.temp_gpu = c.temp_gpu
    BY <2>1 DEF CpuKept, CpuFields, UsageKept, CoresKept
  <2> HIDE DEF r
  <2> QED BY <1>0, <2>2 DEF CpuKept, HeatKept, r
<1>2. CASE ~("cpu" \notin cpuWanted \/ cpuHw.temp = None)
  <2> DEFINE kept == IF c.source = cpuHw.temp THEN c.temperature ELSE NotRetained
             outcome == IF readable THEN Value(cpuHw.temp[1]) ELSE Failed
             t == CommitAttempt(kept, outcome, cpuNow)
  <2>1. r = [c EXCEPT !.source = cpuHw.temp, !.temperature = t]
    BY <1>2 DEF AttemptTemperature
  <2>2. kept \in Retained(Heats(cpuHw.temp))
    BY <1>0 DEF CpuKept, HeatKept
  <2>3. Sample(cpuHw.temp[1], cpuNow) \in Heats(cpuHw.temp)
    <3>1. cpuHw.temp[1] \in TempSensor /\ Some(cpuHw.temp[1]) = cpuHw.temp
      BY <1>2, CpuHardwareIs, MaybeEither DEF CpuInv
    <3>2. cpuNow \in Nat
      BY DEF CpuInv, CpuTypes
    <3> QED BY <3>1, <3>2 DEF Heats, Sample
  <2>4. outcome \in {Baseline, Failed, Absent}
        \/ \E v : outcome = Value(v) /\ Sample(v, cpuNow) \in Heats(cpuHw.temp)
    BY <2>3
  <2> HIDE DEF kept, outcome
  <2>5. t \in Retained(Heats(cpuHw.temp))
    BY <2>2, <2>4, CommitRecords DEF Retained
  <2> HIDE DEF t
  <2>6. /\ CpuFields(r) /\ UsageKept(r) /\ CoresKept(r)
        /\ r.temperature = t /\ r.source = cpuHw.temp
        /\ r.cpu_temps = c.cpu_temps /\ r.temp_cpu = c.temp_cpu
        /\ r.gpu_temps = c.gpu_temps /\ r.temp_gpu = c.temp_gpu
    BY <2>1 DEF CpuKept, CpuFields, UsageKept, CoresKept
  <2> HIDE DEF r
  <2>7. t.latest \in Maybe(Heats(cpuHw.temp))
    BY <2>5 DEF Retained
  <2> QED BY <1>2, <2>5, <2>6, <2>7 DEF CpuKept, HeatKept, r
<1> QED BY <1>1, <1>2

(* The counters of now.                                                       *)
LEMMA CountersAreReads == ASSUME CpuInv PROVE Counters \in Maybe(Reads) /\ Counters # None
<1>1. cpuNow \in cpuGap..cpuNow /\ stat.cores \in Nat
  BY DEF CpuInv, CpuTypes
<1> QED BY <1>1, SomeIsNotNone DEF Counters, Reads, Maybe

(* read_cpu_usage_once: a usage counts from counters of after the gap.        *)
LEMMA UsageIsKept ==
  ASSUME CpuInv, "cpu" \in cpuWanted, NEW c, CpuKept(c), NEW sane \in BOOLEAN
  PROVE  CpuKept([ReadCpuUsageOnce(c) EXCEPT !.usage = CommitAttempt(@, CpuUsageOutcome(c, sane), cpuNow)])
<1> DEFINE read == ReadCpuUsageOnce(c)
           outcome == CpuUsageOutcome(c, sane)
           u == CommitAttempt(c.usage, outcome, cpuNow)
           r == [read EXCEPT !.usage = CommitAttempt(read.usage, outcome, cpuNow)]
<1>1. /\ CpuFields(read) /\ HeatKept(read) /\ CoresKept(read)
      /\ read.usage = c.usage /\ read.times = Counters /\ read.history \in {<<>>, c.history}
  BY DEF ReadCpuUsageOnce, CpuKept, CpuFields, HeatKept, CoresKept
<1>2. outcome \in {Baseline, Failed, Absent} \/ \E v : outcome = Value(v) /\ Sample(v, cpuNow) \in Usages
  <2>1. CASE c.times = None \/ ~sane \/ c.times[1].at = cpuNow
    BY <2>1 DEF CpuUsageOutcome
  <2>2. CASE ~(c.times = None \/ ~sane \/ c.times[1].at = cpuNow)
    <3>1. c.times[1] \in Reads
      BY <2>2, MaybeEither DEF CpuKept, UsageKept
    <3>2. c.times[1].at \in cpuGap..cpuNow /\ c.times[1].at # cpuNow /\ cpuNow \in Nat /\ cpuGap \in Nat
      BY <2>2, <3>1 DEF Reads, CpuInv, CpuTypes
    <3>3. Sample([since |-> c.times[1].at], cpuNow) \in Usages
      BY <3>2 DEF Sample, Usages
    <3>4. outcome = Value([since |-> c.times[1].at])
      BY <2>2 DEF CpuUsageOutcome
    <3> QED BY <3>3, <3>4
  <2> QED BY <2>1, <2>2
<1>3. u \in Retained(Usages)
  <2> HIDE DEF outcome
  <2> QED BY <1>2, CommitRecords DEF CpuKept, UsageKept, Retained
<1> HIDE DEF read, outcome
<1>4. /\ CpuFields(r) /\ HeatKept(r) /\ CoresKept(r)
      /\ r.usage = u /\ r.times = Counters /\ r.history \in {<<>>, c.history}
  BY <1>1 DEF CpuFields, HeatKept, CoresKept
<1> HIDE DEF r, u
<1>5. UsageKept(r)
  <2>1. <<>> \in Seq(Drawn(Usages)) /\ c.history \in Seq(Drawn(Usages))
    BY DEF CpuKept, UsageKept
  <2> QED BY <1>3, <1>4, <2>1, CountersAreReads DEF UsageKept
<1> QED BY <1>4, <1>5 DEF CpuKept, r, read, outcome

(* run_cpu_job.                                                               *)
LEMMA RunCpuKeeps ==
  ASSUME CpuInv, NEW statRead \in BOOLEAN, NEW sane \in BOOLEAN, NEW readable \in BOOLEAN,
         RunCpu(statRead, sane, readable)
  PROVE  CpuInv'
<1> DEFINE c == ReconcileCorePage(cpu)
           usage == [ReadCpuUsageOnce(c) EXCEPT !.usage = CommitAttempt(@, CpuUsageOutcome(c, sane), cpuNow)]
           d == IF statRead THEN usage ELSE c
           r == AttemptTemperature(d, readable)
<1>1. "cpu" \in cpuWanted
  BY CpuJobsDemanded DEF RunCpu, CpuDemanded
<1>2. cpu' = r
  BY DEF RunCpu, AttemptCpu
<1>3. CpuKept(c)
  BY ReconcileCoresKeeps DEF CpuInv
<1> HIDE DEF c
<1>4. CpuKept(d)
  BY <1>1, <1>3, UsageIsKept
<1> HIDE DEF d
<1>5. CpuKept(r) /\ r.temperature.latest \in Maybe(Heats(cpuHw.temp))
  BY <1>4, AttemptTemperatureKeeps
<1> HIDE DEF r
<1>6. cpuShown' = [cpuShown EXCEPT !.usage = r.usage.latest, !.temp = r.temperature.latest]
      /\ UNCHANGED <<cpuHw, cpuWanted, gpuTemp, stat, cpuNow, cpuGap>>
  BY <1>2 DEF RunCpu, CpuAround
<1>7. CpuDisplayed(cpuShown')
  BY <1>1, <1>5, <1>6 DEF CpuInv, CpuDisplayed
<1> QED BY <1>2, <1>5, <1>6, <1>7 DEF CpuInv, CpuTypes, CpuKept, UsageKept, HeatKept, CoresKept, CpuDisplayed,
           CpuFields, Usages, CoreUsages, Drawn, Reads, Retained, Heats, HeatsOfCard

(* append_graph_temperature_history: what the series take is of the sensor    *)
(* and the card of now.                                                       *)
LEMMA TemperatureHistoryKeeps ==
  ASSUME CpuAssumption, CpuInv, NEW c, CpuKept(c), NEW deadline
  PROVE  LET r == AppendGraphTemperatureHistory(c, deadline)
         IN  /\ CpuKept(r) /\ r.usage = c.usage
             /\ r.cpu_temps \in Seq(Heats(cpuHw.temp))
<1> DEFINE r == AppendGraphTemperatureHistory(c, deadline)
<1>0. \A S : <<>> \in Seq(S)
  OBVIOUS
<1>1. CASE ~GraphsTemperature
  <2>1. r = [c EXCEPT !.cpu_temps = <<>>, !.gpu_temps = <<>>, !.temp_cpu = None, !.temp_gpu = None]
    BY <1>1 DEF AppendGraphTemperatureHistory
  <2>2. /\ CpuFields(r) /\ UsageKept(r) /\ CoresKept(r) /\ r.usage = c.usage
        /\ r.temperature = c.temperature /\ r.source = c.source
        /\ r.cpu_temps = <<>> /\ r.gpu_temps = <<>>
    BY <2>1 DEF CpuKept, CpuFields, UsageKept, CoresKept
  <2> HIDE DEF r
  <2> QED BY <1>0, <2>2 DEF CpuKept, HeatKept, r
<1>2. CASE GraphsTemperature
  <2> DEFINE s == TemperatureSources(c)
             heat == IF s.source = cpuHw.temp THEN SampleAtOrBefore(s.temperature, deadline) ELSE None
             temps == Trimmed(s.cpu_temps \o heat, CpuGraphLength)
             cards == Trimmed(s.gpu_temps \o gpuTemp, CpuGraphLength)
  <2>1. r = [s EXCEPT !.cpu_temps = Trimmed(s.cpu_temps \o heat, CpuGraphLength),
                      !.gpu_temps = Trimmed(s.gpu_temps \o gpuTemp, CpuGraphLength)]
    BY <1>2 DEF AppendGraphTemperatureHistory
  <2>2. /\ CpuFields(s) /\ UsageKept(s) /\ CoresKept(s) /\ s.usage = c.usage
        /\ s.temperature = c.temperature /\ s.source = c.source
        /\ s.cpu_temps \in {c.cpu_temps, <<>>} /\ (c.temp_cpu # cpuHw.temp => s.cpu_temps = <<>>)
        /\ s.gpu_temps \in {c.gpu_temps, <<>>} /\ (c.temp_gpu # cpuHw.gpu => s.gpu_temps = <<>>)
        /\ s.temp_cpu = cpuHw.temp /\ s.temp_gpu = cpuHw.gpu
    BY DEF TemperatureSources, CpuKept, CpuFields, UsageKept, CoresKept
  <2> HIDE DEF s
  <2>3. s.cpu_temps \in Seq(Heats(cpuHw.temp)) /\ s.gpu_temps \in Seq(HeatsOfCard(cpuHw.gpu))
    BY <1>0, <2>2 DEF CpuKept, HeatKept
  <2>4. heat \in Maybe(Heats(cpuHw.temp))
    <3>1. CASE s.source = cpuHw.temp
      <4>1. s.temperature.latest \in Maybe(Heats(cpuHw.temp))
            /\ s.temperature.previous \in Maybe(Heats(cpuHw.temp))
        BY <2>2, <3>1 DEF CpuKept, HeatKept, Retained
      <4> QED BY <3>1, <4>1, SampleIsRetained
    <3>2. CASE s.source # cpuHw.temp
      BY <3>2, NothingRetained
    <3> QED BY <3>1, <3>2
  <2>5. heat \in Seq(Heats(cpuHw.temp)) /\ gpuTemp \in Seq(HeatsOfCard(cpuHw.gpu))
    <3>1. ASSUME NEW S, NEW m \in Maybe(S) PROVE m \in Seq(S)
      <4>1. m = <<>> \/ \E x \in S : m = <<x>>
        BY DEF Maybe, None, Some
      <4>2. CASE m = <<>>
        BY <4>2
      <4>3. ASSUME NEW x \in S, m = <<x>> PROVE m \in Seq(S)
        BY <4>3
      <4> QED BY <4>1, <4>2, <4>3
    <3> QED BY <2>4, <3>1 DEF CpuInv, CpuTypes
  <2> HIDE DEF heat
  <2>6. s.cpu_temps \o heat \in Seq(Heats(cpuHw.temp)) /\ s.gpu_temps \o gpuTemp \in Seq(HeatsOfCard(cpuHw.gpu))
    BY <2>3, <2>5
  <2>7. temps \in Seq(Heats(cpuHw.temp)) /\ cards \in Seq(HeatsOfCard(cpuHw.gpu))
    BY <2>6, TrimmedSeries DEF CpuAssumption
  <2>8. r = [s EXCEPT !.cpu_temps = temps, !.gpu_temps = cards]
    BY <2>1
  <2> HIDE DEF temps, cards
  <2>9. /\ CpuFields(r) /\ UsageKept(r) /\ CoresKept(r) /\ r.usage = c.usage
        /\ r.temperature = c.temperature /\ r.source = c.source
        /\ r.cpu_temps = temps /\ r.gpu_temps = cards
        /\ r.temp_cpu = cpuHw.temp /\ r.temp_gpu = cpuHw.gpu
    BY <2>2, <2>8 DEF CpuFields, UsageKept, CoresKept
  <2> HIDE DEF r
  <2> QED BY <2>7, <2>9 DEF CpuKept, HeatKept, r
<1> QED BY <1>1, <1>2

(* A point of the series of the usage.                                        *)
LEMMA CpuHistoryKeeps ==
  ASSUME CpuAssumption, NEW c, CpuKept(c), NEW deadline \in Nat,
         NEW sample \in Usages, sample.at <= deadline
  PROVE  LET r == AppendCpuHistory(c, deadline, sample)
         IN  CpuKept(r) /\ r.cpu_temps = c.cpu_temps
<1> DEFINE grown == Append(c.history, CpuPoint(deadline, sample))
           h == Trimmed(grown, CpuGraphLength)
           r == AppendCpuHistory(c, deadline, sample)
<1>1. CpuPoint(deadline, sample) \in Drawn(Usages)
  BY DEF CpuPoint, Drawn
<1>2. grown \in Seq(Drawn(Usages))
  BY <1>1 DEF CpuKept, UsageKept
<1> HIDE DEF grown
<1>3. h \in Seq(Drawn(Usages))
  BY <1>2, TrimmedSeries DEF CpuAssumption
<1>4. r = [c EXCEPT !.history = h]
  BY DEF AppendCpuHistory, grown
<1> HIDE DEF h
<1>5. /\ CpuFields(r) /\ HeatKept(r) /\ CoresKept(r) /\ r.cpu_temps = c.cpu_temps
      /\ r.usage = c.usage /\ r.times = c.times /\ r.history = h
  BY <1>4 DEF CpuKept, CpuFields, HeatKept, CoresKept
<1> HIDE DEF r
<1> QED BY <1>3, <1>5 DEF CpuKept, UsageKept, r

(* run_cpu_history_job.                                                       *)
LEMMA RunCpuHistoryKeeps ==
  ASSUME CpuAssumption, CpuInv, NEW deadline \in 0..cpuNow, RunCpuHistory(deadline)
  PROVE  CpuInv'
<1> DEFINE c == AppendGraphTemperatureHistory(ReconcileCorePage(cpu), deadline)
           usage == SampleAtOrBefore(c.usage, deadline)
           r == IF usage = None THEN c ELSE AppendCpuHistory(c, deadline, usage[1])
<1>0. deadline \in Nat
  BY DEF CpuInv, CpuTypes
<1>1. "cpu" \in cpuWanted
  BY CpuJobsDemanded DEF RunCpuHistory, CpuDemanded
<1>2. /\ cpu' = r
      /\ DOMAIN cpuShown' = DOMAIN cpuShown /\ cpuShown'.temp = cpuShown.temp
      /\ ("cpu_temps" \in DOMAIN cpuShown => cpuShown'.cpu_temps = c.cpu_temps)
      /\ UNCHANGED <<cpuHw, cpuWanted, gpuTemp, stat, cpuNow, cpuGap>>
  BY DEF RunCpuHistory, CpuAround, CpuInv, CpuDisplayed
<1>3. CpuKept(c) /\ c.cpu_temps \in Seq(Heats(cpuHw.temp))
  <2>1. CpuKept(ReconcileCorePage(cpu))
    BY ReconcileCoresKeeps DEF CpuInv
  <2> QED BY <2>1, TemperatureHistoryKeeps
<1> HIDE DEF c
<1>4. CpuKept(r)
  <2>1. CASE usage = None
    BY <1>3, <2>1
  <2>2. CASE usage # None
    <3>1. c.usage.latest \in Maybe(Usages) /\ c.usage.previous \in Maybe(Usages)
      BY <1>3 DEF CpuKept, UsageKept, Retained
    <3>2. usage[1] \in Usages /\ usage[1].at <= deadline
      BY <2>2, <3>1, SampleIsRetained
    <3> HIDE DEF usage
    <3> QED BY <1>0, <1>3, <2>2, <3>2, CpuHistoryKeeps
  <2> QED BY <2>1, <2>2
<1> HIDE DEF r
<1>5. CpuDisplayed(cpuShown')
  BY <1>1, <1>2, <1>3 DEF CpuInv, CpuDisplayed
<1> QED BY <1>2, <1>4, <1>5 DEF CpuInv, CpuTypes, CpuKept, UsageKept, HeatKept, CoresKept, CpuDisplayed,
           CpuFields, Usages, CoreUsages, Drawn, Reads, Retained, Heats, HeatsOfCard

(* run_cpu_cores_job: a usage of the cores that were there in both reads.     *)
LEMMA RunCpuCoresKeeps ==
  ASSUME CpuInv, NEW sane \in BOOLEAN, RunCpuCores(sane)
  PROVE  CpuInv'
<1> DEFINE c == ReconcileCorePage(cpu)
           outcome == CpuCoreOutcome(c, sane)
           u == CommitAttempt(c.core_usage, outcome, cpuNow)
           r == AttemptCpuCores(c, sane)
<1>1. "cores" \in cpuWanted
  BY CpuJobsDemanded DEF RunCpuCores, CpuDemanded
<1>2. /\ cpu' = r
      /\ DOMAIN cpuShown' = DOMAIN cpuShown /\ cpuShown'.temp = cpuShown.temp
      /\ cpuShown'.cpu_temps = cpuShown.cpu_temps
      /\ UNCHANGED <<cpuHw, cpuWanted, gpuTemp, stat, cpuNow, cpuGap>>
  BY DEF RunCpuCores, CpuAround, CpuInv, CpuDisplayed
<1>3. CpuKept(c)
  BY ReconcileCoresKeeps DEF CpuInv
<1> HIDE DEF c
<1>4. outcome \in {Baseline, Failed, Absent} \/ \E v : outcome = Value(v) /\ Sample(v, cpuNow) \in CoreUsages
  <2>1. CASE ~SameShape(c) \/ ~sane \/ c.core_times[1].at = cpuNow
    BY <2>1 DEF CpuCoreOutcome
  <2>2. CASE ~(~SameShape(c) \/ ~sane \/ c.core_times[1].at = cpuNow)
    <3> DEFINE v == [since |-> c.core_times[1].at, first |-> c.core_times[1].cores, second |-> stat.cores]
    <3>1. c.core_times[1] \in Reads /\ c.core_times[1].cores = stat.cores
      BY <1>3, <2>2, MaybeEither DEF CpuKept, CoresKept, SameShape
    <3>2. c.core_times[1].at \in cpuGap..cpuNow /\ c.core_times[1].at # cpuNow /\ cpuNow \in Nat /\ cpuGap \in Nat
          /\ stat.cores \in Nat
      BY <2>2, <3>1 DEF Reads, CpuInv, CpuTypes
    <3>3. Sample(v, cpuNow) \in CoreUsages
      BY <3>1, <3>2 DEF Sample, CoreUsages
    <3>4. outcome = Value(v)
      BY <2>2 DEF CpuCoreOutcome
    <3> QED BY <3>3, <3>4
  <2> QED BY <2>1, <2>2
<1>5. u \in Retained(CoreUsages)
  <2> HIDE DEF outcome
  <2> QED BY <1>3, <1>4, CommitRecords DEF CpuKept, CoresKept, Retained
<1>6. /\ CpuFields(r) /\ UsageKept(r) /\ HeatKept(r)
      /\ r.core_usage = u /\ r.core_times = Counters
      /\ r.core_history \in {c.core_history, [core \in 1..stat.cores |-> <<>>]}
  <2> HIDE DEF outcome
  <2>1. r = [c EXCEPT !.core_times = Counters,
            !.core_history = IF SameShape(c) THEN c.core_history ELSE [core \in 1..stat.cores |-> <<>>],
            !.core_usage = u]
    BY <1>3 DEF AttemptCpuCores, CpuKept, CpuFields, outcome
  <2> HIDE DEF u, r
  <2> QED BY <1>3, <2>1 DEF CpuKept, CpuFields, UsageKept, HeatKept
<1> HIDE DEF r, u
<1>7. CoresKept(r)
  <2>1. \A core \in DOMAIN r.core_history : r.core_history[core] \in Seq(Drawn(CoreUsages))
    <3>1. <<>> \in Seq(Drawn(CoreUsages))
      OBVIOUS
    <3> QED BY <1>3, <1>6, <3>1 DEF CpuKept, CoresKept
  <2> QED BY <1>1, <1>5, <1>6, <2>1, CountersAreReads DEF CoresKept
<1>8. CpuKept(r)
  BY <1>6, <1>7 DEF CpuKept
<1>9. CpuDisplayed(cpuShown')
  BY <1>2 DEF CpuInv, CpuDisplayed
<1> QED BY <1>2, <1>8, <1>9 DEF CpuInv, CpuTypes, CpuKept, UsageKept, HeatKept, CoresKept, CpuDisplayed,
           CpuFields, Usages, CoreUsages, Drawn, Reads, Retained, Heats, HeatsOfCard

(* run_cpu_core_history_job.                                                  *)
LEMMA RunCpuCoreHistoryKeeps ==
  ASSUME CpuAssumption, CpuInv, NEW deadline \in 0..cpuNow, RunCpuCoreHistory(deadline)
  PROVE  CpuInv'
<1> DEFINE found == SampleAtOrBefore(cpu.core_usage, deadline)
           sample == found[1]
           h == [core \in DOMAIN cpu.core_history |->
                  IF core <= sample.value.second
                  THEN Trimmed(Append(cpu.core_history[core], CpuPoint(deadline, sample)), CpuGraphLength)
                  ELSE cpu.core_history[core]]
<1>1. /\ cpu' = [cpu EXCEPT !.core_history = h] /\ found # None
      /\ DOMAIN cpuShown' = DOMAIN cpuShown /\ cpuShown'.temp = cpuShown.temp
      /\ cpuShown'.cpu_temps = cpuShown.cpu_temps
      /\ UNCHANGED <<cpuHw, cpuWanted, gpuTemp, stat, cpuNow, cpuGap>>
  BY DEF RunCpuCoreHistory, AppendCpuCoreHistory, CpuAround, CpuInv, CpuDisplayed, CpuKept, CpuFields
<1>2. CpuPoint(deadline, sample) \in Drawn(CoreUsages)
  <2>1. cpu.core_usage.latest \in Maybe(CoreUsages) /\ cpu.core_usage.previous \in Maybe(CoreUsages)
    BY DEF CpuInv, CpuKept, CoresKept, Retained
  <2>2. sample \in CoreUsages /\ sample.at <= deadline
    BY <1>1, <2>1, SampleIsRetained
  <2>3. deadline \in Nat
    BY DEF CpuInv, CpuTypes
  <2> HIDE DEF sample
  <2> QED BY <2>2, <2>3 DEF CpuPoint, Drawn
<1> HIDE DEF sample
<1>3. \A core \in DOMAIN h : h[core] \in Seq(Drawn(CoreUsages))
  <2> SUFFICES ASSUME NEW core \in DOMAIN cpu.core_history
               PROVE  h[core] \in Seq(Drawn(CoreUsages))
    OBVIOUS
  <2>1. cpu.core_history[core] \in Seq(Drawn(CoreUsages))
    BY DEF CpuInv, CpuKept, CoresKept
  <2>2. Append(cpu.core_history[core], CpuPoint(deadline, sample)) \in Seq(Drawn(CoreUsages))
    BY <1>2, <2>1
  <2>3. Trimmed(Append(cpu.core_history[core], CpuPoint(deadline, sample)), CpuGraphLength)
          \in Seq(Drawn(CoreUsages))
    BY <2>2, TrimmedSeries DEF CpuAssumption
  <2> QED BY <2>1, <2>3
<1> HIDE DEF h
<1>4. /\ CpuFields(cpu') /\ UsageKept(cpu') /\ HeatKept(cpu')
      /\ cpu'.core_usage = cpu.core_usage /\ cpu'.core_times = cpu.core_times
      /\ cpu'.core_history = h
  BY <1>1 DEF CpuInv, CpuKept, CpuFields, UsageKept, HeatKept
<1>5. CpuKept(cpu')
  BY <1>3, <1>4 DEF CpuInv, CpuKept, CoresKept
<1>6. CpuDisplayed(cpuShown')
  BY <1>1 DEF CpuInv, CpuDisplayed
<1> HIDE DEF found
<1> QED BY <1>1, <1>5, <1>6 DEF CpuInv, CpuTypes, CpuKept, UsageKept, HeatKept, CoresKept, CpuDisplayed,
           CpuFields, Usages, CoreUsages, Drawn, Reads, Retained, Heats, HeatsOfCard

(* What becomes of the jobs takes what they kept along.                       *)
LEMMA CpuRejobKeeps ==
  ASSUME CpuAssumption, CpuInv, NEW hw \in CpuHardware, NEW wanted, CpuRejob(hw, wanted),
         UNCHANGED <<cpuNow, cpuGap>>, "cores" \in DOMAIN stat', stat'.cores = stat.cores,
         gpuTemp' = None \/ (gpuTemp' = gpuTemp /\ hw.gpu = cpuHw.gpu)
  PROVE  CpuInv'
<1> DEFINE old == CpuJobs(cpuHw.temp, cpuWanted)
           new == CpuJobs(hw.temp, wanted)
           gone == {k \in DOMAIN old : k \notin DOMAIN new \/ old[k] # new[k]}
           r == InvalidateCpu(cpu, gone)
           shown == InvalidateShownCpu(cpuShown, gone)
<1>1. cpu' = r /\ cpuShown' = shown /\ cpuHw' = hw /\ cpuWanted' = wanted
  BY DEF CpuRejob
<1>2. /\ "cpu" \in cpuWanted /\ ("cpu" \notin wanted \/ hw.temp # cpuHw.temp) => "Cpu" \in gone
      /\ "cores" \in cpuWanted /\ "cores" \notin wanted => "CpuCores" \in gone
  BY CpuJobsDemanded
<1> HIDE DEF gone
<1>3. /\ CpuFields(r)
      /\ r.usage \in {cpu.usage, NotRetained} /\ r.temperature \in {cpu.temperature, NotRetained}
      /\ r.times \in {cpu.times, None} /\ ("Cpu" \in gone => r.times = None)
      /\ r.history \in {cpu.history, <<>>} /\ r.cpu_temps \in {cpu.cpu_temps, <<>>}
      /\ r.gpu_temps \in {cpu.gpu_temps, <<>>}
      /\ r.core_usage \in {cpu.core_usage, NotRetained}
      /\ r.core_times \in {cpu.core_times, None} /\ ("CpuCores" \in gone => r.core_times = None)
      /\ r.core_history \in {cpu.core_history, <<>>}
      /\ r.source = cpu.source /\ r.temp_cpu = cpu.temp_cpu /\ r.temp_gpu = cpu.temp_gpu
  <2> DEFINE a == IF "Cpu" \notin gone THEN cpu
                  ELSE [cpu EXCEPT !.usage = NotRetained, !.temperature = NotRetained,
                                   !.times = None, !.cpu_temps = <<>>]
             b == IF "CpuHistory" \notin gone THEN a
                  ELSE [a EXCEPT !.history = <<>>, !.cpu_temps = <<>>, !.gpu_temps = <<>>]
             d == IF "CpuCores" \notin gone THEN b
                  ELSE [b EXCEPT !.core_usage = NotRetained, !.core_times = None]
  <2>1. /\ CpuFields(a)
        /\ a.usage \in {cpu.usage, NotRetained} /\ a.temperature \in {cpu.temperature, NotRetained}
        /\ a.times \in {cpu.times, None} /\ ("Cpu" \in gone => a.times = None)
        /\ a.cpu_temps \in {cpu.cpu_temps, <<>>}
        /\ a.history = cpu.history /\ a.gpu_temps = cpu.gpu_temps
        /\ a.core_usage = cpu.core_usage /\ a.core_times = cpu.core_times
        /\ a.core_history = cpu.core_history
        /\ a.source = cpu.source /\ a.temp_cpu = cpu.temp_cpu /\ a.temp_gpu = cpu.temp_gpu
    BY DEF CpuInv, CpuKept, CpuFields
  <2> HIDE DEF a
  <2>2. /\ CpuFields(b)
        /\ b.usage = a.usage /\ b.temperature = a.temperature /\ b.times = a.times
        /\ b.history \in {a.history, <<>>} /\ b.cpu_temps \in {a.cpu_temps, <<>>}
        /\ b.gpu_temps \in {a.gpu_temps, <<>>}
        /\ b.core_usage = cpu.core_usage /\ b.core_times = cpu.core_times
        /\ b.core_history = cpu.core_history
        /\ b.source = cpu.source /\ b.temp_cpu = cpu.temp_cpu /\ b.temp_gpu = cpu.temp_gpu
    BY <2>1 DEF CpuFields
  <2> HIDE DEF b
  <2>3. /\ CpuFields(d)
        /\ d.usage = b.usage /\ d.temperature = b.temperature /\ d.times = b.times
        /\ d.history = b.history /\ d.cpu_temps = b.cpu_temps /\ d.gpu_temps = b.gpu_temps
        /\ d.core_usage \in {cpu.core_usage, NotRetained}
        /\ d.core_times \in {cpu.core_times, None} /\ ("CpuCores" \in gone => d.core_times = None)
        /\ d.core_history = cpu.core_history
        /\ d.source = cpu.source /\ d.temp_cpu = cpu.temp_cpu /\ d.temp_gpu = cpu.temp_gpu
    BY <2>2 DEF CpuFields
  <2>4. r = IF "CpuCoreHistory" \notin gone THEN d ELSE [d EXCEPT !.core_history = <<>>]
    BY DEF InvalidateCpu, a, b
  <2> HIDE DEF d, r
  <2>5. /\ CpuFields(r)
        /\ r.usage = d.usage /\ r.temperature = d.temperature /\ r.times = d.times
        /\ r.history = d.history /\ r.cpu_temps = d.cpu_temps /\ r.gpu_temps = d.gpu_temps
        /\ r.core_usage = d.core_usage /\ r.core_times = d.core_times
        /\ r.core_history \in {cpu.core_history, <<>>}
        /\ r.source = cpu.source /\ r.temp_cpu = cpu.temp_cpu /\ r.temp_gpu = cpu.temp_gpu
    BY <2>3, <2>4 DEF CpuFields
  <2> QED BY <2>1, <2>2, <2>3, <2>5
<1> HIDE DEF r
<1>4. /\ {"temp", "cpu_temps"} \subseteq DOMAIN shown
      /\ shown.temp \in {cpuShown.temp, None} /\ shown.cpu_temps \in {cpuShown.cpu_temps, <<>>}
      /\ "Cpu" \in gone => shown.temp = None /\ shown.cpu_temps = <<>>
  BY DEF InvalidateShownCpu
<1> HIDE DEF shown
<1>5. \A S : NotRetained \in Retained(S) /\ None \in Maybe(S) /\ <<>> \in Seq(S)
  BY NothingRetained DEF Retained
<1>6. /\ CpuFields(r)
      /\ r.usage \in Retained(Usages)
      /\ r.times \in Maybe(Reads) /\ (r.times # None => "cpu" \in wanted)
      /\ r.history \in Seq(Drawn(Usages))
      /\ r.temperature \in Retained(Heats(r.source))
      /\ r.cpu_temps \in Seq(Heats(r.temp_cpu))
      /\ r.gpu_temps \in Seq(HeatsOfCard(r.temp_gpu))
      /\ r.core_usage \in Retained(CoreUsages)
      /\ r.core_times \in Maybe(Reads) /\ (r.core_times # None => "cores" \in wanted)
  BY <1>2, <1>3, <1>5 DEF CpuInv, CpuKept, UsageKept, HeatKept, CoresKept
<1>7. \A core \in DOMAIN r.core_history : r.core_history[core] \in Seq(Drawn(CoreUsages))
  BY <1>3 DEF CpuInv, CpuKept, CoresKept
<1>8. /\ shown.temp \in Maybe(Heats(hw.temp)) /\ shown.cpu_temps \in Seq(Heats(hw.temp))
      /\ shown.temp # None \/ shown.cpu_temps # <<>> => "cpu" \in wanted
  BY <1>2, <1>4, <1>5 DEF CpuInv, CpuDisplayed
<1>9. gpuTemp' \in Maybe(HeatsOfCard(hw.gpu))
  BY <1>5 DEF CpuInv, CpuTypes
<1> HIDE DEF old, new
<1>10. CpuTypes'
  BY <1>1, <1>9 DEF CpuInv, CpuTypes, Maybe, HeatsOfCard, CpuHardware
<1> QED BY <1>1, <1>4, <1>6, <1>7, <1>8, <1>10 DEF CpuInv, CpuKept, CpuFields, UsageKept, HeatKept, CoresKept,
     CpuDisplayed, Usages, CoreUsages, Drawn, Reads, Retained, Heats, HeatsOfCard

(* What was kept is kept over a new gap, when no counter is kept over it, and *)
(* as time goes on.                                                           *)
LEMMA CpuKeptLater ==
  ASSUME CpuInv, NEW c, CpuKept(c), UNCHANGED <<cpuHw, cpuWanted, gpuTemp>>,
         \/ cpuNow' \in Nat /\ cpuNow <= cpuNow' /\ cpuGap' = cpuGap
         \/ cpuNow' = cpuNow /\ cpuGap' = cpuNow /\ c.times = None /\ c.core_times = None
  PROVE  /\ {"usage", "times", "history", "core_usage", "core_times", "core_history"} \subseteq DOMAIN c
         /\ c.usage \in Retained(Usages')
         /\ c.times \in Maybe(Reads')
         /\ c.history \in Seq(Drawn(Usages'))
         /\ c.core_usage \in Retained(CoreUsages')
         /\ c.core_times \in Maybe(Reads')
         /\ \A core \in DOMAIN c.core_history : c.core_history[core] \in Seq(Drawn(CoreUsages'))
<1>1. cpuNow \in Nat /\ cpuGap \in 0..cpuNow /\ cpuNow' \in Nat /\ cpuGap' \in 0..cpuNow'
  BY DEF CpuInv, CpuTypes
<1>2. Usages \subseteq Usages'
  <2> SUFFICES ASSUME NEW s \in Usages PROVE s \in Usages'
    OBVIOUS
  <2>1. s \in [value : [since : Nat], at : 0..cpuNow] /\ s.value.since < s.at
        /\ (s.at > cpuGap => s.value.since >= cpuGap)
    BY DEF Usages
  <2>2. s.at \in 0..cpuNow /\ s.at \in 0..cpuNow' /\ s.value.since \in Nat
    BY <1>1, <2>1
  <2>3. s.at > cpuGap' => s.value.since >= cpuGap'
    BY <1>1, <2>1, <2>2
  <2>4. s \in [value : [since : Nat], at : 0..cpuNow']
    BY <2>1, <2>2
  <2> QED BY <2>1, <2>3, <2>4 DEF Usages
<1>3. CoreUsages \subseteq CoreUsages'
  <2> SUFFICES ASSUME NEW s \in CoreUsages PROVE s \in CoreUsages'
    OBVIOUS
  <2>1. s \in [value : [since : Nat, first : Nat, second : Nat], at : 0..cpuNow] /\ s.value.since < s.at
        /\ (s.at > cpuGap => s.value.since >= cpuGap) /\ s.value.first = s.value.second
    BY DEF CoreUsages
  <2>2. s.at \in 0..cpuNow /\ s.at \in 0..cpuNow' /\ s.value.since \in Nat
    BY <1>1, <2>1
  <2>3. s.at > cpuGap' => s.value.since >= cpuGap'
    BY <1>1, <2>1, <2>2
  <2>4. s \in [value : [since : Nat, first : Nat, second : Nat], at : 0..cpuNow']
    BY <2>1, <2>2
  <2> QED BY <2>1, <2>3, <2>4 DEF CoreUsages
<1>4. ASSUME NEW m \in Maybe(Reads), m = None \/ (cpuGap' = cpuGap /\ cpuNow <= cpuNow')
      PROVE  m \in Maybe(Reads')
  <2>1. CASE m = None
    BY <2>1, NothingRetained
  <2>2. CASE m # None
    <3>1. Reads \subseteq Reads'
      BY <1>1, <1>4, <2>2 DEF Reads
    <3> QED BY <1>4, <3>1, MaybeMonotonic
  <2> QED BY <2>1, <2>2
<1>5. c.times \in Maybe(Reads') /\ c.core_times \in Maybe(Reads')
  <2>1. c.times \in Maybe(Reads) /\ c.core_times \in Maybe(Reads)
    BY DEF CpuKept, UsageKept, CoresKept
  <2>2. CASE cpuGap' = cpuGap /\ cpuNow <= cpuNow'
    BY <1>4, <2>1, <2>2
  <2>3. CASE c.times = None /\ c.core_times = None
    BY <2>3, NothingRetained
  <2> QED BY <2>2, <2>3
<1>6. ASSUME NEW S, NEW T, S \subseteq T
      PROVE  Drawn(S) \subseteq Drawn(T) /\ Retained(S) \subseteq Retained(T)
             /\ Seq(Drawn(S)) \subseteq Seq(Drawn(T))
  <2>1. Drawn(S) \subseteq Drawn(T)
    BY <1>6 DEF Drawn
  <2>2. Maybe(S) \subseteq Maybe(T)
    BY <1>6, MaybeMonotonic
  <2> QED BY <2>1, <2>2, SeriesMonotonic DEF Retained
<1>7. /\ Retained(Usages) \subseteq Retained(Usages') /\ Retained(CoreUsages) \subseteq Retained(CoreUsages')
      /\ Seq(Drawn(Usages)) \subseteq Seq(Drawn(Usages'))
      /\ Seq(Drawn(CoreUsages)) \subseteq Seq(Drawn(CoreUsages'))
  BY <1>2, <1>3, <1>6
<1> QED BY <1>5, <1>7 DEF CpuKept, CpuFields, UsageKept, CoresKept

(* reset_counter_baseline, and the time.                                      *)
LEMMA CpuAgingKeeps ==
  ASSUME CpuInv, ResetCpuBaseline \/ CpuTime
  PROVE  CpuInv'
<1>1. /\ UNCHANGED <<cpuShown, cpuHw, cpuWanted, gpuTemp, stat>>
      /\ cpuNow' \in Nat /\ cpuGap' \in 0..cpuNow'
      /\ \/ cpuNow' \in Nat /\ cpuNow <= cpuNow' /\ cpuGap' = cpuGap /\ cpu' = cpu
         \/ cpuNow' = cpuNow /\ cpuGap' = cpuNow /\ cpu'.times = None /\ cpu'.core_times = None
  <2>1. CASE CpuTime
    BY <2>1 DEF CpuTime, CpuInv, CpuTypes
  <2>2. CASE ResetCpuBaseline
    <3>1. CpuFields(cpu) /\ (cpu.times # None => "cpu" \in cpuWanted) /\ (cpu.core_times # None => "cores" \in cpuWanted)
      BY DEF CpuInv, CpuKept, UsageKept, CoresKept
    <3>2. ("cpu" \in cpuWanted => CpuDemanded("Cpu")) /\ ("cores" \in cpuWanted => CpuDemanded("CpuCores"))
      BY CpuJobsDemanded DEF CpuDemanded
    <3> QED BY <2>2, <3>1, <3>2 DEF ResetCpuBaseline, CpuFields, CpuInv, CpuTypes
  <2> QED BY <2>1, <2>2
<1>2. CpuKept(cpu')
  <2>1. CASE cpu' = cpu
    BY <2>1 DEF CpuInv
  <2>2. CASE ResetCpuBaseline
    <3>1. /\ CpuFields(cpu') /\ HeatKept(cpu')
          /\ cpu'.usage = cpu.usage /\ cpu'.history = cpu.history
          /\ cpu'.times \in {None, cpu.times}
          /\ cpu'.core_usage = cpu.core_usage /\ cpu'.core_history = cpu.core_history
          /\ cpu'.core_times \in {None, cpu.core_times}
      BY <2>2 DEF ResetCpuBaseline, CpuInv, CpuKept, CpuFields, HeatKept
    <3> QED BY <3>1, NothingRetained DEF CpuInv, CpuKept, UsageKept, CoresKept
  <2> QED BY <2>1, <2>2 DEF CpuTime
<1>3. /\ CpuFields(cpu') /\ HeatKept(cpu')
      /\ cpu'.usage \in Retained(Usages')
      /\ cpu'.times \in Maybe(Reads')
      /\ cpu'.history \in Seq(Drawn(Usages'))
      /\ cpu'.core_usage \in Retained(CoreUsages')
      /\ cpu'.core_times \in Maybe(Reads')
      /\ \A core \in DOMAIN cpu'.core_history : cpu'.core_history[core] \in Seq(Drawn(CoreUsages'))
      /\ cpu'.times # None => "cpu" \in cpuWanted
      /\ cpu'.core_times # None => "cores" \in cpuWanted
  <2> DEFINE c == cpu'
  <2>1. CpuKept(c) /\ CpuFields(c) /\ HeatKept(c) /\ (c.times # None => "cpu" \in cpuWanted)
        /\ (c.core_times # None => "cores" \in cpuWanted)
    BY <1>2 DEF CpuKept, UsageKept, CoresKept
  <2>2. \/ cpuNow' \in Nat /\ cpuNow <= cpuNow' /\ cpuGap' = cpuGap
        \/ cpuNow' = cpuNow /\ cpuGap' = cpuNow /\ c.times = None /\ c.core_times = None
    BY <1>1
  <2>3. UNCHANGED <<cpuHw, cpuWanted, gpuTemp>>
    BY <1>1
  <2> HIDE DEF c
  <2>4. /\ c.usage \in Retained(Usages')
         /\ c.times \in Maybe(Reads')
         /\ c.history \in Seq(Drawn(Usages'))
         /\ c.core_usage \in Retained(CoreUsages')
         /\ c.core_times \in Maybe(Reads')
         /\ \A core \in DOMAIN c.core_history : c.core_history[core] \in Seq(Drawn(CoreUsages'))
    BY <2>1, <2>2, <2>3, CpuKeptLater
  <2> QED BY <2>1, <2>4 DEF c
<1> QED BY <1>1, <1>3 DEF CpuInv, CpuTypes, CpuKept, UsageKept, HeatKept, CoresKept, CpuDisplayed,
           CpuFields, Drawn, Retained, Heats, HeatsOfCard

(* Every step of the processor keeps the invariant.                           *)
LEMMA CpuKeeps ==
  ASSUME CpuAssumption, CpuInv, [CpuNext]_cpuVars
  PROVE  CpuInv'
<1>1. CASE GpuMeasured
  <2>1. cpuHw.gpu \in Maybe(HeatsOfCard(cpuHw.gpu))
    BY CpuHardwareIs, MaybeEither DEF CpuInv, Maybe, HeatsOfCard
  <2> QED BY <1>1, <2>1 DEF GpuMeasured, CpuInv, CpuTypes, CpuKept, UsageKept, HeatKept, CoresKept,
          CpuDisplayed, CpuFields, Usages, CoreUsages, Drawn, Reads, Retained, Heats, HeatsOfCard
<1>2. CASE CoresChange
  <2>1. "cores" \in DOMAIN stat' /\ stat'.cores \in Nat
    BY <1>2 DEF CoresChange
  <2> QED BY <1>2, <2>1 DEF CoresChange, CpuInv, CpuTypes, CpuKept, UsageKept, HeatKept, CoresKept,
          CpuDisplayed, CpuFields, Usages, CoreUsages, Drawn, Reads, Retained, Heats, HeatsOfCard
<1>3. ASSUME NEW hw \in CpuHardware, CpuDiscovered(hw) PROVE CpuInv'
  <2>1. "cores" \in DOMAIN stat' /\ stat'.cores = stat.cores
    BY <1>3 DEF CpuDiscovered, CpuInv, CpuTypes
  <2>2. CpuRejob(hw, cpuWanted) /\ UNCHANGED <<cpuNow, cpuGap>>
        /\ (gpuTemp' = None \/ (gpuTemp' = gpuTemp /\ hw.gpu = cpuHw.gpu))
    BY <1>3 DEF CpuDiscovered
  <2> QED BY <2>1, <2>2, CpuRejobKeeps
<1>4. ASSUME NEW wanted, CpuDemand(wanted) PROVE CpuInv'
  <2>1. "cores" \in DOMAIN stat' /\ stat'.cores = stat.cores /\ cpuHw \in CpuHardware
    BY <1>4 DEF CpuDemand, CpuInv, CpuTypes
  <2>2. CpuRejob(cpuHw, wanted) /\ UNCHANGED <<cpuNow, cpuGap>> /\ gpuTemp' = None
    BY <1>4 DEF CpuDemand
  <2> QED BY <2>1, <2>2, CpuRejobKeeps
<1>5. CASE UNCHANGED cpuVars
  BY <1>5 DEF cpuVars, CpuInv, CpuTypes, CpuKept, UsageKept, HeatKept, CoresKept,
     CpuDisplayed, CpuFields, Usages, CoreUsages, Drawn, Reads, Retained, Heats, HeatsOfCard
<1> QED BY <1>1, <1>2, <1>3, <1>4, <1>5, RunCpuKeeps, RunCpuHistoryKeeps, RunCpuCoresKeeps,
        RunCpuCoreHistoryKeeps, CpuAgingKeeps DEF CpuNext

(* What the invariant says of what is retained and drawn.                     *)
LEMMA CpuHolds == CpuInv => CpuSamplesHold
<1> SUFFICES ASSUME CpuInv PROVE CpuSamplesHold
  OBVIOUS
<1>1. ASSUME NEW S, NEW r \in Retained(S) PROVE Values(r) \subseteq S
  <2>1. r.latest \in Maybe(S) /\ r.previous \in Maybe(S)
    BY DEF Retained
  <2>2. ASSUME NEW m \in Maybe(S), NEW i \in DOMAIN m PROVE m[i] \in S
    <3>1. m = <<>> \/ \E x \in S : m = <<x>>
      BY DEF Maybe, None, Some
    <3> QED BY <3>1
  <2> QED BY <2>1, <2>2 DEF Values
<1>2. TemperaturesBelong
  <2>1. \A p \in DOMAIN cpu.cpu_temps : Some(cpu.cpu_temps[p].value) = cpu.temp_cpu
    <3>1. \A p \in DOMAIN cpu.cpu_temps : cpu.cpu_temps[p] \in Heats(cpu.temp_cpu)
      BY DEF CpuInv, CpuKept, HeatKept
    <3> QED BY <3>1 DEF Heats
  <2>2. \A p \in DOMAIN cpu.gpu_temps : Some(cpu.gpu_temps[p]) = cpu.temp_gpu
    <3>1. \A p \in DOMAIN cpu.gpu_temps : cpu.gpu_temps[p] \in HeatsOfCard(cpu.temp_gpu)
      BY DEF CpuInv, CpuKept, HeatKept
    <3> QED BY <3>1 DEF HeatsOfCard
  <2>3. cpuShown.temp # None => Some(cpuShown.temp[1].value) = cpuHw.temp
    <3>1. cpuShown.temp \in Maybe(Heats(cpuHw.temp))
      BY DEF CpuInv, CpuDisplayed
    <3>2. cpuShown.temp # None => cpuShown.temp[1] \in Heats(cpuHw.temp)
      BY <3>1, MaybeEither
    <3> QED BY <3>2 DEF Heats
  <2>4. \A p \in DOMAIN cpuShown.cpu_temps : Some(cpuShown.cpu_temps[p].value) = cpuHw.temp
    <3>1. \A p \in DOMAIN cpuShown.cpu_temps : cpuShown.cpu_temps[p] \in Heats(cpuHw.temp)
      BY DEF CpuInv, CpuDisplayed
    <3> QED BY <3>1 DEF Heats
  <2> QED BY <2>1, <2>2, <2>3, <2>4 DEF TemperaturesBelong
<1>3. CpuUsageIsMeasured
  <2> DEFINE series == {cpu.history} \cup {cpu.core_history[core] : core \in DOMAIN cpu.core_history}
             drawn == UNION {{h[p] : p \in DOMAIN h} : h \in series}
  <2>1. Values(cpu.usage) \subseteq Usages /\ Values(cpu.core_usage) \subseteq CoreUsages
    BY <1>1 DEF CpuInv, CpuKept, UsageKept, CoresKept
  <2>2. \A h \in series : h \in Seq(Drawn(Usages)) \/ h \in Seq(Drawn(CoreUsages))
    BY DEF CpuInv, CpuKept, UsageKept, CoresKept
  <2> HIDE DEF series
  <2>3. \A h \in series : \A p \in DOMAIN h : h[p] \in Drawn(Usages) \cup Drawn(CoreUsages)
    <3> SUFFICES ASSUME NEW h \in series, NEW p \in DOMAIN h
                 PROVE  h[p] \in Drawn(Usages) \cup Drawn(CoreUsages)
      OBVIOUS
    <3>1. CASE h \in Seq(Drawn(Usages))
      BY <3>1
    <3>2. CASE h \in Seq(Drawn(CoreUsages))
      BY <3>2
    <3> QED BY <2>2, <3>1, <3>2
  <2>4. \A p \in drawn : p \in Drawn(Usages) \cup Drawn(CoreUsages)
    BY <2>3
  <2> HIDE DEF drawn
  <2>5. \A p \in drawn : p.sample \in Usages \cup CoreUsages /\ p.sample.at <= p.deadline
    BY <2>4 DEF Drawn
  <2>6. \A s \in Usages \cup CoreUsages : s.value.since < s.at /\ (s.at > cpuGap => s.value.since >= cpuGap)
    BY DEF Usages, CoreUsages
  <2>7. \A s \in Values(cpu.core_usage) : s.value.first = s.value.second
    BY <2>1 DEF CoreUsages
  <2>8. \A s \in Values(cpu.usage) \cup Values(cpu.core_usage) \cup {p.sample : p \in drawn} :
          s.value.since < s.at /\ (s.at > cpuGap => s.value.since >= cpuGap)
    BY <2>1, <2>5, <2>6
  <2>9. \A p \in drawn : p.sample.at <= p.deadline
    BY <2>5
  <2> QED BY <2>7, <2>8, <2>9 DEF CpuUsageIsMeasured, drawn, series
<1> QED BY <1>2, <1>3 DEF CpuSamplesHold

(* What is shown and drawn of the processor was measured, and is of its       *)
(* sensor and its card, for every machine and every order of runs.            *)
LEMMA CpuIsMeasured == CpuSpec => []CpuSamplesHold
<1>1. CpuInv /\ [CpuNext]_cpuVars => CpuInv'
  BY CpuKeeps, CpuAssumption
<1> QED BY <1>1, CpuInitKeeps, CpuHolds, PTL DEF CpuSpec

-----------------------------------------------------------------------------
(* The memory.                                                                *)

(* A factor keeps an order.                                                   *)
LEMMA ScaledOrder ==
  ASSUME NEW a \in Int, NEW b \in Int, NEW d \in Nat
  PROVE  (a <= b => a * d <= b * d) /\ (a < b => a * d + d <= b * d)
<1>1. (b - a) * d = b * d - a * d
  OBVIOUS
<1>2. a <= b => (b - a) * d >= 0
  OBVIOUS
<1>3. a < b => (b - a - 1) * d >= 0 /\ (b - a - 1) * d = b * d - a * d - d
  OBVIOUS
<1> QED BY <1>1, <1>2, <1>3

(* The nearest quotient is no further away than half of the divisor.          *)
LEMMA NearestQuotient ==
  ASSUME NEW n \in Nat, NEW d \in Nat, d > 0
  PROVE  LET q == RoundHalfEven(n, d)
         IN  /\ q \in Nat
             /\ 2 * (q * d - n) \in -d..d
             /\ \A bound \in Nat : n <= bound * d => q <= bound
<1> DEFINE q == n \div d
           r == n % d
           rounded == RoundHalfEven(n, d)
<1>1. q \in Nat /\ r \in Nat /\ r < d /\ n = q * d + r
  OBVIOUS
<1>2. rounded = q \/ rounded = q + 1
  BY DEF RoundHalfEven
<1>3. rounded = q + 1 => 2 * r >= d
  BY <1>1 DEF RoundHalfEven
<1>4. rounded = q => 2 * r <= d
  BY <1>1 DEF RoundHalfEven
<1> HIDE DEF q, r, rounded
<1>5. (q + 1) * d = q * d + d
  BY <1>1
<1>6. 2 * (rounded * d - n) \in -d..d
  <2>1. CASE rounded = q
    <3>1. rounded * d - n = -r
      BY <1>1, <2>1
    <3> QED BY <1>1, <1>4, <2>1, <3>1
  <2>2. CASE rounded = q + 1
    <3>1. rounded * d - n = d - r
      BY <1>1, <1>5, <2>2
    <3> QED BY <1>1, <1>3, <2>2, <3>1
  <2> QED BY <1>2, <2>1, <2>2
<1>7. ASSUME NEW bound \in Nat, n <= bound * d PROVE rounded <= bound
  <2>1. ~(bound < q)
    <3> SUFFICES ASSUME bound < q PROVE FALSE
      OBVIOUS
    <3>1. bound * d + d <= q * d
      BY <1>1, ScaledOrder
    <3> QED BY <1>1, <1>7, <3>1
  <2>2. CASE rounded = q
    BY <1>1, <2>1, <2>2
  <2>3. CASE rounded = q + 1
    <3>1. q # bound
      <4> SUFFICES ASSUME q = bound PROVE FALSE
        OBVIOUS
      <4>1. r = 0
        BY <1>1, <1>7
      <4> QED BY <1>3, <2>3, <4>1
    <3> QED BY <1>1, <2>1, <2>3, <3>1
  <2> QED BY <1>2, <2>2, <2>3
<1>8. rounded \in Nat
  BY <1>1, <1>2
<1> QED BY <1>6, <1>7, <1>8 DEF rounded

(* format_percent and its source: a share of a whole is a percentage.         *)
LEMMA PercentOfShare ==
  ASSUME NEW total \in Nat, NEW used \in 0..total
  PROVE  RoundedPercent(used, total) \in 0..100
<1>1. CASE total = 0
  BY <1>1 DEF RoundedPercent
<1>2. CASE total > 0
  <2> DEFINE q == RoundHalfEven(1000 * used, total)
  <2>1. 1000 * used \in Nat /\ 1000 * used <= 1000 * total
    OBVIOUS
  <2>2. q \in Nat /\ q <= 1000
    BY <1>2, <2>1, NearestQuotient
  <2>3. RoundedPercent(used, total) = q \div 10
    BY <1>2 DEF RoundedPercent
  <2> HIDE DEF q
  <2> QED BY <2>2, <2>3
<1> QED BY <1>1, <1>2

(* An amount of the files.                                                    *)
LEMMA AmountsOf ==
  ASSUME MemoryAssumption, NEW info \in MemInfos
  PROVE  /\ \A field \in MemoryFields : OrZero(info[field]) \in Nat
         /\ \A field \in MemoryFields : info[field] # None => info[field][1] \in Nat
  BY DEF MemoryAssumption, OrZero

(* calculate_available_mem: in halves, the reference's.                       *)
LEMMA EstimateIsTheReference ==
  ASSUME MemoryAssumption, NEW info \in MemInfos,
         None \notin {info.total, info.free, info.pagecache, info.reclaimable, info.low}
  PROVE  CalculateAvailable(info) = PsutilAvailable(info)
<1>1. info.free[1] \in Nat /\ info.pagecache[1] \in Nat /\ info.reclaimable[1] \in Nat /\ info.low[1] \in Nat
  BY AmountsOf DEF MemoryFields
<1> DEFINE free == info.free[1]
           low == info.low[1]
           pages == info.pagecache[1]
           slabs == info.reclaimable[1]
           kept(cache) == 2 * cache - Least(cache, 2 * low)
<1>2. CalculateAvailable(info) = TruncDiv2(2 * free - 2 * low + HalfScaledContribution(pages, low)
                                           + HalfScaledContribution(slabs, low))
  BY DEF CalculateAvailable
<1>3. PsutilAvailable(info) = TruncDiv2(2 * (free - low) + kept(pages) + kept(slabs))
  BY DEF PsutilAvailable
<1>4. HalfScaledContribution(pages, low) = kept(pages) /\ HalfScaledContribution(slabs, low) = kept(slabs)
      /\ kept(pages) \in Int /\ kept(slabs) \in Int
  BY <1>1 DEF HalfScaledContribution, Least
<1> HIDE DEF free, low, pages, slabs, kept
<1>5. 2 * free - 2 * low + kept(pages) + kept(slabs) = 2 * (free - low) + kept(pages) + kept(slabs)
  BY <1>1, <1>4 DEF free, low
<1> QED BY <1>2, <1>3, <1>4, <1>5

(* What is used is a share of the total, whatever the file says.              *)
LEMMA UsedIsAShare ==
  ASSUME MemoryAssumption, NEW info \in MemInfos, info.total # None, info.free # None
  PROVE  info.total[1] \in Nat /\ MemoryUsed(info) \in 0..info.total[1]
<1>1. info.total[1] \in Nat /\ info.free[1] \in Nat
  BY AmountsOf DEF MemoryFields
<1>2. CalculateAvailable(info) \in Int
  <2>1. \A v \in Int : TruncDiv2(v) \in Int
    BY DEF TruncDiv2
  <2>2. CASE None \in {info.pagecache, info.reclaimable, info.low}
    <3>1. OrZero(info.cached) \in Nat
      BY AmountsOf DEF MemoryFields
    <3> QED BY <1>1, <2>2, <3>1 DEF CalculateAvailable
  <2>3. CASE None \notin {info.pagecache, info.reclaimable, info.low}
    <3> DEFINE low == info.low[1]
    <3>1. info.pagecache[1] \in Nat /\ info.reclaimable[1] \in Nat /\ low \in Nat
      BY <2>3, AmountsOf DEF MemoryFields
    <3>2. \A v \in Nat : HalfScaledContribution(v, low) \in Int
      BY <3>1 DEF HalfScaledContribution
    <3>3. 2 * info.free[1] - 2 * low + HalfScaledContribution(info.pagecache[1], low)
                     + HalfScaledContribution(info.reclaimable[1], low) \in Int
      BY <1>1, <3>1, <3>2
    <3> QED BY <2>1, <2>3, <3>3 DEF CalculateAvailable
  <2> QED BY <2>2, <2>3
<1>3. ResolvedAvailable(info) \in Int
  <2>1. OrZero(info.available) # 0 => info.available[1] \in Nat
    BY AmountsOf DEF MemoryFields, OrZero
  <2> QED BY <1>2, <2>1 DEF ResolvedAvailable
<1> DEFINE available == ClampAvailable(ResolvedAvailable(info), info)
<1>4. available \in Nat
  BY <1>1, <1>3 DEF ClampAvailable
<1>5. MemoryUsed(info) = IF available > info.total[1] THEN 0 ELSE info.total[1] - available
  BY DEF MemoryUsed
<1> HIDE DEF available
<1> QED BY <1>1, <1>4, <1>5

(* What is measured is a percentage, of memory and of swap.                   *)
LEMMA PercentagesMeasured ==
  ASSUME MemoryAssumption, NEW info \in MemInfos
  PROVE  /\ \/ ReadMemoryUsage(info) = Failed
            \/ \E p \in 0..100 : ReadMemoryUsage(info) = Value([percent |-> p])
         /\ \/ ReadSwapUsage(info) \in {Failed, Absent}
            \/ \E p \in 0..100 : ReadSwapUsage(info) = Value([percent |-> p])
<1>1. \/ ReadMemoryUsage(info) = Failed
      \/ \E p \in 0..100 : ReadMemoryUsage(info) = Value([percent |-> p])
  <2>1. CASE info.total = None \/ info.free = None
    BY <2>1 DEF ReadMemoryUsage
  <2>2. CASE ~(info.total = None \/ info.free = None)
    <3>1. ReadMemoryUsage(info) = Value([percent |-> RoundedPercent(MemoryUsed(info), info.total[1])])
      BY <2>2 DEF ReadMemoryUsage
    <3>2. RoundedPercent(MemoryUsed(info), info.total[1]) \in 0..100
      BY <2>2, UsedIsAShare, PercentOfShare
    <3> QED BY <3>1, <3>2
  <2> QED BY <2>1, <2>2
<1>2. \/ ReadSwapUsage(info) \in {Failed, Absent}
      \/ \E p \in 0..100 : ReadSwapUsage(info) = Value([percent |-> p])
  <2>1. CASE info.swap = None \/ info.swap[1] = 0 \/ info.swapFree = None
    BY <2>1 DEF ReadSwapUsage
  <2>2. CASE ~(info.swap = None \/ info.swap[1] = 0 \/ info.swapFree = None)
    <3> DEFINE free == Least(info.swapFree[1], info.swap[1])
    <3>1. info.swap[1] \in Nat /\ info.swapFree[1] \in Nat
      BY <2>2, AmountsOf DEF MemoryFields
    <3>2. info.swap[1] - free \in 0..info.swap[1]
      BY <3>1 DEF Least
    <3>3. ReadSwapUsage(info) = Value([percent |-> RoundedPercent(info.swap[1] - free, info.swap[1])])
      BY <2>2 DEF ReadSwapUsage
    <3> HIDE DEF free
    <3>4. RoundedPercent(info.swap[1] - free, info.swap[1]) \in 0..100
      BY <3>1, <3>2, PercentOfShare
    <3> QED BY <3>3, <3>4
  <2> QED BY <2>1, <2>2
<1> QED BY <1>1, <1>2

(* A percentage and when it was measured; a point of the history.             *)
Percents == [value : [percent : 0..100], at : Nat]

MemoryPoints == {p \in [sample : Percents, due : Nat] : p.sample.at <= p.due}

(* The inductive invariant: what is on display is what is retained, and what  *)
(* is drawn was measured by its deadline.                                     *)
MemoryInv ==
  /\ meminfo \in MemInfos /\ memoryNow \in Nat
  /\ memory \in [usage : [latest : Maybe(Percents), previous : Maybe(Percents)],
                 swap : [latest : Maybe(Percents), previous : Maybe(Percents)],
                 history : Seq(MemoryPoints)]
  /\ memoryShown \in [usage : Maybe(Percents), swap : Maybe(Percents), history : Seq(MemoryPoints)]
  /\ memoryShown.usage # None => memoryShown.usage = memory.usage.latest
  /\ memoryShown.swap = memory.swap.latest

(* run_memory_job.                                                            *)
LEMMA RunMemoryKeeps ==
  ASSUME MemoryAssumption, MemoryInv, RunMemory
  PROVE  MemoryInv'
<1> DEFINE used == ReadMemoryUsage(meminfo)
           swapped == ReadSwapUsage(meminfo)
           Records == [latest : Maybe(Percents), previous : Maybe(Percents)]
           u == CommitAttempt(memory.usage, used, memoryNow)
           s == IF swapWanted THEN CommitAttempt(memory.swap, swapped, memoryNow) ELSE NotRetained
<1>1. /\ meminfo \in MemInfos /\ memoryNow \in Nat
      /\ memory.usage \in Records /\ memory.swap \in Records
      /\ memory.history \in Seq(MemoryPoints) /\ memoryShown.history \in Seq(MemoryPoints)
      /\ memoryShown.usage \in Maybe(Percents)
  BY DEF MemoryInv
<1>2. memory' = [usage |-> u, swap |-> s, history |-> memory.history]
  <2>1. memory' = [memory EXCEPT !.usage = CommitAttempt(memory.usage, used, memoryNow),
                                 !.swap = IF swapWanted THEN CommitAttempt(memory.swap, swapped, memoryNow)
                                          ELSE NotRetained]
    BY DEF RunMemory
  <2>2. memory' = [memory EXCEPT !.usage = u, !.swap = s]
    BY <2>1
  <2> HIDE DEF u, s, used, swapped
  <2> QED BY <2>2 DEF MemoryInv
<1>3. \A p \in 0..100 : Sample([percent |-> p], memoryNow) \in Percents
  BY <1>1 DEF Sample, Percents
<1>4. used = Failed \/ \E v : used = Value(v) /\ Sample(v, memoryNow) \in Percents
  BY <1>1, <1>3, PercentagesMeasured
<1>5. swapped \in {Failed, Absent} \/ \E v : swapped = Value(v) /\ Sample(v, memoryNow) \in Percents
  BY <1>1, <1>3, PercentagesMeasured
<1>6. used = Failed => u = memory.usage
  BY DEF CommitAttempt, RecordFailure, Failed
<1>7. used # Failed => u.latest # None
  <2> SUFFICES ASSUME NEW v, used = Value(v) PROVE u.latest # None
    BY <1>4
  <2> HIDE DEF used
  <2> QED BY SomeIsNotNone DEF CommitAttempt, RecordValue, Value
<1> HIDE DEF used, swapped
<1>8. u \in Records
  BY <1>1, <1>4, CommitRecords
<1>9. s \in Records
  <2>1. CommitAttempt(memory.swap, swapped, memoryNow) \in Records
    BY <1>1, <1>5, CommitRecords
  <2> QED BY <2>1, NothingRetained
<1> HIDE DEF u, s
<1>10. memoryShown' = [usage |-> IF u.latest = None THEN memoryShown.usage ELSE u.latest,
                       swap |-> s.latest, history |-> memoryShown.history]
  <2>1. memory'.usage = u /\ memory'.swap = s
    BY <1>2
  <2>2. memoryShown' = [memoryShown EXCEPT !.usage = IF u.latest = None THEN memoryShown.usage ELSE u.latest,
                                           !.swap = s.latest]
    <3>1. memoryShown' = [memoryShown EXCEPT
             !.usage = IF memory'.usage.latest = None THEN memoryShown.usage ELSE memory'.usage.latest,
             !.swap = memory'.swap.latest]
      BY DEF RunMemory
    <3> QED BY <2>1, <3>1
  <2> QED BY <2>2 DEF MemoryInv
<1>11. u.latest = None => memoryShown.usage = None
  BY <1>6, <1>7 DEF MemoryInv
<1>12. UNCHANGED <<meminfo, memoryNow>>
  BY DEF RunMemory
<1>13. u.latest \in Maybe(Percents) /\ s.latest \in Maybe(Percents)
  BY <1>8, <1>9
<1>14. memory' \in [usage : Records, swap : Records, history : Seq(MemoryPoints)]
  BY <1>1, <1>2, <1>8, <1>9
<1>15. memoryShown' \in [usage : Maybe(Percents), swap : Maybe(Percents), history : Seq(MemoryPoints)]
  BY <1>1, <1>10, <1>13
<1>16. /\ memory'.usage = u /\ memory'.swap = s /\ memoryShown'.swap = s.latest
       /\ memoryShown'.usage = IF u.latest = None THEN memoryShown.usage ELSE u.latest
  BY <1>2, <1>10
<1> QED BY <1>1, <1>11, <1>12, <1>14, <1>15, <1>16 DEF MemoryInv

(* run_memory_history_job.                                                    *)
LEMMA RunMemoryHistoryKeeps ==
  ASSUME MemoryAssumption, MemoryInv, NEW deadline \in 0..memoryNow, RunMemoryHistory(deadline)
  PROVE  MemoryInv'
<1> DEFINE found == SampleAtOrBefore(memory.usage, deadline)
           point == [sample |-> found[1], due |-> deadline]
           h == Trimmed(Append(memory.history, point), MemoryLength)
<1>1. /\ found # None /\ memory' = [memory EXCEPT !.history = h]
      /\ memoryShown' = [memoryShown EXCEPT !.history = memory'.history]
      /\ UNCHANGED <<meminfo, memoryNow>>
  BY DEF RunMemoryHistory, MemoryInv
<1>2. found[1] \in Percents /\ found[1].at <= deadline
  <2>1. memory.usage.latest \in Maybe(Percents) /\ memory.usage.previous \in Maybe(Percents)
    BY DEF MemoryInv
  <2> QED BY <1>1, <2>1, SampleIsRetained
<1>3. deadline \in Nat
  BY DEF MemoryInv
<1> HIDE DEF found
<1>4. point \in MemoryPoints
  BY <1>2, <1>3 DEF MemoryPoints
<1> HIDE DEF point
<1>5. Append(memory.history, point) \in Seq(MemoryPoints)
  BY <1>4 DEF MemoryInv
<1>6. h \in Seq(MemoryPoints)
  BY <1>5, TrimmedSeries DEF MemoryAssumption
<1> HIDE DEF h
<1> QED BY <1>1, <1>6 DEF MemoryInv

(* Every step of the memory keeps the invariant.                              *)
LEMMA MemoryKeeps ==
  ASSUME MemoryAssumption, MemoryInv, [MemoryNext]_memoryVars
  PROVE  MemoryInv'
<1>1. ASSUME NEW usage \in BOOLEAN, NEW history \in BOOLEAN, InvalidateMemory(usage, history)
      PROVE  MemoryInv'
  <2>1. NotRetained \in [latest : Maybe(Percents), previous : Maybe(Percents)]
        /\ None \in Maybe(Percents) /\ <<>> \in Seq(MemoryPoints) /\ NotRetained.latest = None
    BY NothingRetained DEF NotRetained
  <2> QED BY <1>1, <2>1 DEF InvalidateMemory, MemoryInv
<1>2. CASE SwapDemand
  BY <1>2 DEF SwapDemand, MemoryInv
<1>3. ASSUME NEW info \in MemInfos, MemoryTime(info) PROVE MemoryInv'
  BY <1>3 DEF MemoryTime, MemoryInv
<1>4. CASE UNCHANGED memoryVars
  BY <1>4 DEF memoryVars, MemoryInv
<1> QED BY <1>1, <1>2, <1>3, <1>4, RunMemoryKeeps, RunMemoryHistoryKeeps DEF MemoryNext

(* What the invariant says, and what the arithmetic says of every file.       *)
LEMMA MemoryMeasures ==
  ASSUME MemoryAssumption, MemoryInv
  PROVE  MemoryHolds
<1>0. meminfo \in MemInfos
  BY DEF MemoryInv
<1>1. None \notin {meminfo.total, meminfo.free, meminfo.pagecache, meminfo.reclaimable, meminfo.low} =>
       CalculateAvailable(meminfo) = PsutilAvailable(meminfo)
  BY <1>0, EstimateIsTheReference
<1>2. ASSUME NEW outcome \in {ReadMemoryUsage(meminfo), ReadSwapUsage(meminfo)}, outcome.kind = "Value"
      PROVE  outcome.value.percent \in 0..100
  <2>1. outcome \in {Failed, Absent} \/ \E p \in 0..100 : outcome = Value([percent |-> p])
    BY <1>0, <1>2, PercentagesMeasured
  <2> QED BY <1>2, <2>1 DEF Value, Failed, Absent
<1>3. ASSUME None \notin {meminfo.total, meminfo.free}, meminfo.total[1] > 0
      PROVE  2 * (RoundHalfEven(1000 * MemoryUsed(meminfo), meminfo.total[1]) * meminfo.total[1]
                   - 1000 * MemoryUsed(meminfo)) \in -meminfo.total[1]..meminfo.total[1]
  <2>1. meminfo.total[1] \in Nat /\ MemoryUsed(meminfo) \in Nat
    BY <1>0, <1>3, UsedIsAShare
  <2> DEFINE n == 1000 * MemoryUsed(meminfo)
             d == meminfo.total[1]
  <2>2. n \in Nat /\ d \in Nat /\ d > 0
    BY <1>3, <2>1
  <2> HIDE DEF n, d
  <2>3. 2 * (RoundHalfEven(n, d) * d - n) \in -d..d
    BY <2>2, NearestQuotient
  <2> QED BY <2>3 DEF n, d
<1>4. \A i \in DOMAIN memoryShown.history :
        memoryShown.history[i].sample.at <= memoryShown.history[i].due
  <2>1. \A i \in DOMAIN memoryShown.history : memoryShown.history[i] \in MemoryPoints
    BY DEF MemoryInv
  <2> QED BY <2>1 DEF MemoryPoints
<1>5. (memoryShown.usage # None => memoryShown.usage = memory.usage.latest)
      /\ memoryShown.swap = memory.swap.latest
  BY DEF MemoryInv
<1> QED BY <1>1, <1>2, <1>3, <1>4, <1>5 DEF MemoryHolds

(* Whatever the files say of one another and whichever field they lack, a     *)
(* percentage is one, and what is on display is what was measured.            *)
LEMMA MemoryIsMeasured == MemorySpec => []MemoryHolds
<1>1. MemoryInit => MemoryInv
  <2>1. \A S : NotRetained \in [latest : Maybe(S), previous : Maybe(S)]
           /\ None \in Maybe(S) /\ <<>> \in Seq(S) /\ NotRetained.latest = None
    BY NothingRetained DEF NotRetained
  <2> QED BY <2>1 DEF MemoryInit, MemoryInv
<1>2. MemoryInv /\ [MemoryNext]_memoryVars => MemoryInv'
  BY MemoryKeeps, MemoryAssumption
<1>3. MemoryInv => MemoryHolds
  BY MemoryMeasures, MemoryAssumption
<1> QED BY <1>1, <1>2, <1>3, PTL DEF MemorySpec

-----------------------------------------------------------------------------
(* The discovery and the catalogue.                                           *)

Families == DOMAIN Probes

(* The parts a family finds.                                                  *)
Finds(f) == UNION Probes[f]

(* What each family finds.                                                    *)
LEMMA FamiliesFind ==
  /\ Families = {"Cpu", "Thermal", "SystemBattery", "Smart", "Nvidia", "Amd", "AmdNpu", "Intel",
                 "Backlight", "Network", "DiskIo", "Peripheral", "Mounts"}
  /\ Finds("Cpu") = {"cpu_temp", "cpu_freq", "cpu_turbo"}
  /\ Finds("Thermal") = {"temps", "fans"}
  /\ Finds("SystemBattery") = {"batteries"} /\ Finds("Smart") = {"smart"}
  /\ Finds("Nvidia") = {"nvidia"} /\ Finds("Amd") = {"amd"} /\ Finds("AmdNpu") = {"npu"}
  /\ Finds("Intel") = {"intel_freq", "intel_pci"} /\ Finds("Backlight") = {"backlight"}
  /\ Finds("Network") = {"net", "wifi"} /\ Finds("DiskIo") = {"disk_io"}
  /\ Finds("Peripheral") = {"battery_mouse", "battery_kbd"} /\ Finds("Mounts") = {"mounts"}
<1>1. Families = {"Cpu", "Thermal", "SystemBattery", "Smart", "Nvidia", "Amd", "AmdNpu", "Intel",
                 "Backlight", "Network", "DiskIo", "Peripheral", "Mounts"}
  BY DEF Families, Probes
<1>2. Finds("Cpu") = {"cpu_temp", "cpu_freq", "cpu_turbo"}
  BY DEF Finds, Probes
<1>3. Finds("Thermal") = {"temps", "fans"}
  BY DEF Finds, Probes
<1>4. Finds("SystemBattery") = {"batteries"} /\ Finds("Smart") = {"smart"}
  BY DEF Finds, Probes
<1>5. Finds("Nvidia") = {"nvidia"} /\ Finds("Amd") = {"amd"} /\ Finds("AmdNpu") = {"npu"}
  BY DEF Finds, Probes
<1>6. Finds("Intel") = {"intel_freq", "intel_pci"} /\ Finds("Backlight") = {"backlight"}
  BY DEF Finds, Probes
<1>7. Finds("Network") = {"net", "wifi"} /\ Finds("DiskIo") = {"disk_io"}
  BY DEF Finds, Probes
<1>8. Finds("Peripheral") = {"battery_mouse", "battery_kbd"} /\ Finds("Mounts") = {"mounts"}
  BY DEF Finds, Probes
<1> QED BY <1>1, <1>2, <1>3, <1>4, <1>5, <1>6, <1>7, <1>8

(* No part is found by two families.                                          *)
LEMMA FamiliesAreApart ==
  ASSUME NEW f \in Families, NEW g \in Families, f # g
  PROVE  Finds(f) \cap Finds(g) = {}
<1> DEFINE Of(p) == CASE p \in {"cpu_temp", "cpu_freq", "cpu_turbo"} -> "Cpu"
                      [] p \in {"temps", "fans"} -> "Thermal"
                      [] p = "batteries" -> "SystemBattery" [] p = "smart" -> "Smart"
                      [] p = "nvidia" -> "Nvidia" [] p = "amd" -> "Amd" [] p = "npu" -> "AmdNpu"
                      [] p \in {"intel_freq", "intel_pci"} -> "Intel" [] p = "backlight" -> "Backlight"
                      [] p \in {"net", "wifi"} -> "Network" [] p = "disk_io" -> "DiskIo"
                      [] p \in {"battery_mouse", "battery_kbd"} -> "Peripheral" [] p = "mounts" -> "Mounts"
<1>1. ASSUME NEW h \in Families PROVE \A p \in Finds(h) : Of(p) = h
  BY FamiliesFind
<1> HIDE DEF Of
<1> QED BY <1>1

(* The parts of all of them.                                                  *)
LEMMA FamiliesFindParts == \A f \in Families : Finds(f) \subseteq Part
  BY FamiliesFind DEF Part, Role

(* Of a copy of the inventory: the root is a mount, and there is one AMD card *)
(* at most.                                                                   *)
Whole(hw) ==
  /\ "mounts" \in DOMAIN hw => "/" \in hw["mounts"]
  /\ "amd" \in DOMAIN hw => \A x, y \in hw["amd"] : x = y

(* The inductive invariant: what a captured family finds is known as it is.   *)
DiscoveryInv ==
  /\ machine \in Machines
  /\ catCfg \in CatalogueConfigs \cup ReloadedConfigs
  /\ DOMAIN known = Part /\ Whole(known)
  /\ captured \subseteq Families
  /\ \A f \in captured : \A p \in Finds(f) : known[p] = Found(catCfg, p)
  /\ flight # None =>
       /\ flight[1].family \in Families
       /\ DOMAIN flight[1].copy = Finds(flight[1].family)
       /\ Whole(flight[1].copy)

(* What a probe finds is whole.                                               *)
LEMMA FoundIsWhole ==
  ASSUME DiscoveryAssumption, machine \in Machines, NEW c
  PROVE  "/" \in Found(c, "mounts") /\ \A x, y \in Found(c, "amd") : x = y
  BY DEF DiscoveryAssumption, Found, Role

(* merge_into keeps a copy whole.                                             *)
LEMMA MergedIsWhole ==
  ASSUME DiscoveryAssumption, machine \in Machines, NEW hw, Whole(hw), NEW c, NEW completed
  PROVE  LET new == Merged(hw, c, completed)
         IN  /\ Whole(new) /\ DOMAIN new = DOMAIN hw
             /\ \A p \in DOMAIN hw : /\ p \in UNION completed => new[p] = Found(c, p)
                                     /\ p \notin UNION completed => new[p] = hw[p]
  BY FoundIsWhole DEF Merged, Whole

(* The local attempt of a start.                                              *)
LEMMA DiscoveryInitKeeps == DiscoveryAssumption /\ DiscoveryInit => DiscoveryInv
<1> SUFFICES ASSUME DiscoveryAssumption, DiscoveryInit PROVE DiscoveryInv
  OBVIOUS
<1>1. Whole(Unknown) /\ DOMAIN Unknown = Part
  BY DEF Whole, Unknown
<1>2. PICK done \in Attempts(catCfg, LocalProbes) : known = Merged(Unknown, catCfg, done)
  BY DEF DiscoveryInit
<1>3. machine \in Machines
  BY DEF DiscoveryInit
<1>4. Whole(known) /\ DOMAIN known = Part
  BY <1>1, <1>2, <1>3, MergedIsWhole
<1> QED BY <1>4 DEF DiscoveryInit, DiscoveryInv

(* A run whose probes all completed leaves what there is of its family.       *)
LEMMA FinishFamilyKeeps ==
  ASSUME DiscoveryAssumption, DiscoveryInv, FinishFamily
  PROVE  DiscoveryInv'
<1> DEFINE f == flight[1].family
<1>1. f \in Families /\ DOMAIN flight[1].copy = Finds(f) /\ Whole(flight[1].copy)
  BY DEF FinishFamily, DiscoveryInv
<1>0. ASSUME NEW failed
      PROVE  LET copy == Merged(flight[1].copy, catCfg, Probes[f] \ failed)
             IN  /\ Whole(copy) /\ DOMAIN copy = Finds(f)
                 /\ failed = {} => \A p \in Finds(f) : copy[p] = Found(catCfg, p)
  <2> DEFINE old == flight[1].copy
             done == Probes[f] \ failed
             copy == Merged(old, catCfg, done)
  <2>1. machine \in Machines /\ Whole(old) /\ DOMAIN old = Finds(f)
    BY <1>1 DEF DiscoveryInv
  <2>2. failed = {} => UNION done = Finds(f)
    BY DEF Finds
  <2> HIDE DEF f, old, done
  <2>3. Whole(copy) /\ DOMAIN copy = Finds(f)
    BY <2>1, MergedIsWhole
  <2>4. \A p \in DOMAIN old : p \in UNION done => copy[p] = Found(catCfg, p)
    BY <2>1, MergedIsWhole
  <2> HIDE DEF copy
  <2>5. failed = {} => \A p \in Finds(f) : copy[p] = Found(catCfg, p)
    BY <2>1, <2>2, <2>4
  <2> QED BY <2>3, <2>5 DEF old, done, copy
<1>2. PICK failed \in SUBSET {p \in Probes[f] : CanFail(catCfg, p)} :
        LET copy == Merged(flight[1].copy, catCfg, Probes[f] \ failed) IN
        IF f \in WantedFamilies
        THEN /\ known' = [p \in Part |-> IF p \in DOMAIN copy THEN copy[p] ELSE known[p]]
             /\ captured' = IF failed = {} THEN captured \cup {f} ELSE captured \ {f}
        ELSE UNCHANGED <<known, captured>>
  BY DEF FinishFamily
<1>3. flight' = None /\ UNCHANGED <<machine, catCfg, identity, catMoves>>
  BY DEF FinishFamily
<1>4. \A p : Found(catCfg, p)' = Found(catCfg, p)
  BY <1>3 DEF Found
<1>5. CASE f \notin WantedFamilies
  BY <1>2, <1>3, <1>4, <1>5 DEF DiscoveryInv, Whole
<1>6. CASE f \in WantedFamilies
  <2> DEFINE copy == Merged(flight[1].copy, catCfg, Probes[f] \ failed)
  <2>1. /\ known' = [p \in Part |-> IF p \in DOMAIN copy THEN copy[p] ELSE known[p]]
        /\ captured' = IF failed = {} THEN captured \cup {f} ELSE captured \ {f}
    BY <1>2, <1>6
  <2>2. /\ Whole(copy) /\ DOMAIN copy = Finds(f)
        /\ failed = {} => \A p \in Finds(f) : copy[p] = Found(catCfg, p)
    BY <1>0
  <2> HIDE DEF copy, f
  <2>3. DOMAIN known' = Part /\ \A p \in Part : known'[p] = IF p \in Finds(f) THEN copy[p] ELSE known[p]
    BY <2>1, <2>2
  <2>4. Whole(known')
    <3>1. "mounts" \in Part /\ "amd" \in Part
      BY DEF Part
    <3> QED BY <2>2, <2>3, <3>1 DEF DiscoveryInv, Whole
  <2>5. captured' \subseteq Families
    BY <1>1, <2>1 DEF DiscoveryInv, f
  <2>6. ASSUME NEW g \in captured', NEW p \in Finds(g) PROVE known'[p] = Found(catCfg, p)
    <3>1. g \in Families /\ p \in Part
      BY <2>5, FamiliesFindParts
    <3>2. CASE g = f
      <4>1. failed = {}
        BY <2>1, <3>2
      <4> QED BY <2>2, <2>3, <3>1, <3>2, <4>1
    <3>3. CASE g # f
      <4>1. p \notin Finds(f) /\ g \in captured
        BY <1>1, <2>1, <3>1, <3>3, FamiliesAreApart DEF f
      <4> QED BY <2>3, <3>1, <4>1 DEF DiscoveryInv
    <3> QED BY <3>2, <3>3
  <2> QED BY <1>3, <1>4, <2>3, <2>4, <2>5, <2>6 DEF DiscoveryInv, Whole
<1> QED BY <1>5, <1>6

(* The identity confirms the route, or takes the capture of it back.          *)
LEMMA FinishIdentityKeeps ==
  ASSUME DiscoveryAssumption, DiscoveryInv, FinishIdentity
  PROVE  DiscoveryInv'
<1>1. PICK failed \in BOOLEAN :
        /\ known' = [known EXCEPT !["net"] = IF failed THEN identity[1] ELSE machine["net"]]
        /\ captured' = IF failed THEN captured \ {"Network"} ELSE captured
  BY DEF FinishIdentity
<1>2. UNCHANGED <<machine, catCfg, flight, catMoves>>
  BY DEF FinishIdentity
<1>3. \A p : Found(catCfg, p)' = Found(catCfg, p)
  BY <1>2 DEF Found
<1>4. DOMAIN known' = Part /\ \A p \in Part : p # "net" => known'[p] = known[p]
  BY <1>1 DEF DiscoveryInv
<1>5. Whole(known')
  <2>1. "mounts" \in Part /\ "amd" \in Part
    BY DEF Part
  <2> QED BY <1>4, <2>1 DEF DiscoveryInv, Whole
<1>6. ASSUME NEW g \in captured', NEW p \in Finds(g) PROVE known'[p] = Found(catCfg, p)
  <2>1. g \in captured /\ g \in Families /\ p \in Part
    BY <1>1, FamiliesFindParts DEF DiscoveryInv
  <2>2. CASE p # "net"
    BY <1>4, <2>1, <2>2 DEF DiscoveryInv
  <2>3. CASE p = "net"
    <3>1. g = "Network"
      <4>1. "Network" \in Families /\ "net" \in Finds("Network")
        BY FamiliesFind
      <4> QED BY <2>1, <2>3, <4>1, FamiliesAreApart
    <3>2. known'[p] = machine["net"]
      BY <1>1, <2>1, <2>3, <3>1 DEF DiscoveryInv
    <3> QED BY <2>3, <3>2 DEF Found, Role
  <2> QED BY <2>2, <2>3
<1> QED BY <1>1, <1>2, <1>3, <1>4, <1>5, <1>6 DEF DiscoveryInv, Whole

(* A rescan only confirms; a reload forgets what was captured.                *)
LEMMA RescansKeep ==
  ASSUME DiscoveryAssumption, DiscoveryInv, Rescan \/ Reload
  PROVE  DiscoveryInv'
<1>1. PICK c, done : known' = Merged(known, c, done) /\ catCfg' = c
                     /\ c \in CatalogueConfigs \cup ReloadedConfigs
  <2>1. CASE Rescan
    BY <2>1 DEF Rescan, DiscoveryInv
  <2>2. CASE Reload
    BY <2>2 DEF Reload
  <2> QED BY <2>1, <2>2
<1>2. /\ machine' = machine /\ machine \in Machines
      /\ \/ captured' = captured /\ flight' = flight /\ catCfg' = catCfg
         \/ captured' = {} /\ flight' = None
  BY DEF Rescan, Reload, DiscoveryInv
<1>3. \A p, q : Found(p, q)' = Found(p, q)
  BY <1>2 DEF Found
<1>4. /\ Whole(known') /\ DOMAIN known' = Part
      /\ \A p \in Part : /\ p \in UNION done => known'[p] = Found(c, p)
                         /\ p \notin UNION done => known'[p] = known[p]
  BY <1>1, <1>2, MergedIsWhole DEF DiscoveryInv
<1>5. ASSUME NEW g \in captured', NEW p \in Finds(g) PROVE known'[p] = Found(catCfg', p)
  <2>1. g \in captured /\ catCfg' = catCfg
    BY <1>2
  <2>2. p \in Part /\ known[p] = Found(catCfg, p)
    BY <2>1, FamiliesFindParts DEF DiscoveryInv
  <2> QED BY <1>1, <1>4, <2>1, <2>2
<1> QED BY <1>1, <1>2, <1>3, <1>4, <1>5 DEF DiscoveryInv, Whole

(* What is captured is of the hardware there still is.                        *)
LEMMA MachineChangesKeeps ==
  ASSUME DiscoveryAssumption, DiscoveryInv, MachineChanges
  PROVE  DiscoveryInv'
<1>1. PICK m \in Machines \ {machine} :
        /\ machine' = m
        /\ captured' = {f \in captured : \A p \in UNION Probes[f] : m[p] = machine[p]}
  BY DEF MachineChanges
<1>2. UNCHANGED <<known, catCfg, flight, identity>>
  BY DEF MachineChanges
<1>3. captured' \subseteq captured
  BY <1>1
<1>4. \A f \in captured' : \A p \in Finds(f) : Found(catCfg, p)' = Found(catCfg, p)
  <2> SUFFICES ASSUME NEW f \in captured', NEW p \in Finds(f)
               PROVE  Found(catCfg, p)' = Found(catCfg, p)
    OBVIOUS
  <2>1. machine'[p] = machine[p]
    BY <1>1 DEF Finds
  <2> QED BY <1>2, <2>1 DEF Found
<1> QED BY <1>1, <1>2, <1>3, <1>4 DEF DiscoveryInv, Whole

(* What the jobs of a metric read: nothing the owner needs another capability *)
(* for, no inventory, and AMD's counters for AMD's metrics only.              *)
LEMMA KindsOfMetric ==
  ASSUME NEW c, NEW hw, NEW m \in Metric, NEW j \in MetricJobs(c, hw, m)
  PROVE  /\ CapabilitiesOf(j) \subseteq {m} /\ (m \in {"cpu_usage", "mem_usage"} => CapabilitiesOf(j) = {})
         /\ j[1] \notin {"HardwareDiscovery", "MountInventory"}
         /\ j[1] \in {"AmdFast", "AmdSlow"} => m \in FastAmd \cup SlowAmd
         /\ j[1] = "DiskUsage" => m = "disk_usage"
<1> DEFINE Simple == {"hd_temp", "fan_speed", "disk_usage", "npu", "gpu_intel_freq", "gpu_intel_usage",
                      "screen_brightness", "battery_sys", "net_speed", "disk_io"}
<1>1. ASSUME NEW kind, NEW source, j = <<kind, source>>, kind \in DOMAIN JobCapability
      PROVE  CapabilitiesOf(j) = {JobCapability[kind]}
  <2>1. "PeripheralBattery" \notin DOMAIN JobCapability /\ "ExternalFile" \notin DOMAIN JobCapability
    BY DEF JobCapability
  <2> QED BY <1>1, <2>1 DEF CapabilitiesOf
<1>2. ASSUME NEW source, j = <<"PeripheralBattery", <<m, source>>>> \/ j = <<"ExternalFile", m>>
      PROVE  CapabilitiesOf(j) = {m}
  BY <1>2 DEF CapabilitiesOf, JobCapability
<1>3. ASSUME NEW kind \in {"Cpu", "Memory", "AmdFast", "AmdSlow"}, NEW source, j = <<kind, source>>
      PROVE  CapabilitiesOf(j) = {}
  BY <1>3 DEF CapabilitiesOf, JobCapability
<1>4. \A kind, sources : \A x \in Jobs(kind, sources) : \E source : x = <<kind, source>>
  BY DEF Jobs
<1>5. CASE m \in {"cpu_usage", "cpu_freq", "cpu_turbo", "cpu_temp", "load_avg"}
  <2>1. \E source : j = <<"Cpu", source>>
    BY <1>5 DEF MetricJobs, CpuJob, Role, FastAmd, SlowAmd
  <2> QED BY <1>3, <2>1, <1>5
<1>6. CASE m \in {"mem_usage", "swap_usage"}
  <2>1. j = <<"Memory", "">>
    BY <1>6 DEF MetricJobs, Singleton, Role, FastAmd, SlowAmd
  <2> QED BY <1>3, <2>1, <1>6
<1>7. CASE m \in FastAmd \cup SlowAmd
  <2>1. \E kind \in {"AmdFast", "AmdSlow"} : \E source : j = <<kind, source>>
    BY <1>7 DEF MetricJobs, AmdJobs, FastAmd, SlowAmd, Role
  <2> QED BY <1>3, <1>7, <2>1 DEF FastAmd, SlowAmd
<1>8. CASE m \in Role
  <2>1. \E source : j = <<"PeripheralBattery", <<m, source>>>>
    BY <1>8 DEF MetricJobs, Role, FastAmd, SlowAmd, Jobs
  <2> QED BY <1>2, <1>8, <2>1 DEF Role
<1>9. CASE m \in {"system_updates", "server_check"}
  <2>1. j = <<"ExternalFile", m>>
    BY <1>9 DEF MetricJobs, Role, FastAmd, SlowAmd, Jobs
  <2> QED BY <1>2, <1>9, <2>1
<1>10. CASE m \in {"net_info", "top_process", "gpu_nvidia", "disk_smart"}
  <2>1. m = "net_info" => j = <<"NetworkIdentity", "">>
    BY DEF MetricJobs, Role, FastAmd, SlowAmd, Singleton
  <2>2. m = "top_process" => j = <<"PanelProcesses", "">>
    BY DEF MetricJobs, Role, FastAmd, SlowAmd, Singleton
  <2>3. m = "gpu_nvidia" => \E source : j = <<"NvidiaNvml", source>> \/ j = <<"NvidiaFallback", source>>
    BY DEF MetricJobs, Role, FastAmd, SlowAmd
  <2>4. m = "disk_smart" => \E source : j = <<"Smart", source>>
    BY <1>4 DEF MetricJobs, Role, FastAmd, SlowAmd
  <2>5. \E kind, source : j = <<kind, source>> /\ kind \in DOMAIN JobCapability /\ JobCapability[kind] = m
          /\ kind \in {"NetworkIdentity", "PanelProcesses", "NvidiaNvml", "NvidiaFallback", "Smart"}
    BY <1>10, <2>1, <2>2, <2>3, <2>4 DEF JobCapability
  <2> QED BY <1>1, <1>10, <2>5
<1>11. CASE m \in Simple
  <2>1. /\ m = "hd_temp" => j \in Jobs("DiskTemperature", hw["temps"])
        /\ m = "fan_speed" => j \in Jobs("FanSpeed", hw["fans"])
        /\ m = "disk_usage" => j \in Jobs("DiskUsage", MountsOf(c, hw))
        /\ m = "npu" => j \in Jobs("AmdNpu", hw["npu"])
        /\ m = "gpu_intel_freq" => j \in Jobs("IntelFrequency", hw["intel_freq"])
    BY DEF MetricJobs, Role, FastAmd, SlowAmd
  <2>2. /\ m = "gpu_intel_usage" => j \in Jobs("IntelUsage", hw["intel_pci"])
        /\ m = "screen_brightness" => j \in Jobs("Brightness", hw["backlight"])
        /\ m = "battery_sys" => j \in Jobs("SystemBattery", hw["batteries"])
        /\ m = "net_speed" => j \in Jobs("NetworkRate", hw["net"])
        /\ m = "disk_io" => j \in Jobs("DiskIo", hw["disk_io"])
    BY DEF MetricJobs, Role, FastAmd, SlowAmd
  <2>3. \E kind, source : j = <<kind, source>> /\ kind \in DOMAIN JobCapability /\ JobCapability[kind] = m
          /\ kind \notin {"HardwareDiscovery", "MountInventory", "AmdFast", "AmdSlow"}
          /\ (kind = "DiskUsage" => m = "disk_usage")
    <3>1. CASE m \in {"hd_temp", "fan_speed", "disk_usage", "npu", "gpu_intel_freq"}
      BY <1>4, <2>1, <3>1 DEF JobCapability
    <3>2. CASE m \in {"gpu_intel_usage", "screen_brightness", "battery_sys", "net_speed", "disk_io"}
      BY <1>4, <2>2, <3>2 DEF JobCapability
    <3> QED BY <1>11, <3>1, <3>2
  <2> QED BY <1>1, <1>11, <2>3
<1> QED BY <1>5, <1>6, <1>7, <1>8, <1>9, <1>10, <1>11 DEF Metric, FastAmd, SlowAmd

(* The metrics a surface or the graphs measure.                               *)
GraphMetrics(c, hw) ==
  {"cpu_usage", "mem_usage", "net_speed", "gpu_nvidia", "gpu_intel_usage"}
  \cup (IF Chart(c, "disk") THEN {"disk_io"} ELSE {})
  \cup (IF Chart(c, "npu") THEN {"npu"} ELSE {})
  \cup (IF hw["nvidia"] = {}
        THEN FastAmd \cup (IF Chart(c, "temperature") THEN {"gpu_amd_temp"} ELSE {}) ELSE {})

HiddenMetrics(c, hw) ==
  ItemMetrics(c.panel) \cup c.notifications \cup (IF Graphs(c) THEN GraphMetrics(c, hw) ELSE {})

MeasuredBy(j, c, hw, metrics) == \E m \in metrics : j \in MetricJobs(c, hw, m)

(* The jobs that measure nothing.                                             *)
Unmeasured(j) ==
  \E kind \in HistoryKinds \cup {"MountInventory", "PageProcesses", "CpuCores", "PageCommand", "PageRender"} :
    \E source : j = <<kind, source>>

Finding(j) == \E f \in Families : j = <<"HardwareDiscovery", f>>

(* A configuration there may be.                                              *)
Sound(c) == ItemMetrics(c.panel \cup c.tooltip) \subseteq Metric /\ c.notifications \subseteq Alert

(* All that is measured is a metric there is.                                 *)
LEMMA SoundMetrics ==
  ASSUME NEW c, Sound(c), NEW hw
  PROVE  ItemMetrics(c.panel) \cup ItemMetrics(c.tooltip) \cup c.notifications \cup GraphMetrics(c, hw)
           \subseteq Metric
<1>1. ItemMetrics(c.panel) \cup ItemMetrics(c.tooltip) \subseteq Metric
  BY DEF Sound, ItemMetrics
<1>2. c.notifications \subseteq Metric
  BY DEF Sound, Alert, Metric, Role
<1>3. GraphMetrics(c, hw) \subseteq Metric
  BY DEF GraphMetrics, FastAmd, Metric
<1> QED BY <1>1, <1>2, <1>3

(* A metric needs inventories there are.                                      *)
LEMMA MetricFamilies ==
  ASSUME NEW c, NEW m
  PROVE  MetricFamily(c, m) \subseteq Families
  BY FamiliesFind DEF MetricFamily

(* A job of a surface measures one of its metrics, or keeps a history.        *)
LEMMA SurfaceMeasures ==
  ASSUME NEW c, NEW hw, NEW items, NEW j \in SurfaceJobs(c, hw, items)
  PROVE  MeasuredBy(j, c, hw, ItemMetrics(items)) \/ Unmeasured(j)
<1>1. PICK i \in items : j \in ItemJobs(c, hw, i)
  BY DEF SurfaceJobs
<1>2. i.metric \in ItemMetrics(items)
  BY DEF ItemMetrics
<1>3. CASE j \in MetricJobs(c, hw, i.metric)
  BY <1>2, <1>3 DEF MeasuredBy
<1>4. CASE j \notin MetricJobs(c, hw, i.metric)
  <2>1. j = <<"CpuHistory", "">> \/ j = <<"MemoryHistory", "">>
    BY <1>1, <1>4 DEF ItemJobs, Singleton
  <2> QED BY <2>1 DEF Unmeasured, HistoryKinds
<1> QED BY <1>3, <1>4

(* A job of the graphs measures one of theirs, or keeps a history.            *)
LEMMA GraphsMeasure ==
  ASSUME NEW c, NEW hw, NEW j \in GraphJobs(c, hw)
  PROVE  MeasuredBy(j, c, hw, GraphMetrics(c, hw)) \/ Unmeasured(j)
<1>1. \A kind \in HistoryKinds : \A source : Unmeasured(<<kind, source>>)
  BY DEF Unmeasured
<1>2. /\ MetricJobs(c, hw, "cpu_usage") = {CpuJob(c, hw)}
      /\ MetricJobs(c, hw, "mem_usage") = {Singleton("Memory")}
      /\ MetricJobs(c, hw, "net_speed") = Jobs("NetworkRate", hw["net"])
      /\ MetricJobs(c, hw, "disk_io") = Jobs("DiskIo", hw["disk_io"])
      /\ MetricJobs(c, hw, "npu") = Jobs("AmdNpu", hw["npu"])
      /\ \A m \in FastAmd \cup {"gpu_amd_temp"} : MetricJobs(c, hw, m) = AmdJobs(hw, m)
  BY DEF MetricJobs, Role, FastAmd, SlowAmd
<1>3. CASE j \in GraphGpuJobs(c, hw)
  <2>1. \/ j \in MetricJobs(c, hw, "gpu_nvidia")
        \/ j \in MetricJobs(c, hw, "gpu_intel_usage")
        \/ hw["nvidia"] = {} /\ \E m \in FastAmd : j \in AmdJobs(hw, m)
        \/ hw["nvidia"] = {} /\ Chart(c, "temperature") /\ j \in AmdJobs(hw, "gpu_amd_temp")
    <3>1. CASE hw["nvidia"] # {}
      BY <1>3, <3>1 DEF GraphGpuJobs
    <3>2. CASE hw["nvidia"] = {} /\ hw["amd"] # {}
      <4>1. j \in UNION {AmdJobs(hw, m) : m \in FastAmd}
            \/ (Chart(c, "temperature") /\ j \in AmdJobs(hw, "gpu_amd_temp"))
        BY <1>3, <3>2 DEF GraphGpuJobs
      <4> QED BY <3>2, <4>1
    <3>3. CASE hw["nvidia"] = {} /\ hw["amd"] = {}
      BY <1>3, <3>3 DEF GraphGpuJobs
    <3> QED BY <3>1, <3>2, <3>3
  <2> QED BY <1>2, <2>1 DEF MeasuredBy, GraphMetrics
<1>4. CASE j \notin GraphGpuJobs(c, hw)
  <2>1. \/ j \in {CpuJob(c, hw), Singleton("Memory")}
        \/ j \in Jobs("NetworkRate", hw["net"])
        \/ Chart(c, "disk") /\ j \in Jobs("DiskIo", hw["disk_io"])
        \/ Chart(c, "npu") /\ j \in Jobs("AmdNpu", hw["npu"])
        \/ \E kind \in HistoryKinds : \E source : j = <<kind, source>>
    <3>1. \/ j \in {CpuJob(c, hw), Singleton("CpuHistory"), Singleton("Memory"), Singleton("MemoryHistory")}
          \/ j \in WithHistory(Jobs("NetworkRate", hw["net"]), Singleton("NetworkHistory"))
          \/ Chart(c, "disk") /\ j \in WithHistory(Jobs("DiskIo", hw["disk_io"]), Singleton("DiskIoHistory"))
          \/ Chart(c, "npu") /\ j \in Jobs("AmdNpu", hw["npu"]) \cup Jobs("AmdNpuHistory", hw["npu"])
          \/ j \in Jobs("GpuHistory", SelectedSource(hw))
      BY <1>4 DEF GraphJobs
    <3>2. \A jobs, history : j \in WithHistory(jobs, history) => j \in jobs \/ j = history
      BY DEF WithHistory
    <3>3. \A kind, sources : j \in Jobs(kind, sources) => \E source : j = <<kind, source>>
      BY DEF Jobs
    <3>4. \A kind : Singleton(kind) = <<kind, "">>
      BY DEF Singleton
    <3>5. {"CpuHistory", "MemoryHistory", "NetworkHistory", "DiskIoHistory", "AmdNpuHistory", "GpuHistory"}
            \subseteq HistoryKinds
      BY DEF HistoryKinds
    <3> QED BY <3>1, <3>2, <3>3, <3>4, <3>5
  <2> QED BY <1>1, <1>2, <2>1 DEF MeasuredBy, GraphMetrics
<1> QED BY <1>3, <1>4

(* What is asked for while hidden is measured by a metric, measures nothing   *)
(* or is an inventory.                                                        *)
LEMMA HiddenMeasures ==
  ASSUME NEW c, NEW hw, NEW j \in Hidden(c, hw)
  PROVE  MeasuredBy(j, c, hw, HiddenMetrics(c, hw)) \/ Unmeasured(j) \/ Finding(j)
<1>1. \/ j = Singleton("MountInventory")
      \/ j \in SurfaceJobs(c, hw, c.panel)
      \/ j \in NotificationJobs(c, hw)
      \/ Graphs(c) /\ j \in GraphJobs(c, hw)
      \/ j \in InventoryJobs(SurfaceFamilies(c, c.panel) \cup NotificationFamilies(c) \cup GraphFamilies(c))
  BY DEF Hidden, WithMounts
<1>2. CASE j = Singleton("MountInventory")
  BY <1>2 DEF Singleton, Unmeasured
<1>3. CASE j \in SurfaceJobs(c, hw, c.panel)
  BY <1>3, SurfaceMeasures DEF MeasuredBy, HiddenMetrics
<1>4. CASE j \in NotificationJobs(c, hw)
  BY <1>4 DEF NotificationJobs, MeasuredBy, HiddenMetrics
<1>5. CASE Graphs(c) /\ j \in GraphJobs(c, hw)
  BY <1>5, GraphsMeasure DEF MeasuredBy, HiddenMetrics
<1>6. CASE j \in InventoryJobs(SurfaceFamilies(c, c.panel) \cup NotificationFamilies(c) \cup GraphFamilies(c))
  <2>1. GraphFamilies(c) \subseteq Families
    BY FamiliesFind DEF GraphFamilies
  <2>2. SurfaceFamilies(c, c.panel) \cup NotificationFamilies(c) \subseteq Families
    BY MetricFamilies DEF SurfaceFamilies, NotificationFamilies
  <2> QED BY <1>6, <2>1, <2>2 DEF InventoryJobs, Jobs, Finding
<1> QED BY <1>1, <1>2, <1>3, <1>4, <1>5, <1>6

(* Nothing else is in what a tooltip asks for.                                *)
LEMMA TooltipMeasures ==
  ASSUME NEW c, NEW hw, NEW j \in Tooltip(c, hw)
  PROVE  MeasuredBy(j, c, hw, ItemMetrics(c.tooltip)) \/ Unmeasured(j) \/ Finding(j)
<1>1. \/ j = Singleton("MountInventory")
      \/ j \in SurfaceJobs(c, hw, c.tooltip)
      \/ j \in InventoryJobs(SurfaceFamilies(c, c.tooltip))
  BY DEF Tooltip, WithMounts
<1>2. CASE j = Singleton("MountInventory")
  BY <1>2 DEF Singleton, Unmeasured
<1>3. CASE j \in SurfaceJobs(c, hw, c.tooltip)
  BY <1>3, SurfaceMeasures
<1>4. CASE j \in InventoryJobs(SurfaceFamilies(c, c.tooltip))
  <2>1. SurfaceFamilies(c, c.tooltip) \subseteq Families
    BY MetricFamilies DEF SurfaceFamilies
  <2> QED BY <1>4, <2>1 DEF InventoryJobs, Jobs, Finding
<1> QED BY <1>1, <1>2, <1>3, <1>4

(* The pages measure nothing.                                                 *)
LEMMA PagesMeasureNothing ==
  ASSUME NEW page, NEW j \in PageJobs(page)
  PROVE  Unmeasured(j)
<1>1. \E kind \in {"PageProcesses", "CpuCores", "CpuCoreHistory", "PageCommand", "PageRender"} :
        \E source : j = <<kind, source>>
  <2>1. CASE page = "processes"
    BY <2>1 DEF PageJobs, Singleton
  <2>2. CASE page = "cpu_cores"
    BY <2>2 DEF PageJobs, Singleton
  <2>3. CASE page \in {"connections", "fastfetch"}
    BY <2>3 DEF PageJobs, Jobs
  <2>4. CASE page = "graphs"
    BY <2>4 DEF PageJobs, Singleton
  <2> QED BY <2>1, <2>2, <2>3, <2>4 DEF PageJobs
<1> QED BY <1>1 DEF Unmeasured, HistoryKinds

(* So a job of a plan measures what the surfaces and the graphs show.         *)
LEMMA PlanMeasures ==
  ASSUME NEW c, NEW hw, NEW j \in Planned(SchedulerConfig(c, hw))
  PROVE  \/ MeasuredBy(j, c, hw, HiddenMetrics(c, hw) \cup ItemMetrics(c.tooltip))
         \/ Unmeasured(j) \/ Finding(j)
<1>1. \/ j \in Hidden(c, hw) \/ j \in Tooltip(c, hw) \/ \E page : j \in PageJobs(page)
  BY DEF Planned, SchedulerConfig
<1> QED BY <1>1, HiddenMeasures, TooltipMeasures, PagesMeasureNothing DEF MeasuredBy

(* A job that measures nothing asks for no capability.                        *)
LEMMA UnmeasuredAsksNothing ==
  ASSUME NEW j, Unmeasured(j) \/ Finding(j)
  PROVE  CapabilitiesOf(j) = {}
<1>1. PICK kind \in HistoryKinds \cup {"MountInventory", "PageProcesses", "CpuCores", "PageCommand",
                                       "PageRender", "HardwareDiscovery"} : \E source : j = <<kind, source>>
  BY DEF Unmeasured, Finding
<1>2. kind \notin DOMAIN JobCapability /\ kind \notin {"PeripheralBattery", "ExternalFile"}
  BY DEF JobCapability, HistoryKinds
<1> QED BY <1>1, <1>2 DEF CapabilitiesOf

(* configured_capabilities covers what the surfaces and the graphs measure.   *)
LEMMA MeasuredIsConfigured ==
  ASSUME NEW c, NEW hw,
         NEW m \in HiddenMetrics(c, hw) \cup ItemMetrics(c.tooltip), m \notin {"cpu_usage", "mem_usage"}
  PROVE  m \in ConfiguredCapabilities(c)
<1>1. m \in MetricCapabilities(m)
  BY DEF MetricCapabilities
<1>2. CASE m \in ItemMetrics(c.panel) \cup ItemMetrics(c.tooltip)
  <2>1. m \in ItemMetrics(c.panel \cup c.tooltip)
    BY <1>2 DEF ItemMetrics
  <2> QED BY <1>1, <2>1 DEF ConfiguredCapabilities
<1>3. CASE m \in c.notifications
  BY <1>3 DEF ConfiguredCapabilities
<1>4. CASE Graphs(c) /\ m \in GraphMetrics(c, hw)
  <2>1. CASE m \in {"net_speed", "gpu_nvidia", "gpu_intel_usage"} \cup FastAmd
    BY <1>4, <2>1 DEF ConfiguredCapabilities, GraphsPageCapabilities
  <2>2. CASE Chart(c, "temperature") /\ m = "gpu_amd_temp"
    BY <2>2 DEF ConfiguredCapabilities
  <2>3. CASE (Chart(c, "disk") /\ m = "disk_io") \/ (Chart(c, "npu") /\ m = "npu")
    BY <2>3 DEF ConfiguredCapabilities
  <2> QED BY <1>4, <2>1, <2>2, <2>3 DEF GraphMetrics
<1> QED BY <1>2, <1>3, <1>4 DEF HiddenMetrics

(* A job that runs has its capability configured.                             *)
LEMMA PlanIsCapable ==
  ASSUME NEW c, Sound(c), NEW hw, NEW j \in Planned(SchedulerConfig(c, hw))
  PROVE  CapabilitiesOf(j) \subseteq ConfiguredCapabilities(c)
<1>1. CASE MeasuredBy(j, c, hw, HiddenMetrics(c, hw) \cup ItemMetrics(c.tooltip))
  <2>1. PICK m \in HiddenMetrics(c, hw) \cup ItemMetrics(c.tooltip) : j \in MetricJobs(c, hw, m)
    BY <1>1 DEF MeasuredBy
  <2>2. m \in Metric
    BY <2>1, SoundMetrics DEF HiddenMetrics
  <2>3. CapabilitiesOf(j) \subseteq {m} /\ (m \in {"cpu_usage", "mem_usage"} => CapabilitiesOf(j) = {})
    BY <2>1, <2>2, KindsOfMetric
  <2> QED BY <2>1, <2>3, MeasuredIsConfigured
<1>2. CASE Unmeasured(j) \/ Finding(j)
  BY <1>2, UnmeasuredAsksNothing
<1> QED BY <1>1, <1>2, PlanMeasures

(* An AMD job stands for a metric of its card.                                *)
LEMMA AmdJobMeasures ==
  ASSUME NEW c, NEW hw, NEW metrics, metrics \subseteq Metric, NEW kind \in {"AmdFast", "AmdSlow"}, NEW source,
         MeasuredBy(<<kind, source>>, c, hw, metrics)
  PROVE  \E m \in metrics, card \in hw["amd"] :
           m \in card.metrics /\ m \in IF kind = "AmdFast" THEN FastAmd ELSE SlowAmd
<1>1. PICK m \in metrics : <<kind, source>> \in MetricJobs(c, hw, m)
  BY DEF MeasuredBy
<1>2. m \in FastAmd \cup SlowAmd
  BY <1>1, KindsOfMetric
<1>3. <<kind, source>> \in AmdJobs(hw, m)
  BY <1>1, <1>2 DEF MetricJobs, FastAmd, SlowAmd, Role
<1>4. PICK card \in {x \in hw["amd"] : m \in x.metrics} :
        <<kind, source>> = <<IF m \in FastAmd THEN "AmdFast" ELSE "AmdSlow", card.pci>>
  BY <1>3 DEF AmdJobs
<1>5. kind = IF m \in FastAmd THEN "AmdFast" ELSE "AmdSlow"
  BY <1>4
<1> QED BY <1>1, <1>2, <1>4, <1>5

(* A metric of its card has its AMD job.                                      *)
LEMMA AmdIsMeasured ==
  ASSUME NEW c, NEW hw, NEW m, NEW card \in hw["amd"], m \in card.metrics,
         NEW kind \in {"AmdFast", "AmdSlow"}, m \in IF kind = "AmdFast" THEN FastAmd ELSE SlowAmd
  PROVE  <<kind, card.pci>> \in AmdJobs(hw, m) /\ AmdJobs(hw, m) = MetricJobs(c, hw, m)
<1>1. kind = IF m \in FastAmd THEN "AmdFast" ELSE "AmdSlow"
  BY DEF FastAmd, SlowAmd
<1>2. AmdJobs(hw, m) = MetricJobs(c, hw, m)
  BY DEF FastAmd, SlowAmd, MetricJobs, Role
<1> QED BY <1>1, <1>2 DEF AmdJobs

(* finish_amd_jobs gives a job metrics where it is demanded.                  *)
LEMMA AmdFits ==
  ASSUME NEW c, Sound(c), NEW hw, \A x, y \in hw["amd"] : x = y,
         NEW card \in hw["amd"], NEW kind \in {"AmdFast", "AmdSlow"}
  PROVE  /\ <<kind, card.pci>> \in Hidden(c, hw) <=> AmdMetrics(hw, kind, AmdHidden(c, hw)) # {}
         /\ <<kind, card.pci>> \in Tooltip(c, hw) <=> AmdMetrics(hw, kind, ItemMetrics(c.tooltip)) # {}
         /\ AmdMetrics(hw, kind, AmdHidden(c, hw)) \cup AmdMetrics(hw, kind, ItemMetrics(c.tooltip))
              \subseteq ConfiguredCapabilities(c)
<1> DEFINE j == <<kind, card.pci>>
           own == IF kind = "AmdFast" THEN FastAmd ELSE SlowAmd
<1>1. ~Unmeasured(j) /\ ~Finding(j)
  BY DEF Unmeasured, Finding, HistoryKinds
<1>2. ASSUME NEW wanted
      PROVE  AmdMetrics(hw, kind, wanted) = {m \in wanted : m \in own /\ m \in card.metrics}
  BY DEF AmdMetrics
<1>3. \A m \in HiddenMetrics(c, hw) : m \in own => m \in AmdHidden(c, hw)
  <2>1. \A m \in own : m \in Alert => m = "gpu_amd_temp"
    BY DEF Alert, Role, FastAmd, SlowAmd
  <2>2. \A m \in own : m \in GraphMetrics(c, hw) => hw["nvidia"] = {} /\
          (m \in FastAmd \/ (Chart(c, "temperature") /\ m = "gpu_amd_temp"))
    BY DEF GraphMetrics, FastAmd, SlowAmd
  <2> QED BY <2>1, <2>2 DEF HiddenMetrics, AmdHidden, Sound
<1>4. \A m \in AmdHidden(c, hw) : m \in HiddenMetrics(c, hw)
  BY DEF HiddenMetrics, AmdHidden, GraphMetrics, Chart
<1>5. HiddenMetrics(c, hw) \subseteq Metric /\ ItemMetrics(c.tooltip) \subseteq Metric
  BY SoundMetrics DEF HiddenMetrics
<1>6. ASSUME j \in Hidden(c, hw) PROVE AmdMetrics(hw, kind, AmdHidden(c, hw)) # {}
  <2>1. MeasuredBy(j, c, hw, HiddenMetrics(c, hw))
    BY <1>1, <1>6, HiddenMeasures
  <2>2. PICK m \in HiddenMetrics(c, hw), x \in hw["amd"] : m \in x.metrics /\ m \in own
    BY <1>5, <2>1, AmdJobMeasures
  <2>3. x = card
    BY <2>2
  <2> QED BY <1>2, <1>3, <2>2, <2>3
<1>7. ASSUME NEW m \in AmdHidden(c, hw), m \in own, m \in card.metrics PROVE j \in Hidden(c, hw)
  <2>1. j \in AmdJobs(hw, m) /\ AmdJobs(hw, m) = MetricJobs(c, hw, m)
    BY <1>7, AmdIsMeasured
  <2>2. CASE m \in ItemMetrics(c.panel)
    <3>1. PICK i \in c.panel : m = i.metric
      BY <2>2 DEF ItemMetrics
    <3>2. j \in SurfaceJobs(c, hw, c.panel)
      BY <2>1, <3>1 DEF SurfaceJobs, ItemJobs
    <3> QED BY <3>2 DEF Hidden, WithMounts
  <2>3. CASE m \in c.notifications
    <3>1. j \in NotificationJobs(c, hw)
      BY <2>1, <2>3 DEF NotificationJobs
    <3> QED BY <3>1 DEF Hidden, WithMounts
  <2>4. CASE hw["nvidia"] = {} /\ Graphs(c) /\ (m \in FastAmd \/ (Chart(c, "temperature") /\ m = "gpu_amd_temp"))
    <3>1. j \in GraphGpuJobs(c, hw)
      <4>1. hw["amd"] # {} /\ ~(hw["nvidia"] # {})
        BY <2>4
      <4>2. CASE m \in FastAmd
        BY <2>1, <4>1, <4>2 DEF GraphGpuJobs
      <4>3. CASE Chart(c, "temperature") /\ m = "gpu_amd_temp"
        BY <2>1, <4>1, <4>3 DEF GraphGpuJobs
      <4> QED BY <2>4, <4>2, <4>3
    <3>2. j \in GraphJobs(c, hw)
      BY <3>1 DEF GraphJobs
    <3> QED BY <2>4, <3>2 DEF Hidden, WithMounts
  <2> QED BY <1>7, <2>2, <2>3, <2>4 DEF AmdHidden, Chart
<1>8. ASSUME j \in Tooltip(c, hw) PROVE AmdMetrics(hw, kind, ItemMetrics(c.tooltip)) # {}
  <2>1. MeasuredBy(j, c, hw, ItemMetrics(c.tooltip))
    BY <1>1, <1>8, TooltipMeasures
  <2>2. PICK m \in ItemMetrics(c.tooltip), x \in hw["amd"] : m \in x.metrics /\ m \in own
    BY <1>5, <2>1, AmdJobMeasures
  <2>3. x = card
    BY <2>2
  <2> QED BY <1>2, <2>2, <2>3
<1>9. ASSUME NEW m \in ItemMetrics(c.tooltip), m \in own, m \in card.metrics PROVE j \in Tooltip(c, hw)
  <2>1. j \in AmdJobs(hw, m) /\ AmdJobs(hw, m) = MetricJobs(c, hw, m)
    BY <1>9, AmdIsMeasured
  <2>2. PICK i \in c.tooltip : m = i.metric
    BY DEF ItemMetrics
  <2>3. j \in SurfaceJobs(c, hw, c.tooltip)
    BY <2>1, <2>2 DEF SurfaceJobs, ItemJobs
  <2> QED BY <2>3 DEF Tooltip, WithMounts
<1>10. \A m \in AmdHidden(c, hw) \cup ItemMetrics(c.tooltip) : m \in own => m \in ConfiguredCapabilities(c)
  <2>1. "cpu_usage" \notin own /\ "mem_usage" \notin own
    BY DEF FastAmd, SlowAmd
  <2> QED BY <1>4, <2>1, MeasuredIsConfigured
<1> HIDE DEF j, own
<1>11. j \in Hidden(c, hw) <=> AmdMetrics(hw, kind, AmdHidden(c, hw)) # {}
  BY <1>2, <1>6, <1>7
<1>12. j \in Tooltip(c, hw) <=> AmdMetrics(hw, kind, ItemMetrics(c.tooltip)) # {}
  BY <1>2, <1>8, <1>9
<1> QED BY <1>2, <1>10, <1>11, <1>12 DEF j
(* What there is to configure satisfies the assumption.                       *)
LEMMA ConfiguredIsSound ==
  ASSUME DiscoveryAssumption, DiscoveryInv
  PROVE  Sound(catCfg)
  BY DEF DiscoveryAssumption, DiscoveryInv, Sound

(* Only inventories there are can be wanted.                                  *)
LEMMA WantedIsFound ==
  ASSUME DiscoveryAssumption, DiscoveryInv
  PROVE  WantedFamilies \subseteq Families
<1> SUFFICES ASSUME NEW j \in Planned(Plan), j[1] = "HardwareDiscovery" PROVE j[2] \in Families
  BY FamiliesFind DEF WantedFamilies
<1>1. CASE MeasuredBy(j, catCfg, known, HiddenMetrics(catCfg, known) \cup ItemMetrics(catCfg.tooltip))
  <2>1. PICK m \in HiddenMetrics(catCfg, known) \cup ItemMetrics(catCfg.tooltip) :
          j \in MetricJobs(catCfg, known, m)
    BY <1>1 DEF MeasuredBy
  <2>2. m \in Metric
    BY <2>1, ConfiguredIsSound, SoundMetrics DEF HiddenMetrics
  <2> QED BY <2>1, <2>2, KindsOfMetric
<1>2. CASE Unmeasured(j)
  BY <1>2 DEF Unmeasured, HistoryKinds
<1>3. CASE Finding(j)
  BY <1>3 DEF Finding
<1> QED BY <1>1, <1>2, <1>3, PlanMeasures DEF Plan

(* A run takes a copy of what its family finds.                               *)
LEMMA StartFamilyKeeps ==
  ASSUME DiscoveryAssumption, DiscoveryInv, StartFamily
  PROVE  DiscoveryInv'
<1>1. PICK f \in WantedFamilies :
        flight' = Some([family |-> f, copy |-> [p \in UNION Probes[f] |-> known[p]]])
  BY DEF StartFamily
<1>2. UNCHANGED <<machine, known, catCfg, captured, identity, catMoves>>
  BY DEF StartFamily
<1>3. f \in Families
  BY <1>1, WantedIsFound
<1>4. \A p : Found(catCfg, p)' = Found(catCfg, p)
  BY <1>2 DEF Found
<1> DEFINE copy == [p \in Finds(f) |-> known[p]]
<1>5. flight'[1] = [family |-> f, copy |-> copy]
  BY <1>1 DEF Some, Finds
<1>6. DOMAIN copy = Finds(f) /\ \A p \in Finds(f) : copy[p] = known[p]
  OBVIOUS
<1> HIDE DEF copy
<1>7. Whole(copy)
  <2>1. "mounts" \in Part /\ "amd" \in Part
    BY DEF Part
  <2> QED BY <1>6, <2>1 DEF DiscoveryInv, Whole
<1>8. flight'[1].family = f /\ flight'[1].copy = copy
  BY <1>5
<1> QED BY <1>2, <1>3, <1>4, <1>6, <1>7, <1>8 DEF DiscoveryInv, Whole

(* Every step keeps the invariant.                                            *)
LEMMA DiscoveryKeeps ==
  ASSUME DiscoveryAssumption, DiscoveryInv, [DiscoveryNext]_discoveryVars
  PROVE  DiscoveryInv'
<1>1. CASE StartIdentity \/ UNCHANGED discoveryVars
  <2>1. UNCHANGED <<machine, known, catCfg, captured, flight>>
    BY <1>1 DEF StartIdentity, discoveryVars
  <2>2. \A p : Found(catCfg, p)' = Found(catCfg, p)
    BY <2>1 DEF Found
  <2> QED BY <2>1, <2>2 DEF DiscoveryInv, Whole
<1>2. CASE StartFamily
  BY <1>2, StartFamilyKeeps
<1>3. CASE FinishFamily
  BY <1>3, FinishFamilyKeeps
<1>4. CASE FinishIdentity
  BY <1>4, FinishIdentityKeeps
<1>5. CASE Rescan \/ Reload
  BY <1>5, RescansKeep
<1>6. CASE MachineChanges
  BY <1>6, MachineChangesKeeps
<1> QED BY <1>1, <1>2, <1>3, <1>4, <1>5, <1>6 DEF DiscoveryNext

(* An inventory a surface, an alert or the graphs need is wanted.             *)
LEMMA NeededIsWanted ==
  ASSUME NEW f \in SurfaceFamilies(catCfg, catCfg.panel) \cup NotificationFamilies(catCfg)
                   \cup GraphFamilies(catCfg) \cup SurfaceFamilies(catCfg, catCfg.tooltip)
  PROVE  f \in WantedFamilies
<1> DEFINE j == <<"HardwareDiscovery", f>>
<1>1. ASSUME f \in SurfaceFamilies(catCfg, catCfg.panel) \cup NotificationFamilies(catCfg)
                   \cup GraphFamilies(catCfg)
      PROVE  j \in Planned(Plan)
  <2>1. j \in InventoryJobs(SurfaceFamilies(catCfg, catCfg.panel) \cup NotificationFamilies(catCfg)
                              \cup GraphFamilies(catCfg))
    BY <1>1 DEF InventoryJobs, Jobs
  <2> HIDE DEF j
  <2>2. j \in Hidden(catCfg, known)
    BY <2>1 DEF Hidden, WithMounts
  <2> QED BY <2>2 DEF Planned, Plan, SchedulerConfig
<1>2. ASSUME f \in SurfaceFamilies(catCfg, catCfg.tooltip) PROVE j \in Planned(Plan)
  <2>1. j \in InventoryJobs(SurfaceFamilies(catCfg, catCfg.tooltip))
    BY <1>2 DEF InventoryJobs, Jobs
  <2> HIDE DEF j
  <2>2. j \in Tooltip(catCfg, known)
    BY <2>1 DEF Tooltip, WithMounts
  <2> QED BY <2>2 DEF Planned, Plan, SchedulerConfig
<1>3. j \in Planned(Plan)
  BY <1>1, <1>2
<1> QED BY <1>3 DEF WantedFamilies

(* The mounts are wanted wherever the automatic ones are measured: the root   *)
(* is one of them.                                                            *)
LEMMA MountsAreWanted ==
  ASSUME DiscoveryInv, catCfg.mounts = {"auto"},
         "disk_usage" \in ItemMetrics(catCfg.panel) \cup ItemMetrics(catCfg.tooltip) \cup catCfg.notifications
  PROVE  "Mounts" \in WantedFamilies
<1> DEFINE j == <<"DiskUsage", "/">>
<1>1. j \in MetricJobs(catCfg, known, "disk_usage")
  <2>1. "/" \in known["mounts"]
    <3>1. "mounts" \in Part
      BY DEF Part
    <3> QED BY <3>1 DEF DiscoveryInv, Whole
  <2>2. MountsOf(catCfg, known) = known["mounts"]
    BY DEF MountsOf
  <2> QED BY <2>1, <2>2 DEF MetricJobs, Role, FastAmd, SlowAmd, Jobs
<1>2. j[1] = "DiskUsage"
  OBVIOUS
<1> HIDE DEF j
<1>3. ASSUME NEW items, "disk_usage" \in ItemMetrics(items)
      PROVE  j \in SurfaceJobs(catCfg, known, items)
  BY <1>1, <1>3 DEF SurfaceJobs, ItemJobs, ItemMetrics
<1>4. CASE "disk_usage" \in ItemMetrics(catCfg.tooltip)
  <2>1. j \in SurfaceJobs(catCfg, known, catCfg.tooltip)
    BY <1>3, <1>4
  <2>2. Singleton("MountInventory") \in Tooltip(catCfg, known)
    BY <1>2, <2>1 DEF Tooltip, WithMounts
  <2> QED BY <2>2 DEF WantedFamilies, Planned, Plan, SchedulerConfig
<1>5. CASE "disk_usage" \in ItemMetrics(catCfg.panel) \cup catCfg.notifications
  <2>1. j \in SurfaceJobs(catCfg, known, catCfg.panel) \cup NotificationJobs(catCfg, known)
    BY <1>1, <1>3, <1>5 DEF NotificationJobs
  <2>2. Singleton("MountInventory") \in Hidden(catCfg, known)
    BY <1>2, <2>1 DEF Hidden, WithMounts
  <2> QED BY <2>2 DEF WantedFamilies, Planned, Plan, SchedulerConfig
<1> QED BY <1>4, <1>5

(* What two inventories agree on.                                             *)
AgreeOn(k, n, parts) == \A p \in parts : k[p] = n[p]

(* They agree on what a configuration measures with a metric.                 *)
AgreeFor(c, k, n, m) ==
  /\ \A f \in MetricFamily(c, m) : AgreeOn(k, n, Finds(f))
  /\ m = "disk_usage" /\ c.mounts = {"auto"} => k["mounts"] = n["mounts"]

(* A processor reads what is configured of it.                                *)
LEMMA ProcessorsAgree ==
  ASSUME NEW c, NEW k, NEW n,
         \A p \in {"cpu_temp", "cpu_freq", "cpu_turbo"} : p \in ConfiguredCapabilities(c) => k[p] = n[p]
  PROVE  CpuJob(c, k) = CpuJob(c, n)
<1> DEFINE sources(hw) == [p \in {"cpu_temp", "cpu_freq", "cpu_turbo"} |->
                             IF p \in ConfiguredCapabilities(c) THEN hw[p] ELSE {}]
<1>1. sources(k) = sources(n)
  OBVIOUS
<1>2. CpuJob(c, k) = <<"Cpu", sources(k)>> /\ CpuJob(c, n) = <<"Cpu", sources(n)>>
  BY DEF CpuJob
<1> QED BY <1>1, <1>2

(* The jobs of a metric are those of what its families find.                  *)
LEMMA MetricsAgree ==
  ASSUME NEW c, NEW k, NEW n, NEW m \in Metric, AgreeFor(c, k, n, m), CpuJob(c, k) = CpuJob(c, n)
  PROVE  MetricJobs(c, k, m) = MetricJobs(c, n, m)
<1>1. \A f \in MetricFamily(c, m) : \A p \in Finds(f) : k[p] = n[p]
  BY DEF AgreeFor, AgreeOn
<1>2. CASE m \in {"cpu_usage", "cpu_freq", "cpu_turbo", "cpu_temp", "load_avg"}
  BY <1>2 DEF MetricJobs
<1>3. CASE m \in {"mem_usage", "swap_usage", "net_info", "top_process", "system_updates", "server_check"}
  BY <1>3 DEF MetricJobs, Role, FastAmd, SlowAmd
<1>4. CASE m \in {"hd_temp", "fan_speed"}
  <2>1. k["temps"] = n["temps"] /\ k["fans"] = n["fans"]
    BY <1>1, <1>4, FamiliesFind DEF MetricFamily, FastAmd, SlowAmd, Role
  <2> QED BY <1>4, <2>1 DEF MetricJobs, Role, FastAmd, SlowAmd
<1>5. CASE m = "disk_usage"
  <2>1. MountsOf(c, k) = MountsOf(c, n)
    BY <1>5 DEF AgreeFor, MountsOf
  <2> QED BY <1>5, <2>1 DEF MetricJobs, Role, FastAmd, SlowAmd
<1>6. CASE m = "disk_smart"
  <2>1. c.smart => k["smart"] = n["smart"]
    BY <1>1, <1>6, FamiliesFind DEF MetricFamily, FastAmd, SlowAmd, Role
  <2> QED BY <1>6, <2>1 DEF MetricJobs, Role, FastAmd, SlowAmd
<1>7. CASE m = "gpu_nvidia"
  <2>1. k["nvidia"] = n["nvidia"]
    BY <1>1, <1>7, FamiliesFind DEF MetricFamily, FastAmd, SlowAmd, Role
  <2> QED BY <1>7, <2>1 DEF MetricJobs, Role, FastAmd, SlowAmd
<1>8. CASE m \in FastAmd \cup SlowAmd
  <2>1. "Amd" \in MetricFamily(c, m) /\ "amd" \in Finds("Amd")
    BY <1>8, FamiliesFind DEF MetricFamily, FastAmd, SlowAmd, Role
  <2>2. k["amd"] = n["amd"]
    BY <1>1, <2>1
  <2>3. AmdJobs(k, m) = AmdJobs(n, m)
    BY <2>2 DEF AmdJobs
  <2> QED BY <1>8, <2>3 DEF MetricJobs, Role, FastAmd, SlowAmd
<1>9. CASE m \in {"gpu_intel_freq", "gpu_intel_usage"}
  <2>1. k["intel_freq"] = n["intel_freq"] /\ k["intel_pci"] = n["intel_pci"]
    BY <1>1, <1>9, FamiliesFind DEF MetricFamily, FastAmd, SlowAmd, Role
  <2> QED BY <1>9, <2>1 DEF MetricJobs, Role, FastAmd, SlowAmd
<1>10. CASE m \in {"npu", "disk_io"}
  <2>1. /\ m = "npu" => k["npu"] = n["npu"]
        /\ m = "disk_io" => k["disk_io"] = n["disk_io"]
    BY <1>1, <1>10, FamiliesFind DEF MetricFamily, FastAmd, SlowAmd, Role
  <2> QED BY <1>10, <2>1 DEF MetricJobs, Role, FastAmd, SlowAmd
<1>11. CASE m \in {"screen_brightness", "battery_sys"}
  <2>1. /\ m = "screen_brightness" => k["backlight"] = n["backlight"]
        /\ m = "battery_sys" => k["batteries"] = n["batteries"]
    BY <1>1, <1>11, FamiliesFind DEF MetricFamily, FastAmd, SlowAmd, Role
  <2> QED BY <1>11, <2>1 DEF MetricJobs, Role, FastAmd, SlowAmd
<1>12. CASE m = "net_speed"
  <2>1. k["net"] = n["net"]
    BY <1>1, <1>12, FamiliesFind DEF MetricFamily, FastAmd, SlowAmd, Role
  <2> QED BY <1>12, <2>1 DEF MetricJobs, Role, FastAmd, SlowAmd
<1>13. CASE m \in Role
  <2>1. c.unifying[m] = {} /\ c.bolt[m] = {} => k[m] = n[m]
    BY <1>1, <1>13, FamiliesFind DEF MetricFamily, FastAmd, SlowAmd, Role
  <2>2. PeripheralSource(c, k, m) = PeripheralSource(c, n, m)
    BY <2>1 DEF PeripheralSource
  <2>3. \A hw : MetricJobs(c, hw, m) = Jobs("PeripheralBattery", {<<m, s>> : s \in PeripheralSource(c, hw, m)})
    BY <1>13 DEF MetricJobs, Role, FastAmd, SlowAmd
  <2> QED BY <2>2, <2>3
<1> QED BY <1>2, <1>3, <1>4, <1>5, <1>6, <1>7, <1>8, <1>9, <1>10, <1>11, <1>12, <1>13 DEF Metric, FastAmd, SlowAmd

(* So are the jobs of a surface.                                              *)
LEMMA SurfacesAgree ==
  ASSUME NEW c, NEW k, NEW n, NEW items, ItemMetrics(items) \subseteq Metric,
         \A m \in ItemMetrics(items) : AgreeFor(c, k, n, m), CpuJob(c, k) = CpuJob(c, n)
  PROVE  SurfaceJobs(c, k, items) = SurfaceJobs(c, n, items)
<1>1. \A i \in items : MetricJobs(c, k, i.metric) = MetricJobs(c, n, i.metric)
  BY MetricsAgree DEF ItemMetrics
<1>2. \A i \in items : ItemJobs(c, k, i) = ItemJobs(c, n, i)
  BY <1>1 DEF ItemJobs
<1> QED BY <1>2 DEF SurfaceJobs

(* The jobs of the alerts.                                                    *)
LEMMA AlertsAgree ==
  ASSUME NEW c, NEW k, NEW n, c.notifications \subseteq Metric,
         \A m \in c.notifications : AgreeFor(c, k, n, m), CpuJob(c, k) = CpuJob(c, n)
  PROVE  NotificationJobs(c, k) = NotificationJobs(c, n)
<1>1. \A m \in c.notifications : MetricJobs(c, k, m) = MetricJobs(c, n, m)
  BY MetricsAgree
<1> QED BY <1>1 DEF NotificationJobs

(* The jobs of the graphs, of the hardware they draw.                         *)
LEMMA GraphsAgree ==
  ASSUME NEW c, NEW k, NEW n, Graphs(c), CpuJob(c, k) = CpuJob(c, n),
         AgreeOn(k, n, {"nvidia", "amd", "intel_freq", "intel_pci", "net"}),
         Chart(c, "disk") => k["disk_io"] = n["disk_io"],
         Chart(c, "npu") => k["npu"] = n["npu"]
  PROVE  GraphJobs(c, k) = GraphJobs(c, n)
<1>1. k["nvidia"] = n["nvidia"] /\ k["amd"] = n["amd"] /\ k["intel_pci"] = n["intel_pci"] /\ k["net"] = n["net"]
  BY DEF AgreeOn
<1>2. SelectedSource(k) = SelectedSource(n)
  BY <1>1 DEF SelectedSource
<1>3. \A m : AmdJobs(k, m) = AmdJobs(n, m)
  BY <1>1 DEF AmdJobs
<1>4. MetricJobs(c, k, "gpu_nvidia") = MetricJobs(c, n, "gpu_nvidia")
  BY <1>1 DEF MetricJobs, Role, FastAmd, SlowAmd
<1>5. MetricJobs(c, k, "gpu_intel_usage") = MetricJobs(c, n, "gpu_intel_usage")
  BY <1>1 DEF MetricJobs, Role, FastAmd, SlowAmd
<1>6. (UNION {AmdJobs(k, m) : m \in FastAmd}) = UNION {AmdJobs(n, m) : m \in FastAmd}
  BY <1>3
<1>7. GraphGpuJobs(c, k) = GraphGpuJobs(c, n)
  BY <1>1, <1>3, <1>4, <1>5, <1>6 DEF GraphGpuJobs
<1> QED BY <1>1, <1>2, <1>7 DEF GraphJobs

(* A plan is the one of any inventory that agrees on what is measured.        *)
LEMMA PlansAgree ==
  ASSUME NEW c, Sound(c), NEW k, NEW n, CpuJob(c, k) = CpuJob(c, n),
         \A m \in ItemMetrics(c.panel) \cup ItemMetrics(c.tooltip) \cup c.notifications : AgreeFor(c, k, n, m),
         Graphs(c) => GraphJobs(c, k) = GraphJobs(c, n)
  PROVE  SchedulerConfig(c, k) = SchedulerConfig(c, n)
<1>1. ItemMetrics(c.panel) \subseteq Metric /\ ItemMetrics(c.tooltip) \subseteq Metric /\ c.notifications \subseteq Metric
  BY SoundMetrics
<1>2. SurfaceJobs(c, k, c.panel) = SurfaceJobs(c, n, c.panel)
  BY <1>1, SurfacesAgree
<1>3. SurfaceJobs(c, k, c.tooltip) = SurfaceJobs(c, n, c.tooltip)
  BY <1>1, SurfacesAgree
<1>4. NotificationJobs(c, k) = NotificationJobs(c, n)
  BY <1>1, AlertsAgree
<1>5. Hidden(c, k) = Hidden(c, n)
  BY <1>2, <1>4 DEF Hidden
<1>6. Tooltip(c, k) = Tooltip(c, n)
  BY <1>3 DEF Tooltip
<1>7. StartupPanel(c, k) = StartupPanel(c, n)
  BY <1>2 DEF StartupPanel
<1> QED BY <1>5, <1>6, <1>7 DEF SchedulerConfig

(* The processor's inventory is needed by whoever configures it.              *)
LEMMA ProcessorIsNeeded ==
  ASSUME NEW c, Sound(c), NEW p \in {"cpu_temp", "cpu_freq", "cpu_turbo"}, p \in ConfiguredCapabilities(c)
  PROVE  "Cpu" \in SurfaceFamilies(c, c.panel) \cup NotificationFamilies(c)
                   \cup GraphFamilies(c) \cup SurfaceFamilies(c, c.tooltip)
<1>1. \A m \in {"cpu_freq", "cpu_turbo", "cpu_temp"} : "Cpu" \in MetricFamily(c, m)
  BY DEF MetricFamily, FastAmd, SlowAmd, Role
<1>2. CASE p \in UNION {MetricCapabilities(m) : m \in ItemMetrics(c.panel \cup c.tooltip)}
  <2>1. PICK m \in ItemMetrics(c.panel \cup c.tooltip) : p \in MetricCapabilities(m)
    BY <1>2
  <2>2. m \in {"cpu_freq", "cpu_turbo", "cpu_temp"}
    BY <2>1 DEF MetricCapabilities
  <2>3. m \in ItemMetrics(c.panel) \cup ItemMetrics(c.tooltip)
    BY <2>1 DEF ItemMetrics
  <2> QED BY <1>1, <2>2, <2>3 DEF SurfaceFamilies
<1>3. CASE p \in c.notifications
  BY <1>1, <1>3 DEF NotificationFamilies
<1>4. CASE Chart(c, "temperature")
  BY <1>4 DEF GraphFamilies
<1>5. p \notin GraphsPageCapabilities /\ p \notin {"disk_io", "npu"}
  BY DEF GraphsPageCapabilities, FastAmd
<1> QED BY <1>2, <1>3, <1>4, <1>5 DEF ConfiguredCapabilities

(* The inventory asked for is enough.                                         *)
LEMMA WantedSuffices ==
  ASSUME DiscoveryAssumption, DiscoveryInv
  PROVE  InventorySuffices
<1> SUFFICES ASSUME WantedFamilies \subseteq captured
             PROVE  SchedulerConfig(catCfg, known) = SchedulerConfig(catCfg, Present)
  BY DEF InventorySuffices, Plan
<1> DEFINE needed == SurfaceFamilies(catCfg, catCfg.panel) \cup NotificationFamilies(catCfg)
                       \cup GraphFamilies(catCfg) \cup SurfaceFamilies(catCfg, catCfg.tooltip)
<1>1. ASSUME NEW f \in WantedFamilies PROVE AgreeOn(known, Present, Finds(f))
  <2>1. f \in captured /\ f \in Families
    BY DEF DiscoveryInv
  <2>2. \A p \in Finds(f) : p \in Part /\ known[p] = Found(catCfg, p)
    BY <2>1, FamiliesFindParts DEF DiscoveryInv
  <2> QED BY <2>2 DEF AgreeOn, Present
<1>2. \A f \in needed : AgreeOn(known, Present, Finds(f))
  BY <1>1, NeededIsWanted
<1>3. CpuJob(catCfg, known) = CpuJob(catCfg, Present)
  <2>1. Sound(catCfg)
    BY ConfiguredIsSound
  <2>2. ASSUME NEW p \in {"cpu_temp", "cpu_freq", "cpu_turbo"}, p \in ConfiguredCapabilities(catCfg)
        PROVE  known[p] = Present[p]
    <3>1. "Cpu" \in needed
      BY <2>1, <2>2, ProcessorIsNeeded
    <3>2. p \in Finds("Cpu")
      BY FamiliesFind
    <3> QED BY <1>2, <3>1, <3>2 DEF AgreeOn
  <2> QED BY <2>2, ProcessorsAgree
<1>4. ASSUME NEW m \in ItemMetrics(catCfg.panel) \cup ItemMetrics(catCfg.tooltip) \cup catCfg.notifications
      PROVE  AgreeFor(catCfg, known, Present, m)
  <2>1. MetricFamily(catCfg, m) \subseteq needed
    BY DEF SurfaceFamilies, NotificationFamilies
  <2>2. ASSUME m = "disk_usage", catCfg.mounts = {"auto"} PROVE known["mounts"] = Present["mounts"]
    <3>1. "Mounts" \in WantedFamilies
      BY <2>2, MountsAreWanted
    <3>2. "mounts" \in Finds("Mounts")
      BY FamiliesFind
    <3> QED BY <1>1, <3>1, <3>2 DEF AgreeOn
  <2> QED BY <1>2, <2>1, <2>2 DEF AgreeFor
<1>5. ASSUME Graphs(catCfg) PROVE GraphJobs(catCfg, known) = GraphJobs(catCfg, Present)
  <2>1. /\ {"Nvidia", "Amd", "Intel", "Network"} \subseteq needed
        /\ Chart(catCfg, "disk") => "DiskIo" \in needed
        /\ Chart(catCfg, "npu") => "AmdNpu" \in needed
    BY <1>5 DEF GraphFamilies
  <2>2. /\ {"nvidia"} = Finds("Nvidia") /\ {"amd"} = Finds("Amd") /\ {"intel_freq", "intel_pci"} = Finds("Intel")
        /\ "net" \in Finds("Network") /\ "disk_io" \in Finds("DiskIo") /\ "npu" \in Finds("AmdNpu")
    BY FamiliesFind
  <2> HIDE DEF needed
  <2>3. AgreeOn(known, Present, {"nvidia", "amd", "intel_freq", "intel_pci", "net"})
    BY <1>2, <2>1, <2>2 DEF AgreeOn
  <2>4. /\ Chart(catCfg, "disk") => known["disk_io"] = Present["disk_io"]
        /\ Chart(catCfg, "npu") => known["npu"] = Present["npu"]
    BY <1>2, <2>1, <2>2 DEF AgreeOn
  <2> QED BY <1>3, <1>5, <2>3, <2>4, GraphsAgree
<1> QED BY <1>3, <1>4, <1>5, ConfiguredIsSound, PlansAgree

(* scheduler_config and the discovery fit in every state of the invariant.    *)
LEMMA InvFits ==
  ASSUME DiscoveryAssumption, DiscoveryInv
  PROVE  CatalogueHolds
<1>1. Sound(catCfg)
  BY ConfiguredIsSound
<1>2. InventorySuffices
  BY WantedSuffices
<1>3. JobsAreCapable
  BY <1>1, PlanIsCapable DEF JobsAreCapable, Plan
<1>4. AmdMetricsFit
  <2>1. \A x, y \in known["amd"] : x = y
    <3>1. "amd" \in Part
      BY DEF Part
    <3> QED BY <3>1 DEF DiscoveryInv, Whole
  <2>2. Plan.hidden = Hidden(catCfg, known) /\ Plan.tooltip = Tooltip(catCfg, known)
    BY DEF Plan, SchedulerConfig
  <2> SUFFICES ASSUME NEW card \in known["amd"], NEW kind \in {"AmdFast", "AmdSlow"}
               PROVE  LET hidden == AmdMetrics(known, kind, AmdHidden(catCfg, known))
                          tooltip == AmdMetrics(known, kind, ItemMetrics(catCfg.tooltip))
                      IN  /\ (<<kind, card.pci>> \in Plan.hidden) = (hidden # {})
                          /\ (<<kind, card.pci>> \in Plan.tooltip) = (tooltip # {})
                          /\ hidden \cup tooltip \subseteq ConfiguredCapabilities(catCfg)
    BY DEF AmdMetricsFit
  <2>3. /\ <<kind, card.pci>> \in Hidden(catCfg, known)
             <=> AmdMetrics(known, kind, AmdHidden(catCfg, known)) # {}
        /\ <<kind, card.pci>> \in Tooltip(catCfg, known)
             <=> AmdMetrics(known, kind, ItemMetrics(catCfg.tooltip)) # {}
        /\ AmdMetrics(known, kind, AmdHidden(catCfg, known))
             \cup AmdMetrics(known, kind, ItemMetrics(catCfg.tooltip)) \subseteq ConfiguredCapabilities(catCfg)
    BY <1>1, <2>1, AmdFits
  <2>4. \A a \in BOOLEAN, b \in BOOLEAN : (a <=> b) => a = b
    OBVIOUS
  <2> QED BY <2>2, <2>3, <2>4
<1> QED BY <1>2, <1>3, <1>4 DEF CatalogueHolds

(* The catalogue and the discovery fit in every behaviour of the discovery.   *)
LEMMA DiscoveryHolds == DiscoverySpec => []CatalogueHolds
<1>1. DiscoveryInit => DiscoveryInv
  BY DiscoveryInitKeeps, DiscoveryAssumption
<1>2. DiscoveryInv /\ [DiscoveryNext]_discoveryVars => DiscoveryInv'
  BY DiscoveryKeeps, DiscoveryAssumption
<1>3. DiscoveryInv => CatalogueHolds
  BY InvFits, DiscoveryAssumption
<1> QED BY <1>1, <1>2, <1>3, PTL DEF DiscoverySpec

-----------------------------------------------------------------------------
(* The properties the run of the sensors checks.                              *)

(* A disk, a status file and an NPU that are replaced or not asked for any    *)
(* more take what was read of them along, whatever the reads before and after *)
(* said: reconcile_sources of their owners and invalidate_scheduled_job.      *)
THEOREM SourcesAreTheirOwn == DiskSpec /\ ExternalSpec /\ NpuSpec => []SourcesAgree
<1>1. DisksAgree /\ ExternalAgrees /\ NpuAgrees => SourcesAgree
  BY DEF SourcesAgree
<1> QED BY <1>1, DisksAreRead, FilesAreRead, NpuIsRead, PTL

(* A battery shows what was read of it alone, and a level is the answer of the*)
(* Bolt device that was asked, whatever the receiver reports in between:      *)
(* PowerState and the requests of hid.rs.                                     *)
THEOREM LevelsAreTheirOwn == PowerSpec /\ BoltSpec => []PowerHolds
<1>1. BatteriesAgree /\ BoltAnswersHold => PowerHolds
  BY DEF PowerHolds
<1> QED BY <1>1, BatteriesAreRead, BoltAnswersAreItsOwn, PTL

(* What is shown and drawn of the processor, the processes and the memory was *)
(* measured, of the sensor, the cores, the process and the file that are      *)
(* there, whatever changes in between: CpuState, ProcessState and MemoryState *)
(* with their histories.                                                      *)
THEOREM ProcessorIsMeasured == CpuSpec /\ ProcessSpec /\ MemorySpec => []ProcessorHolds
<1>1. CpuSamplesHold /\ ProcessesHold /\ MemoryHolds => ProcessorHolds
  BY DEF ProcessorHolds
<1> QED BY <1>1, CpuIsMeasured, ProcessesAreScanned, MemoryIsMeasured, PTL

(* What scheduler_config demands and what discovery makes known fit, for any  *)
(* hardware and any configurations: the inventory the plan demands suffices   *)
(* for the jobs of it, no job runs without its capability, and the AMD jobs   *)
(* are demanded where their metrics are.                                      *)
THEOREM DiscoverySuffices == DiscoverySpec => []CatalogueFits
<1>1. CatalogueHolds => CatalogueFits
  BY DEF CatalogueFits
<1> QED BY <1>1, DiscoveryHolds, PTL
===============================================================================
