---------------------------- MODULE RetainedSamples ----------------------------
(* What an owner keeps of one metric: the newest valid sample and the one     *)
(* before it.  A sample that may be missing is a sequence of at most one.     *)
(* The times and the outcome of the last attempt are left out: the reports of *)
(* the profile and of an NPU run read them, no sample depends on them.        *)
EXTENDS Integers, Sequences

None == <<>>
Some(x) == <<x>>

Sample(value, at) == [value |-> value, at |-> at]

NotRetained == [latest |-> None, previous |-> None]

RecordValue(r, value, at) ==
  [latest |-> Some(Sample(value, at)), previous |-> r.latest]

RecordBaseline(r) == r

RecordFailure(r) == r

RecordAbsence(r) == NotRetained

(* The newest retained sample that was captured no later than the cutoff.     *)
NoLater(sample, cutoff) == IF sample # None /\ sample[1].at <= cutoff THEN sample ELSE None

LatestAtOrBefore(r, cutoff) == NoLater(r.latest, cutoff)

SampleAtOrBefore(r, cutoff) ==
  IF LatestAtOrBefore(r, cutoff) # None THEN LatestAtOrBefore(r, cutoff)
  ELSE NoLater(r.previous, cutoff)

(* The outcome of a read.                                                     *)
Value(v) == [kind |-> "Value", value |-> v]
Baseline == [kind |-> "Baseline"]
Absent == [kind |-> "Absent"]
Failed == [kind |-> "Failed"]

CommitAttempt(r, outcome, at) ==
  CASE outcome.kind = "Value" -> RecordValue(r, outcome.value, at)
    [] outcome.kind = "Baseline" -> RecordBaseline(r)
    [] outcome.kind = "Absent" -> RecordAbsence(r)
    [] outcome.kind = "Failed" -> RecordFailure(r)

(* A series keeps its newest points.                                          *)
Trimmed(series, length) ==
  IF Len(series) > length THEN SubSeq(series, Len(series) - length + 1, Len(series)) ELSE series

Values(r) == {r.latest[i] : i \in DOMAIN r.latest} \cup {r.previous[i] : i \in DOMAIN r.previous}
=============================================================================
