--------------------------- MODULE SchedulerPolicy ---------------------------
(* The timing arithmetic of the scheduler (src/scheduler/machine/policy.rs).  *)
(* Instants and durations are natural numbers of ticks; an absent instant,    *)
(* Option::None in the code, is None.                                         *)
EXTENDS Integers

None == -1

OptTime == Nat \cup {None}

Due(deadline, now) == deadline # None /\ deadline <= now

Earlier(t, u) == IF t = None THEN u ELSE IF u = None \/ t <= u THEN t ELSE u

SatSub(t, d) == IF d <= t THEN t - d ELSE 0

(* Exponential backoff: base, 2*base, 4*base ..., never above the freshness   *)
(* of the job (nor below the base).                                           *)
RetryDelay(base, failures, freshness) ==
  LET cap   == IF base <= freshness THEN freshness ELSE base
      delay == base * 2^(failures - 1)
  IN  IF delay \in 0..cap THEN delay ELSE cap

(* Fault: a deadline just reached is not passed.                              *)
AdvanceToDue(deadline, cadence, now) ==
  IF cadence = 0 THEN now
  ELSE deadline + ((SatSub(now, deadline) + cadence - 1) \div cadence) * cadence

(* The first point of the grid deadline + k*cadence that lies after now; a    *)
(* deadline still ahead moves one cadence on, as the elapsed time saturates.  *)
AdvancePast(deadline, cadence, now) ==
  IF cadence = 0 THEN now
  ELSE deadline + (SatSub(now, deadline) \div cadence + 1) * cadence

(* Fault: the first point after now instead of the last one before it.        *)
FirstDueAfter(deadline, cadence, now) ==
  IF cadence = 0 \/ deadline >= now THEN deadline
  ELSE deadline + ((now - deadline) \div cadence + 1) * cadence

(* The last point of the grid that is not after now.                          *)
LatestDueAtOrBefore(deadline, cadence, now) ==
  IF cadence = 0 \/ deadline >= now THEN deadline
  ELSE deadline + ((now - deadline) \div cadence) * cadence

(* Fault: the deadline itself is counted as skipped.                          *)
SkippedWithDeadline(deadline, cadence, now) ==
  IF cadence = 0 \/ now <= deadline THEN 0
  ELSE (now - deadline) \div cadence + 1

(* How many grid points after the deadline itself have passed.                *)
SkippedIntervals(deadline, cadence, now) ==
  IF cadence = 0 \/ now <= deadline THEN 0
  ELSE (now - deadline) \div cadence

(* The same, counting the deadline.                                           *)
DueIntervals(deadline, cadence, now) ==
  IF cadence = 0 \/ now < deadline THEN 0
  ELSE SkippedIntervals(deadline, cadence, now) + 1
=============================================================================
