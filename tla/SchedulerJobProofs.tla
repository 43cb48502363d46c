------------------------- MODULE SchedulerJobProofs -------------------------
(* What holds of each job for itself: histories record their points in order  *)
(* and of a source that was read, fast jobs keep their phase, page work is    *)
(* demanded.                                                                  *)
EXTENDS SchedulerOwnerProofs

-----------------------------------------------------------------------------
(* The inductive invariant.                                                   *)

IsFast(rt) == rt.spec.timing = "FastDisplay"

(* Jobs are specified as in a plan.                                           *)
Catalogued(s) ==
  \A j \in Jobs(s) :
    LET spec   == s.jobs[j].spec
        source == spec.history_source
    IN  /\ spec.timing = "History" => spec.amd = NoAmd /\ j \notin Discovery
        /\ source # NoJob => spec.timing = "History" /\ OwnerOf[source] = OwnerOf[j]
        /\ source \in Jobs(s) => s.jobs[source].spec.timing # "History"

(* The points of a runtime are in order.  A history is never retried, which   *)
(* would make it pending without a point.                                     *)
Points(rt) == {t.history : t \in rt.in_flight}

Punctual(rt) ==
  IF IsHistory(rt)
  THEN /\ rt.retry_due = None
       /\ rt.pending_since = None <=> rt.pending_history = None
       /\ \A p \in Points(rt) \cup {rt.pending_history} : p < rt.nominal_due
       /\ \A p \in Points(rt) : p # None /\ (rt.pending_history # None => p < rt.pending_history)
  ELSE rt.pending_history = None /\ Points(rt) \subseteq {None}

HistoriesKept(s) ==
  /\ Catalogued(s)
  /\ \A j \in Jobs(s) :
       /\ Punctual(s.jobs[j])
       /\ s.jobs[j].in_flight # {} => SourceReady(s, s.jobs[j])

(* Fast jobs are due FAST_PREFETCH before a point of the display's grid.      *)
OnGrid(s, due) == (s.next_display - FAST_PREFETCH - due) % s.display_interval = 0

InPhase(s) ==
  /\ s.lifecycle # "Unstarted" => s.next_display # None
  /\ s.next_display # None =>
       s.next_display >= FAST_PREFETCH /\ s.display_interval >= FAST_PREFETCH
  /\ \A j \in Jobs(s) :
       IsFast(s.jobs[j]) => /\ s.jobs[j].spec.freshness = s.display_interval
                            /\ OnGrid(s, s.jobs[j].nominal_due)

(* Page work in flight is among the jobs in D.                                *)
Wanted(s, D) == \A j \in Jobs(s) \cap PageWork : s.jobs[j].in_flight # {} => j \in D

Kept(s) == HistoriesKept(s) /\ InPhase(s) /\ Wanted(s, CurrentDemand(s))

JobsInv == OwnershipInv /\ Kept(sched)

-----------------------------------------------------------------------------
(* What most operators do to a runtime: nothing but to mark it pending, to    *)
(* clear it, or to cancel its run.                                            *)

Calm(rt, rv) ==
  /\ rv.spec = rt.spec /\ rv.has_sample = rt.has_sample
  /\ rv.in_flight \in {rt.in_flight, {}}
  /\ IF IsHistory(rt)
     THEN /\ rv.nominal_due = rt.nominal_due
          /\ rt.retry_due = None => rv.retry_due = None
          /\ \/ rv.pending_since = rt.pending_since /\ rv.pending_history = rt.pending_history
             \/ rv.pending_since = None /\ rv.pending_history = None
     ELSE rt.pending_history = None => rv.pending_history = None

Steady(s, u) ==
  /\ Jobs(u) = Jobs(s)
  /\ \A j \in Jobs(s) : Calm(s.jobs[j], u.jobs[j])

(* The deadlines of fast jobs and the grid they are on.                       *)
SamePhase(s, u) ==
  /\ u.next_display = s.next_display /\ u.display_interval = s.display_interval
  /\ u.lifecycle = s.lifecycle
  /\ \A j \in Jobs(s) : IsFast(s.jobs[j]) => u.jobs[j].nominal_due = s.jobs[j].nominal_due

SameSettings(s, u) ==
  /\ u.demand = s.demand /\ u.effective_presented = s.effective_presented
  /\ u.selected_page = s.selected_page /\ u.lifecycle = s.lifecycle
  /\ u.display_interval = s.display_interval

(* u is a successor of s as most operators leave it.                          *)
Gentle(s, u) ==
  /\ Sound(u) /\ Steady(s, u) /\ SameSettings(s, u)
  /\ InPhase(s) => InPhase(u)

-----------------------------------------------------------------------------
(* Consequences.                                                              *)

(* Soundness types runtimes.                                                  *)
LEMMA SoundRuntime ==
  ASSUME NEW s, Sound(s)
  PROVE  \A j \in Jobs(s) : s.jobs[j] \in JobRuntime /\ j \in JobId
  BY RuntimeOf DEF Sound

LEMMA CalmSelf ==
  ASSUME NEW rt
  PROVE  Calm(rt, rt)
  BY DEF Calm

LEMMA SteadySelf ==
  ASSUME NEW s, NEW u, u.jobs = s.jobs
  PROVE  Steady(s, u)
  BY CalmSelf DEF Steady, Jobs

LEMMA CalmTransitive ==
  ASSUME NEW rt, NEW rv, NEW rw, Calm(rt, rv), Calm(rv, rw)
  PROVE  Calm(rt, rw)
  BY DEF Calm, IsHistory

LEMMA SteadyTransitive ==
  ASSUME NEW s, NEW u, NEW v, Steady(s, u), Steady(u, v)
  PROVE  Steady(s, v)
  BY CalmTransitive DEF Steady

LEMMA GentleTransitive ==
  ASSUME NEW s, NEW u, NEW v, Gentle(s, u), Gentle(u, v)
  PROVE  Gentle(s, v)
  BY SteadyTransitive DEF Gentle, SameSettings

LEMMA GentleSelf ==
  ASSUME NEW s, Sound(s)
  PROVE  Gentle(s, s)
  BY SteadySelf DEF Gentle, SameSettings

(* A calm step keeps a runtime punctual.                                      *)
LEMMA CalmPunctual ==
  ASSUME NEW rt \in JobRuntime, NEW rv \in JobRuntime, Calm(rt, rv), Punctual(rt)
  PROVE  Punctual(rv)
<1>1. IsHistory(rv) <=> IsHistory(rt)
  BY DEF Calm, IsHistory
<1>2. Points(rv) \subseteq Points(rt)
  BY DEF Calm, Points
<1>3. CASE IsHistory(rt)
  <2>1. \A p \in Points(rt) \cup {rt.pending_history} : p < rt.nominal_due
    BY <1>3 DEF Punctual
  <2>2. rt.pending_history \in OptTime /\ rt.nominal_due \in OptTime
    BY DEF JobRuntime
  <2>3. None < rt.nominal_due
    BY <2>1, <2>2 DEF OptTime, None
  <2> QED BY <1>1, <1>2, <1>3, <2>3 DEF Punctual, Calm
<1>4. CASE ~IsHistory(rt)
  BY <1>1, <1>2, <1>4 DEF Punctual, Calm
<1> QED BY <1>3, <1>4

(* The catalogue is about the specs alone.                                    *)
LEMMA SameCatalogue ==
  ASSUME NEW s, NEW u, Jobs(u) = Jobs(s), Catalogued(s),
         \A j \in Jobs(s) : u.jobs[j].spec = s.jobs[j].spec
  PROVE  Catalogued(u)
<1>1. ASSUME NEW j \in Jobs(s)
      PROVE  LET spec   == u.jobs[j].spec
                 source == spec.history_source
             IN  /\ spec.timing = "History" => spec.amd = NoAmd /\ j \notin Discovery
                 /\ source # NoJob =>
                      spec.timing = "History" /\ OwnerOf[source] = OwnerOf[j]
                 /\ source \in Jobs(u) => u.jobs[source].spec.timing # "History"
  <2> DEFINE spec == s.jobs[j].spec
             source == spec.history_source
  <2>1. u.jobs[j].spec = spec /\ source \in Jobs(s) => u.jobs[source].spec = s.jobs[source].spec
    OBVIOUS
  <2>2. /\ spec.timing = "History" => spec.amd = NoAmd /\ j \notin Discovery
        /\ source # NoJob => spec.timing = "History" /\ OwnerOf[source] = OwnerOf[j]
        /\ source \in Jobs(s) => s.jobs[source].spec.timing # "History"
    BY DEF Catalogued
  <2>3. u.jobs[j].spec.history_source = source
    OBVIOUS
  <2> QED BY <2>1, <2>2, <2>3
<1> QED BY <1>1 DEF Catalogued

(* A steady step keeps the histories.                                         *)
LEMMA SteadyHistories ==
  ASSUME NEW s, Sound(s), NEW u, Sound(u), Steady(s, u), HistoriesKept(s)
  PROVE  HistoriesKept(u)
<1>1. Jobs(u) = Jobs(s) /\ \A j \in Jobs(s) : Calm(s.jobs[j], u.jobs[j])
  BY DEF Steady
<1>2. Catalogued(u)
  BY <1>1 DEF HistoriesKept, Catalogued, Calm
<1>3. ASSUME NEW j \in Jobs(s)
      PROVE  Punctual(u.jobs[j])
  BY <1>1, SoundRuntime, CalmPunctual DEF HistoriesKept
<1>4. ASSUME NEW j \in Jobs(s), u.jobs[j].in_flight # {}
      PROVE  SourceReady(u, u.jobs[j])
  <2>1. SourceReady(s, s.jobs[j])
    BY <1>1, <1>4 DEF HistoriesKept, Calm
  <2> QED BY <1>1, <2>1 DEF SourceReady, Calm
<1> QED BY <1>1, <1>2, <1>3, <1>4 DEF HistoriesKept

LEMMA SteadyWanted ==
  ASSUME NEW s, NEW u, Steady(s, u), NEW D, Wanted(s, D)
  PROVE  Wanted(u, D)
  BY DEF Steady, Wanted, Calm

LEMMA SettingsDemand ==
  ASSUME NEW s, NEW u, SameSettings(s, u)
  PROVE  CurrentDemand(u) = CurrentDemand(s)
  BY DEF SameSettings, CurrentDemand

LEMMA GentleKept ==
  ASSUME NEW s, Sound(s), Kept(s), NEW u, Gentle(s, u)
  PROVE  Kept(u)
  BY SteadyHistories, SteadyWanted, SettingsDemand DEF Gentle, Kept

LEMMA SamePhaseKept ==
  ASSUME NEW s, NEW u, Steady(s, u), SamePhase(s, u), InPhase(s)
  PROVE  InPhase(u)
  BY DEF Steady, SamePhase, InPhase, IsFast, OnGrid, Calm

-----------------------------------------------------------------------------
(* Publications and the display.                                              *)

LEMMA PublishGentle ==
  ASSUME NEW s, Sound(s), NEW reason \in PublishReason, NEW deadline \in OptTime,
         NEW skipped \in Nat
  PROVE  /\ Gentle(s, PublishTooltip(s, reason))
         /\ Gentle(s, PublishFull(s, reason, deadline, skipped))
         /\ PublishFull(s, reason, deadline, skipped).jobs = s.jobs
         /\ PublishFull(s, reason, deadline, skipped).next_display = s.next_display
<1>1. ASSUME NEW u, Sound(u), u.jobs = s.jobs, SameSettings(s, u),
             u.next_display = s.next_display
      PROVE  Gentle(s, u)
  <2>1. Steady(s, u) /\ SamePhase(s, u)
    BY <1>1, SteadySelf DEF SamePhase, SameSettings
  <2> QED BY <1>1, <2>1, SamePhaseKept DEF Gentle
<1>2. /\ Sound(PublishTooltip(s, reason))
      /\ Sound(PublishFull(s, reason, deadline, skipped))
  BY PublishSound DEF Follows
<1>3. LET u == PublishTooltip(s, reason)
      IN  u.jobs = s.jobs /\ SameSettings(s, u) /\ u.next_display = s.next_display
  BY DEF PublishTooltip, IssuePublish, Sound, IsState, SameSettings
<1>4. LET u == PublishFull(s, reason, deadline, skipped)
      IN  u.jobs = s.jobs /\ SameSettings(s, u) /\ u.next_display = s.next_display
  BY DEF PublishFull, IssuePublish, Sound, IsState, SameSettings
<1> QED BY <1>1, <1>2, <1>3, <1>4

(* Anchored anew, fast jobs are in phase.                                     *)
LEMMA ReanchorFastGentle ==
  ASSUME NEW s, Sound(s)
  PROVE  LET u == ReanchorFast(s)
         IN  /\ Sound(u) /\ Steady(s, u) /\ SameSettings(s, u)
             /\ u.next_display = s.next_display
             /\ (/\ s.next_display # None /\ s.next_display >= FAST_PREFETCH
                 /\ s.display_interval >= FAST_PREFETCH
                 /\ \A j \in Jobs(s) : IsFast(s.jobs[j]) =>
                      s.jobs[j].spec.freshness = s.display_interval) => InPhase(u)
<1> DEFINE u == ReanchorFast(s)
           due == FastDue(s.next_display)
           f == [j \in DOMAIN s.jobs |-> IF s.jobs[j].spec.timing = "FastDisplay"
                   THEN [s.jobs[j] EXCEPT !.nominal_due = due] ELSE s.jobs[j]]
<1>1. Sound(u) /\ IsState(s)
  BY ReanchorFastSound DEF Follows, Sound
<1>2. s.next_display = None => u = s
  BY DEF ReanchorFast
<1>3. s.next_display # None => u = [s EXCEPT !.jobs = f]
  BY DEF ReanchorFast
<1> HIDE DEF u, due
<1>4. SameSettings(s, u) /\ u.next_display = s.next_display
  BY <1>1, <1>2, <1>3 DEF IsState, SameSettings
<1>5. \A j \in Jobs(s) : /\ Calm(s.jobs[j], f[j]) /\ f[j].spec = s.jobs[j].spec
                         /\ IsFast(s.jobs[j]) => f[j].nominal_due = due
  <2>1. \A rt \in JobRuntime : rt.spec.timing = "FastDisplay" =>
          /\ Calm(rt, [rt EXCEPT !.nominal_due = due])
          /\ [rt EXCEPT !.nominal_due = due].spec = rt.spec
          /\ [rt EXCEPT !.nominal_due = due].nominal_due = due
    BY DEF Calm, JobRuntime, IsHistory
  <2> QED BY <2>1, SoundRuntime, CalmSelf DEF Jobs, IsFast
<1>6. s.next_display # None => u.jobs = f /\ Jobs(u) = Jobs(s)
  BY <1>1, <1>3 DEF IsState, Jobs
<1> HIDE DEF f
<1>7. Steady(s, u)
  BY <1>2, <1>5, <1>6, SteadySelf DEF Steady
<1>8. ASSUME s.next_display # None, s.next_display >= FAST_PREFETCH,
             s.display_interval >= FAST_PREFETCH,
             \A j \in Jobs(s) : IsFast(s.jobs[j]) =>
               s.jobs[j].spec.freshness = s.display_interval
      PROVE  InPhase(u)
  <2>1. s.next_display \in Nat /\ s.display_interval \in Nat \ {0} /\ FAST_PREFETCH \in Nat
    BY <1>1, <1>8, TimesAssumption DEF IsState, OptTime
  <2>2. due = s.next_display - FAST_PREFETCH
    BY <1>8, <2>1 DEF FastDue, SatSub, due
  <2>3. OnGrid(u, due)
    BY <1>4, <2>1, <2>2 DEF OnGrid, SameSettings
  <2> QED BY <1>4, <1>5, <1>6, <1>8, <2>3 DEF InPhase, SameSettings, IsFast
<1> QED BY <1>1, <1>4, <1>7, <1>8 DEF u

(* What is on the grid stays on it as either end moves by whole intervals.    *)
LEMMA GridMoves ==
  ASSUME NEW x \in Int, NEW c \in Nat \ {0}, NEW k \in Nat, x % c = 0
  PROVE  (x + k * c) % c = 0 /\ (x - k * c) % c = 0
<1>1. \A i \in Int : (i * c) % c = 0
  OBVIOUS
<1> DEFINE q == x \div c
<1>2. q \in Int /\ x = q * c
  OBVIOUS
<1> HIDE DEF q
<1>3. x + k * c = (q + k) * c /\ x - k * c = (q - k) * c
  BY <1>2
<1> QED BY <1>1, <1>2, <1>3

(* The first paint.                                                           *)
LEMMA IssueFirstPaintGentle ==
  ASSUME NEW s, Sound(s), NEW reason \in PublishReason
  PROVE  Gentle(s, IssueFirstPaint(s, reason))
<1> DEFINE skipped == IF s.next_display = None THEN 0
                      ELSE DueIntervals(s.next_display, s.display_interval, s.now)
           painted == [s EXCEPT !.first_paint_issued = TRUE, !.first_paint_deadline = None,
                                !.first_paint_waiting = {}]
           next    == AdvancePast(s.next_display, s.display_interval, s.now)
           shifted == [painted EXCEPT !.next_display = next]
           moved   == IF Due(s.next_display, s.now) THEN ReanchorFast(shifted) ELSE painted
           result  == IssueFirstPaint(s, reason)
<1>1. IsState(s) /\ s.now \in Nat /\ s.display_interval \in Nat \ {0}
      /\ s.next_display \in OptTime
  BY DEF Sound, IsState
<1>2. skipped \in Nat
  BY <1>1, PolicyTypes DEF OptTime
<1>3. /\ IsState(painted) /\ SameRuns(s, painted) /\ SameEra(s, painted)
      /\ painted.jobs = s.jobs /\ SameSettings(s, painted)
      /\ painted.next_display = s.next_display
  BY <1>1 DEF IsState, SameRuns, SameEra, Jobs, SameSettings, OptTime
<1>4. Gentle(s, painted)
  <2>1. Sound(painted)
    BY <1>3, QuietSound DEF Follows
  <2>2. Steady(s, painted) /\ SamePhase(s, painted)
    BY <1>3, SteadySelf DEF SamePhase, SameSettings
  <2> QED BY <1>3, <2>1, <2>2, SamePhaseKept DEF Gentle
<1>5. result = IF s.first_paint_issued THEN s ELSE PublishFull(moved, reason, None, skipped)
  BY DEF IssueFirstPaint
<1> HIDE DEF skipped, result
<1>6. ASSUME Due(s.next_display, s.now)
      PROVE  Gentle(s, ReanchorFast(shifted))
  <2>1. next \in Nat /\ next > s.next_display
    BY <1>1, <1>6, AdvancePastGrid DEF Due, OptTime
  <2> HIDE DEF next
  <2>2. /\ IsState(shifted) /\ SameRuns(painted, shifted) /\ SameEra(painted, shifted)
        /\ shifted.jobs = painted.jobs /\ SameSettings(painted, shifted)
        /\ shifted.next_display = next
    BY <1>3, <2>1 DEF IsState, SameRuns, SameEra, Jobs, SameSettings, OptTime
  <2> HIDE DEF shifted, painted
  <2>3. Sound(shifted)
    BY <1>4, <2>2, QuietSound DEF Follows, Gentle
  <2> DEFINE v == ReanchorFast(shifted)
  <2>4. /\ Sound(v) /\ Steady(shifted, v) /\ SameSettings(shifted, v)
        /\ v.next_display = next
    BY <2>2, <2>3, ReanchorFastGentle
  <2>5. InPhase(s) => InPhase(v)
    <3>1. InPhase(s) => /\ next # None /\ next >= FAST_PREFETCH
                        /\ shifted.display_interval >= FAST_PREFETCH
      BY <1>1, <1>3, <1>6, <2>1, <2>2, TimesAssumption DEF InPhase, Due, OptTime, None, SameSettings
    <3>2. InPhase(s) => \A j \in Jobs(shifted) : IsFast(shifted.jobs[j]) =>
            shifted.jobs[j].spec.freshness = shifted.display_interval
      BY <1>3, <2>2 DEF InPhase, SameSettings, Jobs
    <3> QED BY <2>2, <2>3, <3>1, <3>2, ReanchorFastGentle
  <2> HIDE DEF v
  <2>6. Steady(s, v)
    BY <1>3, <2>2, <2>4, SteadySelf, SteadyTransitive
  <2> QED BY <1>3, <2>2, <2>4, <2>5, <2>6 DEF Gentle, SameSettings, v
<1> HIDE DEF painted, shifted
<1>7. Gentle(s, moved)
  BY <1>4, <1>6
<1> HIDE DEF moved
<1>8. Gentle(moved, PublishFull(moved, reason, None, skipped))
  BY <1>2, <1>7, PublishGentle DEF Gentle, OptTime
<1>9. Gentle(s, result)
  BY <1>5, <1>7, <1>8, GentleSelf, GentleTransitive
<1> QED BY <1>9 DEF result

-----------------------------------------------------------------------------
(* Cancellation and demand.                                                   *)

(* Jobs that stay calm, at their deadlines, under unchanged settings.         *)
LEMMA GentleJobs ==
  ASSUME NEW s, NEW u, Sound(u), Jobs(u) = Jobs(s), SameSettings(s, u),
         u.next_display = s.next_display,
         \A j \in Jobs(s) : /\ Calm(s.jobs[j], u.jobs[j])
                            /\ u.jobs[j].nominal_due = s.jobs[j].nominal_due
  PROVE  Gentle(s, u)
<1>1. Steady(s, u) /\ SamePhase(s, u)
  BY DEF Steady, SamePhase, SameSettings
<1> QED BY <1>1, SamePhaseKept DEF Gentle

(* Marking, clearing and cancelling are calm.                                 *)
LEMMA CalmOperators ==
  ASSUME NEW rt \in JobRuntime, NEW at \in Nat
  PROVE  /\ ~IsHistory(rt) => /\ Calm(rt, MarkPending(rt, at))
                              /\ Calm(rt, [MarkPending(rt, at) EXCEPT !.retry_due = None])
         /\ Calm(rt, ClearPending(rt))
         /\ Calm(rt, [rt EXCEPT !.in_flight = {}])
         /\ MarkPending(rt, at).nominal_due = rt.nominal_due
         /\ [MarkPending(rt, at) EXCEPT !.retry_due = None].nominal_due = rt.nominal_due
         /\ ClearPending(rt).nominal_due = rt.nominal_due
         /\ ClearPending(rt).in_flight = rt.in_flight
         /\ [rt EXCEPT !.in_flight = {}].nominal_due = rt.nominal_due
         /\ [rt EXCEPT !.in_flight = {}].in_flight = {}
  BY DEF JobRuntime, Calm, IsHistory, MarkPending, ClearPending

LEMMA CancelRunsGentle ==
  ASSUME NEW s, Sound(s), NEW J \in SUBSET Jobs(s), NEW reason \in CancelReason
  PROVE  LET c == CancelRuns(s, J, reason)
         IN  /\ Gentle(s, c) /\ c.next_display = s.next_display
             /\ \A j \in J : c.jobs[j].in_flight = {}
<1> DEFINE c == CancelRuns(s, J, reason)
           f == [j \in DOMAIN s.jobs |->
                   IF j \in J THEN [s.jobs[j] EXCEPT !.in_flight = {}] ELSE s.jobs[j]]
<1>1. Sound(c) /\ IsState(s)
  BY CancelRunsSound DEF Follows, Sound
<1>2. c.jobs = f /\ c.next_display = s.next_display /\ SameSettings(s, c)
  BY <1>1 DEF IsState, CancelRuns, SameSettings
<1> HIDE DEF c
<1>3. \A j \in Jobs(s) : Calm(s.jobs[j], f[j]) /\ f[j].nominal_due = s.jobs[j].nominal_due
  BY SoundRuntime, CalmOperators, CalmSelf DEF Jobs
<1>4. \A j \in J : f[j].in_flight = {}
  BY SoundRuntime, CalmOperators DEF Jobs
<1>5. Jobs(c) = Jobs(s)
  BY <1>2 DEF Jobs
<1> HIDE DEF f
<1>6. Gentle(s, c)
  BY <1>1, <1>2, <1>3, <1>5, GentleJobs
<1> QED BY <1>2, <1>4, <1>6 DEF c

LEMMA MarkJobsGentle ==
  ASSUME NEW s, Sound(s), NEW J, \A j \in J \cap Jobs(s) : ~IsHistory(s.jobs[j])
  PROVE  Gentle(s, MarkJobs(s, J)) /\ MarkJobs(s, J).next_display = s.next_display
<1> DEFINE u == MarkJobs(s, J)
           f == [j \in DOMAIN s.jobs |-> IF j \in J THEN MarkPending(s.jobs[j], s.now)
                                         ELSE s.jobs[j]]
<1>1. Sound(u) /\ IsState(s) /\ s.now \in Nat
  BY MarkJobsSound DEF Follows, Sound, IsState
<1>2. u.jobs = f /\ u.next_display = s.next_display /\ SameSettings(s, u)
  BY <1>1 DEF IsState, MarkJobs, SameSettings
<1> HIDE DEF u
<1>3. \A j \in Jobs(s) : Calm(s.jobs[j], f[j]) /\ f[j].nominal_due = s.jobs[j].nominal_due
  BY <1>1, SoundRuntime, CalmOperators, CalmSelf DEF Jobs
<1>4. Jobs(u) = Jobs(s)
  BY <1>2 DEF Jobs
<1> HIDE DEF f
<1> QED BY <1>1, <1>2, <1>3, <1>4, GentleJobs DEF u

LEMMA ActivateJobsGentle ==
  ASSUME NEW s, Sound(s), NEW before, NEW after, NEW track \in BOOLEAN
  PROVE  LET u == ActivateJobs(s, before, after, track)
         IN  Gentle(s, u) /\ u.next_display = s.next_display
<1> DEFINE fresh == {j \in (after \ before) \cap Jobs(s) : ~IsHistory(s.jobs[j])}
           m == MarkJobs(s, fresh)
           u == ActivateJobs(s, before, after, track)
<1>1. Gentle(s, m) /\ m.next_display = s.next_display
  BY MarkJobsGentle
<1>2. Sound(u) /\ Sound(m)
  BY <1>1, ActivateJobsSound DEF Follows, Gentle
<1>3. u.jobs = m.jobs /\ u.next_display = m.next_display /\ SameSettings(m, u)
  <2> DEFINE waiting == (s.activation_waiting \cap after) \cup IF track THEN fresh ELSE {}
             deadline == IF waiting = {} THEN None
                         ELSE IF track /\ s.activation_deadline = None
                              THEN s.now + ACTIVATION_REFRESH_TIMEOUT
                              ELSE s.activation_deadline
  <2>1. u = [m EXCEPT !.activation_waiting = waiting, !.activation_deadline = deadline]
    BY DEF ActivateJobs
  <2> HIDE DEF u, m, waiting, deadline
  <2> QED BY <1>2, <2>1 DEF Sound, IsState, SameSettings
<1> HIDE DEF u, m, fresh
<1>4. Gentle(m, u)
  BY <1>2, <1>3, GentleJobs, CalmSelf DEF Jobs
<1> QED BY <1>1, <1>3, <1>4, GentleTransitive DEF u

LEMMA CancelDemandEndedGentle ==
  ASSUME NEW s, Sound(s), NEW before, NEW after
  PROVE  LET u == CancelDemandEnded(s, before, after)
         IN  /\ Gentle(s, u) /\ u.next_display = s.next_display
             /\ Wanted(s, before) => Wanted(u, after)
<1> DEFINE ended == (before \ after) \cap PageWork \cap Jobs(s)
           c == CancelRuns(s, ended, "DemandEnded")
           u == CancelDemandEnded(s, before, after)
           f == [j \in DOMAIN c.jobs |-> IF j \in ended THEN ClearPending(c.jobs[j])
                                         ELSE c.jobs[j]]
<1>1. /\ Gentle(s, c) /\ c.next_display = s.next_display
      /\ \A j \in ended : c.jobs[j].in_flight = {}
  BY CancelRunsGentle DEF CancelReason
<1>2. Sound(u) /\ Sound(c) /\ Jobs(c) = Jobs(s)
  BY <1>1, CancelDemandEndedSound DEF Follows, Gentle, Steady
<1>3. u.jobs = f /\ u.next_display = c.next_display /\ SameSettings(c, u)
  BY <1>2 DEF Sound, IsState, CancelDemandEnded, SameSettings
<1> HIDE DEF u, c, ended
<1>4. Jobs(u) = Jobs(c)
  BY <1>3 DEF Jobs
<1>5. \A j \in Jobs(c) : /\ Calm(c.jobs[j], f[j]) /\ f[j].nominal_due = c.jobs[j].nominal_due
                         /\ f[j].in_flight = c.jobs[j].in_flight
  BY <1>2, SoundRuntime, CalmOperators, CalmSelf DEF Jobs
<1> HIDE DEF f
<1>6. Gentle(c, u)
  BY <1>2, <1>3, <1>4, <1>5, GentleJobs
<1>7. ASSUME Wanted(s, before)
      PROVE  Wanted(u, after)
  <2>1. Wanted(c, before)
    BY <1>1, <1>7, SteadyWanted DEF Gentle
  <2> QED BY <1>1, <1>2, <1>3, <1>4, <1>5, <2>1 DEF Wanted, ended
<1> QED BY <1>1, <1>3, <1>6, <1>7, GentleTransitive DEF u

LEMMA RefreshDemandGentle ==
  ASSUME NEW s, Sound(s), NEW cancelPageJobs \in BOOLEAN
  PROVE  LET u == RefreshDemand(s, cancelPageJobs)
         IN  /\ Gentle(s, u) /\ u.next_display = s.next_display
             /\ cancelPageJobs => Wanted(u, CurrentDemand(s))
<1> DEFINE demanded == CurrentDemand(s)
           ended == IF cancelPageJobs THEN (Jobs(s) \cap PageWork) \ demanded ELSE {}
           c == CancelRuns(s, ended, "DemandEnded")
           u == RefreshDemand(s, cancelPageJobs)
           Lacking(rt) == ~IsHistory(rt) /\ rt.in_flight = {} /\ ~rt.has_sample
           f == [j \in DOMAIN c.jobs |->
                   IF j \notin demanded THEN ClearPending(c.jobs[j])
                   ELSE IF Lacking(c.jobs[j]) THEN MarkPending(c.jobs[j], s.now)
                   ELSE c.jobs[j]]
<1>1. /\ Gentle(s, c) /\ c.next_display = s.next_display
      /\ \A j \in ended : c.jobs[j].in_flight = {}
  BY CancelRunsGentle DEF CancelReason
<1>2. Sound(u) /\ Sound(c) /\ Jobs(c) = Jobs(s) /\ s.now \in Nat
  <2>1. Sound(u)
    BY RefreshDemandSound DEF Follows
  <2>2. s.now \in Nat
    BY DEF Sound, IsState
  <2> QED BY <1>1, <2>1, <2>2 DEF Gentle, Steady
<1>3. u.jobs = f /\ u.next_display = c.next_display /\ SameSettings(c, u)
  BY <1>2 DEF Sound, IsState, RefreshDemand, SameSettings
<1> HIDE DEF u, c, demanded
<1>4. Jobs(u) = Jobs(c)
  BY <1>3 DEF Jobs
<1>5. \A j \in Jobs(c) : /\ Calm(c.jobs[j], f[j]) /\ f[j].nominal_due = c.jobs[j].nominal_due
                         /\ f[j].in_flight = c.jobs[j].in_flight
  <2>1. \A j \in Jobs(c) : c.jobs[j] \in JobRuntime
    BY <1>2, SoundRuntime
  <2>2. \A j \in Jobs(c) : Lacking(c.jobs[j]) => ~IsHistory(c.jobs[j])
    OBVIOUS
  <2> HIDE DEF Lacking
  <2> QED BY <1>2, <2>1, <2>2, CalmOperators, CalmSelf, MarkPendingRun DEF Jobs
<1> HIDE DEF f
<1>6. Gentle(c, u)
  BY <1>2, <1>3, <1>4, <1>5, GentleJobs
<1>7. cancelPageJobs => Wanted(u, demanded)
  BY <1>1, <1>2, <1>3, <1>4, <1>5 DEF Wanted
<1> QED BY <1>1, <1>3, <1>6, <1>7, GentleTransitive DEF u, demanded

LEMMA RefreshAllDemandedGentle ==
  ASSUME NEW s, Sound(s)
  PROVE  Gentle(s, RefreshAllDemanded(s))
<1> DEFINE u == RefreshAllDemanded(s)
           f == [j \in DOMAIN s.jobs |->
     IF j \in CurrentDemand(s) /\ ~IsHistory(s.jobs[j])
     THEN [MarkPending(s.jobs[j], s.now) EXCEPT !.retry_due = None] ELSE s.jobs[j]]
<1>1. Sound(u) /\ IsState(s) /\ s.now \in Nat
  BY RefreshAllDemandedSound DEF Follows, Sound, IsState
<1>2. u.jobs = f /\ u.next_display = s.next_display /\ SameSettings(s, u)
  BY <1>1 DEF IsState, RefreshAllDemanded, SameSettings
<1> HIDE DEF u
<1>3. \A j \in Jobs(s) : Calm(s.jobs[j], f[j]) /\ f[j].nominal_due = s.jobs[j].nominal_due
  BY <1>1, SoundRuntime, CalmOperators, CalmSelf DEF Jobs
<1>4. Jobs(u) = Jobs(s)
  BY <1>2 DEF Jobs
<1> HIDE DEF f
<1> QED BY <1>1, <1>2, <1>3, <1>4, GentleJobs DEF u

LEMMA RebuildFirstPaintBlockersGentle ==
  ASSUME NEW s, Sound(s)
  PROVE  Gentle(s, RebuildFirstPaintBlockers(s))
<1> DEFINE blockers == FirstPaintBlockers(s)
           r == [s EXCEPT !.first_paint_waiting = blockers]
<1>1. blockers \subseteq JobId
  BY SoundRuntime DEF FirstPaintBlockers
<1> HIDE DEF blockers
<1>2. IsState(r) /\ SameRuns(s, r) /\ SameEra(s, r) /\ r.jobs = s.jobs
      /\ SameSettings(s, r) /\ r.next_display = s.next_display
  BY <1>1 DEF Sound, IsState, SameRuns, SameEra, Jobs, SameSettings
<1> HIDE DEF r
<1>3. Sound(r)
  BY <1>2, QuietSound DEF Follows
<1>4. Gentle(s, r)
  BY <1>2, <1>3, GentleJobs, CalmSelf DEF Jobs
<1>5. Gentle(r, IssueFirstPaint(r, "FirstPaintReady"))
  BY <1>3, IssueFirstPaintGentle DEF PublishReason
<1>6. RebuildFirstPaintBlockers(s) =
        IF s.first_paint_issued THEN s
        ELSE IF blockers = {} THEN IssueFirstPaint(r, "FirstPaintReady") ELSE r
  BY DEF RebuildFirstPaintBlockers, r, blockers
<1> QED BY <1>4, <1>5, <1>6, GentleSelf, GentleTransitive

(* The activation refresh.                                                    *)
LEMMA RefreshActivationGentle ==
  ASSUME NEW s, Sound(s), HistoriesKept(s)
  PROVE  Gentle(s, RefreshActivation(s))
<1> DEFINE amd == {j \in Jobs(s) : s.jobs[j].spec.amd \in WideAmd}
           waiting == s.activation_waiting \cup amd
           m == MarkJobs(s, amd)
           marked == [m EXCEPT !.activation_waiting = waiting]
           timed == [marked EXCEPT !.activation_deadline = s.now + ACTIVATION_REFRESH_TIMEOUT]
<1>1. \A j \in amd : ~IsHistory(s.jobs[j])
  BY JobsAssumption DEF HistoriesKept, Catalogued, IsHistory
<1>2. Gentle(s, m) /\ m.next_display = s.next_display /\ Sound(m)
  BY <1>1, MarkJobsGentle DEF Gentle
<1>3. waiting \subseteq JobId /\ s.now + ACTIVATION_REFRESH_TIMEOUT \in Nat
  BY SoundRuntime, TimesAssumption DEF Sound, IsState
<1>4. RefreshActivation(s) = IF waiting = {} THEN PublishTooltip(marked, "TooltipActivated")
                             ELSE IF s.activation_deadline # None THEN marked ELSE timed
  BY DEF RefreshActivation
<1> HIDE DEF m, amd, waiting
<1>5. /\ IsState(marked) /\ SameRuns(m, marked) /\ SameEra(m, marked)
      /\ SameSettings(m, marked) /\ marked.jobs = m.jobs
      /\ marked.next_display = m.next_display
  BY <1>2, <1>3 DEF Sound, IsState, SameRuns, SameEra, Jobs, SameSettings
<1> HIDE DEF marked
<1>6. Gentle(m, marked) /\ Sound(marked)
  BY <1>2, <1>5, QuietSound, GentleJobs, CalmSelf DEF Jobs, Follows
<1>7. /\ IsState(timed) /\ SameRuns(marked, timed) /\ SameEra(marked, timed)
      /\ SameSettings(marked, timed) /\ timed.jobs = marked.jobs
      /\ timed.next_display = marked.next_display
  BY <1>3, <1>6 DEF Sound, IsState, OptTime, SameRuns, SameEra, Jobs, SameSettings
<1> HIDE DEF timed
<1>8. Gentle(marked, timed)
  BY <1>6, <1>7, QuietSound, GentleJobs, CalmSelf DEF Jobs, Follows
<1>9. Gentle(marked, PublishTooltip(marked, "TooltipActivated"))
  BY <1>6, PublishGentle DEF PublishReason, OptTime
<1> QED BY <1>2, <1>4, <1>6, <1>8, <1>9, GentleTransitive

-----------------------------------------------------------------------------
(* Time.                                                                      *)

(* u keeps, soundly, what s has of the promises to jobs.                      *)
Keeps(s, u) == Sound(u) /\ (Kept(s) => Kept(u))

LEMMA KeepsTransitive ==
  ASSUME NEW s, NEW u, NEW v, Keeps(s, u), Keeps(u, v)
  PROVE  Keeps(s, v)
  BY DEF Keeps

LEMMA GentleKeeps ==
  ASSUME NEW s, Sound(s), NEW u, Gentle(s, u)
  PROVE  Keeps(s, u)
  BY GentleKept DEF Gentle, Keeps

LEMMA KeepsSelf ==
  ASSUME NEW s, Sound(s)
  PROVE  Keeps(s, s)
  BY DEF Keeps

(* The end of the grace narrows the demand and cancels what it lets go.       *)
LEMMA ExpireDeactivationKeeps ==
  ASSUME NEW s, Sound(s)
  PROVE  Keeps(s, ExpireDeactivation(s))
<1> DEFINE cleared == [s EXCEPT !.deactivation_deadline = None]
           hidden == [cleared EXCEPT !.effective_presented = FALSE]
           r == RefreshDemand(hidden, TRUE)
<1>1. /\ IsState(cleared) /\ SameRuns(s, cleared) /\ SameEra(s, cleared)
      /\ SameSettings(s, cleared) /\ cleared.jobs = s.jobs
      /\ cleared.next_display = s.next_display
  BY DEF Sound, IsState, OptTime, SameRuns, SameEra, Jobs, SameSettings
<1>2. Keeps(s, cleared) /\ Sound(cleared)
  <2>1. Sound(cleared)
    BY <1>1, QuietSound DEF Follows
  <2> HIDE DEF cleared
  <2>2. Gentle(s, cleared)
    BY <1>1, <2>1, GentleJobs, CalmSelf DEF Jobs
  <2> QED BY <2>1, <2>2, GentleKeeps
<1>3. /\ IsState(hidden) /\ SameRuns(s, hidden) /\ SameEra(s, hidden)
      /\ hidden.lifecycle = s.lifecycle /\ hidden.display_interval = s.display_interval
      /\ hidden.jobs = s.jobs /\ hidden.next_display = s.next_display
  BY DEF Sound, IsState, OptTime, SameRuns, SameEra, Jobs
<1> HIDE DEF hidden
<1>4. Sound(hidden) /\ Steady(s, hidden) /\ SamePhase(s, hidden)
  BY <1>3, QuietSound, SteadySelf DEF Follows, SamePhase
<1>5. Keeps(s, r)
  <2>1. Gentle(hidden, r) /\ Wanted(r, CurrentDemand(hidden))
    BY <1>4, RefreshDemandGentle
  <2>2. CurrentDemand(r) = CurrentDemand(hidden)
    BY <2>1, SettingsDemand DEF Gentle
  <2>3. HistoriesKept(s) => HistoriesKept(r)
    BY <1>4, <2>1, SteadyHistories DEF Gentle
  <2>4. InPhase(s) => InPhase(r)
    BY <1>4, <2>1, SamePhaseKept DEF Gentle
  <2> QED BY <2>1, <2>2, <2>3, <2>4 DEF Keeps, Kept, Gentle
<1>6. ExpireDeactivation(s) = IF ~Due(s.deactivation_deadline, s.now) THEN s
                              ELSE IF s.presented THEN cleared ELSE r
  BY DEF ExpireDeactivation, hidden
<1> HIDE DEF cleared, r
<1> QED BY <1>2, <1>5, <1>6, KeepsSelf

(* The expiry of the activation refresh and of the first paint.               *)
LEMMA ExpireGentle ==
  ASSUME NEW s, Sound(s)
  PROVE  Gentle(s, ExpireFirstPaint(s)) /\ Gentle(s, ExpireActivation(s))
<1>1. Gentle(s, ExpireFirstPaint(s))
  BY IssueFirstPaintGentle, GentleSelf DEF ExpireFirstPaint, PublishReason
<1> DEFINE u == [s EXCEPT !.activation_deadline = None, !.activation_waiting = {}]
<1>2. /\ IsState(u) /\ SameRuns(s, u) /\ SameEra(s, u) /\ SameSettings(s, u)
      /\ u.jobs = s.jobs /\ u.next_display = s.next_display
  BY DEF Sound, IsState, OptTime, SameRuns, SameEra, Jobs, SameSettings
<1>3. ExpireActivation(s) = IF Due(s.activation_deadline, s.now)
                            THEN PublishTooltip(u, "TooltipRefresh") ELSE s
  BY DEF ExpireActivation
<1> HIDE DEF u
<1>4. Gentle(s, u) /\ Sound(u)
  BY <1>2, QuietSound, GentleJobs, CalmSelf DEF Jobs, Follows
<1>5. Gentle(u, PublishTooltip(u, "TooltipRefresh"))
  BY <1>4, PublishGentle DEF PublishReason, OptTime
<1> QED BY <1>1, <1>3, <1>4, <1>5, GentleTransitive, GentleSelf

(* A display deadline moves to a later point of the grid.                     *)
LEMMA ExpireDisplayGentle ==
  ASSUME NEW s, Sound(s)
  PROVE  Gentle(s, ExpireDisplay(s))
<1> DEFINE p == PublishFull(s, "DisplayDeadline", s.next_display,
                            SkippedIntervals(s.next_display, s.display_interval, s.now))
           next == AdvancePast(s.next_display, s.display_interval, s.now)
           u == ExpireDisplay(s)
<1>1. CASE ~(s.first_paint_issued /\ Due(s.next_display, s.now))
  BY <1>1, GentleSelf DEF ExpireDisplay
<1>2. CASE s.first_paint_issued /\ Due(s.next_display, s.now)
  <2>1. s.now \in Nat /\ s.display_interval \in Nat \ {0} /\ s.next_display \in Nat
        /\ FAST_PREFETCH \in Nat
    BY <1>2, TimesAssumption DEF Sound, IsState, Due, OptTime
  <2>2. SkippedIntervals(s.next_display, s.display_interval, s.now) \in Nat
    BY <2>1, PolicyTypes
  <2>3. Gentle(s, p) /\ p.jobs = s.jobs /\ p.next_display = s.next_display
    BY <2>1, <2>2, PublishGentle DEF PublishReason, OptTime
  <2>4. u = [p EXCEPT !.next_display = AdvancePast(@, s.display_interval, s.now)]
    BY <1>2 DEF ExpireDisplay
  <2>5. Sound(u)
    BY ExpireSound DEF Follows
  <2> HIDE DEF p, u
  <2>6. u.jobs = s.jobs /\ SameSettings(p, u) /\ u.next_display = next
    BY <2>3, <2>4 DEF Gentle, Sound, IsState, SameSettings
  <2>7. SameSettings(s, u)
    BY <2>3, <2>6 DEF Gentle, SameSettings
  <2>8. \E k \in Nat : next = s.next_display + k * s.display_interval
    BY <2>1, AdvancePastGrid
  <2>9. next \in Nat /\ next > s.next_display
    BY <2>1, AdvancePastGrid
  <2> HIDE DEF next
  <2>10. ASSUME NEW due \in Int, OnGrid(s, due)
         PROVE  OnGrid(u, due)
    <3>1. PICK k \in Nat : next = s.next_display + k * s.display_interval
      BY <2>8
    <3> DEFINE x == s.next_display - FAST_PREFETCH - due
    <3>2. x \in Int /\ x % s.display_interval = 0
      BY <2>1, <2>10 DEF OnGrid
    <3>3. next - FAST_PREFETCH - due = x + k * s.display_interval
      <4>1. k * s.display_interval \in Nat
        BY <2>1
      <4> QED BY <2>1, <3>1, <4>1
    <3> HIDE DEF x
    <3>4. (x + k * s.display_interval) % s.display_interval = 0
      BY <2>1, <3>2, GridMoves
    <3> QED BY <2>6, <2>7, <3>3, <3>4 DEF OnGrid, SameSettings
  <2>11. \A j \in Jobs(s) : s.jobs[j].nominal_due \in Int
    BY SoundRuntime DEF JobRuntime, OptTime, None
  <2>12. InPhase(s) => InPhase(u)
    BY <2>1, <2>6, <2>7, <2>9, <2>10, <2>11 DEF InPhase, SameSettings, Jobs, None, IsFast
  <2> QED BY <2>5, <2>6, <2>7, <2>12, SteadySelf DEF Gentle, u
<1> QED BY <1>1, <1>2

(* A due job moves to a later point of its grid; a history is marked pending  *)
(* for the last point passed, after the ones it has handed out.               *)
LEMMA DueRuntimePunctual ==
  ASSUME NEW rt \in JobRuntime, NEW ready \in BOOLEAN, NEW now \in Nat
  PROVE  LET rv == DueRuntime(RetriedRuntime(rt, now), ready, now)
         IN  /\ rv.spec = rt.spec /\ rv.has_sample = rt.has_sample
             /\ rv.in_flight = rt.in_flight
             /\ Punctual(rt) => Punctual(rv)
             /\ \/ rv.nominal_due = rt.nominal_due
                \/ \E k \in Nat : rv.nominal_due = rt.nominal_due + k * rt.spec.freshness
<1> DEFINE re == RetriedRuntime(rt, now)
           next == AdvancePast(rt.nominal_due, rt.spec.freshness, now)
           last == LatestDueAtOrBefore(rt.nominal_due, rt.spec.freshness, now)
           rv == DueRuntime(re, ready, now)
<1>1. re \in JobRuntime /\ rv \in JobRuntime /\ rt.spec.freshness \in Nat \ {0}
  <2>1. re \in JobRuntime
    BY RetriedRuntimeType
  <2> HIDE DEF re
  <2> QED BY <2>1, DueRuntimeType DEF JobRuntime, JobSpec
<1>2. /\ re.spec = rt.spec /\ re.has_sample = rt.has_sample /\ re.in_flight = rt.in_flight
      /\ re.nominal_due = rt.nominal_due /\ re.pending_history = rt.pending_history
  BY DEF RetriedRuntime, MarkPending, JobRuntime
<1>3. IsHistory(rt) /\ Punctual(rt) => re = rt
  BY DEF Punctual, RetriedRuntime, Due
<1> HIDE DEF re
<1>4. CASE ~Due(rt.nominal_due, now)
  <2>1. rv = re
    BY <1>2, <1>4 DEF DueRuntime
  <2>2. Punctual(rt) => Punctual(re)
    BY <1>2, <1>3 DEF Punctual, Points, IsHistory
  <2> QED BY <1>2, <2>1, <2>2 DEF re
<1>5. CASE Due(rt.nominal_due, now)
  <2>1. rt.nominal_due \in Nat /\ rt.nominal_due <= now
    BY <1>5 DEF Due, JobRuntime, OptTime
  <2>2. /\ next \in Nat /\ next > now /\ next > rt.nominal_due
        /\ \E k \in Nat : next = rt.nominal_due + k * rt.spec.freshness
        /\ last \in Nat /\ rt.nominal_due <= last /\ last < next
    BY <1>1, <2>1, AdvancePastGrid
  <2> HIDE DEF next, last
  <2> DEFINE marked == IF ~IsHistory(re) THEN MarkPending(re, now)
                       ELSE IF ready THEN MarkHistoryPending(re, last) ELSE re
  <2>3. rv = [marked EXCEPT !.nominal_due = next]
    <3>1. marked.nominal_due = re.nominal_due
      BY <1>1 DEF MarkHistoryPending, MarkPending, JobRuntime
    <3> HIDE DEF marked
    <3> QED BY <1>2, <1>5, <3>1 DEF DueRuntime, marked, next, last
  <2>4. /\ marked.spec = rt.spec /\ marked.has_sample = rt.has_sample
        /\ marked.in_flight = rt.in_flight
        /\ ~IsHistory(rt) => marked.pending_history = rt.pending_history
        /\ IsHistory(rt) /\ ~ready => marked = re
        /\ IsHistory(rt) /\ ready => /\ marked.retry_due = re.retry_due
                                     /\ marked.pending_history = last
                                     /\ marked.pending_since # None
    BY <1>1, <1>2, <2>2
    DEF MarkHistoryPending, MarkPending, JobRuntime, IsHistory, OptTime, None
  <2>5. marked \in JobRuntime
    BY <1>1, <2>1, <2>2, MarkPendingType
    DEF MarkHistoryPending, OptTime, None, JobRuntime, MarkPending
  <2> HIDE DEF marked, rv
  <2>6. /\ rv.spec = rt.spec /\ rv.has_sample = rt.has_sample /\ rv.in_flight = rt.in_flight
        /\ rv.nominal_due = next /\ rv.pending_history = marked.pending_history
        /\ rv.pending_since = marked.pending_since /\ rv.retry_due = marked.retry_due
    BY <2>3, <2>4, <2>5 DEF JobRuntime
  <2>7. ASSUME Punctual(rt)
        PROVE  Punctual(rv)
    <3>1. IsHistory(rv) <=> IsHistory(rt)
      BY <2>6 DEF IsHistory
    <3>2. Points(rv) = Points(rt)
      BY <2>6 DEF Points
    <3>3. CASE ~IsHistory(rt)
      BY <2>4, <2>6, <2>7, <3>1, <3>2, <3>3 DEF Punctual
    <3>4. CASE IsHistory(rt)
      <4>1. re = rt /\ rt.retry_due = None
        BY <1>3, <2>7, <3>4 DEF Punctual
      <4>2. \A p \in Points(rt) : p \in OptTime /\ p < rt.nominal_due /\ p # None
        <5>1. \A t \in rt.in_flight : t.history \in OptTime
          BY DEF JobRuntime, Ticket
        <5> QED BY <2>7, <3>4, <5>1 DEF Punctual, Points
      <4>3. CASE ready
        <5>1. \A p \in Points(rt) : p < last /\ p < next
          BY <2>1, <2>2, <4>2 DEF OptTime, None
        <5>2. last # None /\ last < next
          BY <2>2 DEF None
        <5> QED BY <2>4, <2>6, <3>1, <3>2, <3>4, <4>1, <4>2, <4>3, <5>1, <5>2 DEF Punctual
      <4>4. CASE ~ready
        <5>1. \A p \in Points(rt) \cup {rt.pending_history} : p < next
          <6>1. rt.pending_history \in OptTime /\ rt.pending_history < rt.nominal_due
            BY <2>7, <3>4 DEF Punctual, JobRuntime
          <6> QED BY <2>1, <2>2, <4>2, <6>1 DEF OptTime, None
        <5> QED BY <2>4, <2>6, <2>7, <3>1, <3>2, <3>4, <4>1, <4>4, <5>1 DEF Punctual
      <4> QED BY <4>3, <4>4
    <3> QED BY <3>3, <3>4
  <2> QED BY <2>2, <2>6, <2>7 DEF rv, re
<1> QED BY <1>4, <1>5

LEMMA MarkDueJobsKeeps ==
  ASSUME NEW s, Sound(s)
  PROVE  Keeps(s, MarkDueJobs(s))
<1> DEFINE u == MarkDueJobs(s)
           f == [j \in DOMAIN s.jobs |->
     IF j \in CurrentDemand(s)
     THEN DueRuntime(RetriedRuntime(s.jobs[j], s.now), SourceReady(s, s.jobs[j]), s.now)
     ELSE s.jobs[j]]
<1>1. Sound(u) /\ IsState(s) /\ s.now \in Nat
  BY MarkDueJobsSound DEF Follows, Sound, IsState
<1>2. u.jobs = f /\ u.next_display = s.next_display /\ SameSettings(s, u)
  BY <1>1 DEF IsState, MarkDueJobs, SameSettings
<1> HIDE DEF u
<1>3. Jobs(u) = Jobs(s)
  BY <1>2 DEF Jobs
<1>4. \A j \in Jobs(s) :
        /\ u.jobs[j].spec = s.jobs[j].spec /\ u.jobs[j].has_sample = s.jobs[j].has_sample
        /\ u.jobs[j].in_flight = s.jobs[j].in_flight
        /\ Punctual(s.jobs[j]) => Punctual(u.jobs[j])
        /\ \/ u.jobs[j].nominal_due = s.jobs[j].nominal_due
           \/ \E k \in Nat : u.jobs[j].nominal_due =
                               s.jobs[j].nominal_due + k * s.jobs[j].spec.freshness
  <2>1. \A j \in Jobs(s) : s.jobs[j] \in JobRuntime /\ SourceReady(s, s.jobs[j]) \in BOOLEAN
    BY SoundRuntime DEF SourceReady, JobRuntime
  <2> QED BY <1>1, <1>2, <2>1, DueRuntimePunctual DEF Jobs
<1> HIDE DEF f
<1>5. HistoriesKept(s) => HistoriesKept(u)
  <2>1. Catalogued(s) => Catalogued(u)
    <3>1. \A j \in Jobs(s) : u.jobs[j].spec = s.jobs[j].spec
      BY <1>4
    <3> QED BY <1>3, <3>1, SameCatalogue
  <2>2. \A j \in Jobs(s) : SourceReady(s, s.jobs[j]) => SourceReady(u, u.jobs[j])
    BY <1>3, <1>4 DEF SourceReady
  <2> QED BY <1>3, <1>4, <2>1, <2>2 DEF HistoriesKept
<1>6. ASSUME InPhase(s)
      PROVE  InPhase(u)
  <2>1. ASSUME NEW j \in Jobs(s), IsFast(s.jobs[j])
        PROVE  OnGrid(u, u.jobs[j].nominal_due)
    <3> DEFINE d == s.jobs[j].nominal_due
               c == s.display_interval
               x == s.next_display - FAST_PREFETCH - d
    <3>1. d \in Int /\ c \in Nat \ {0} /\ s.next_display \in Int /\ FAST_PREFETCH \in Int
      BY <1>1, SoundRuntime, TimesAssumption DEF JobRuntime, OptTime, None, IsState
    <3>2. x % c = 0 /\ s.jobs[j].spec.freshness = c
      BY <1>6, <2>1 DEF InPhase, OnGrid
    <3>3. OnGrid(u, u.jobs[j].nominal_due)
            <=> (s.next_display - FAST_PREFETCH - u.jobs[j].nominal_due) % c = 0
      BY <1>2 DEF OnGrid, SameSettings
    <3>4. CASE u.jobs[j].nominal_due = d
      BY <3>2, <3>3, <3>4
    <3>5. ASSUME NEW k \in Nat, u.jobs[j].nominal_due = d + k * c
          PROVE  OnGrid(u, u.jobs[j].nominal_due)
      <4> HIDE DEF d, c
      <4>1. k * c \in Nat /\ x \in Int
        BY <3>1
      <4>2. s.next_display - FAST_PREFETCH - u.jobs[j].nominal_due = x - k * c
        BY <3>1, <3>5, <4>1
      <4> HIDE DEF x
      <4> QED BY <3>1, <3>2, <3>3, <4>1, <4>2, GridMoves
    <3> QED BY <1>4, <3>2, <3>4, <3>5
  <2> QED BY <1>2, <1>3, <1>4, <1>6, <2>1 DEF InPhase, SameSettings, IsFast
<1>7. Wanted(s, CurrentDemand(s)) => Wanted(u, CurrentDemand(u))
  BY <1>2, <1>3, <1>4, SettingsDemand DEF Wanted
<1> QED BY <1>1, <1>5, <1>6, <1>7 DEF Keeps, Kept, u

LEMMA ElapseKeeps ==
  ASSUME NEW s, Sound(s)
  PROVE  Keeps(s, Elapse(s))
<1> DEFINE a == ExpireDeactivation(s)
           b == ExpireFirstPaint(a)
           c == ExpireActivation(b)
           d == ExpireDisplay(c)
<1>1. Keeps(s, a) /\ Sound(a)
  BY ExpireDeactivationKeeps DEF Keeps
<1> HIDE DEF a
<1>2. Keeps(a, b) /\ Sound(b)
  BY <1>1, ExpireGentle, GentleKeeps DEF Gentle
<1> HIDE DEF b
<1>3. Keeps(b, c) /\ Sound(c)
  BY <1>2, ExpireGentle, GentleKeeps DEF Gentle
<1> HIDE DEF c
<1>4. Keeps(c, d) /\ Sound(d)
  BY <1>3, ExpireDisplayGentle, GentleKeeps DEF Gentle
<1> HIDE DEF d
<1>5. Keeps(d, MarkDueJobs(d))
  BY <1>4, MarkDueJobsKeeps
<1>6. Elapse(s) \in {s, MarkDueJobs(d)}
  BY DEF Elapse, ProcessTime, a, b, c, d
<1> QED BY <1>1, <1>2, <1>3, <1>4, <1>5, <1>6, KeepsTransitive, KeepsSelf

-----------------------------------------------------------------------------
(* Dispatch.                                                                  *)

(* A history starts for the point that was pending.                           *)
LEMMA DispatchKeeps ==
  ASSUME NEW s, Sound(s)
  PROVE  Keeps(s, Dispatch(s))
<1> DEFINE chosen == Chosen(s)
           u == Dispatch(s)
           Begun(j) == [s.jobs[j] EXCEPT !.pending_since = None, !.pending_history = None,
                                         !.in_flight = {NewTicket(s, j)}]
           f == [j \in DOMAIN s.jobs |-> IF j \in chosen THEN Begun(j) ELSE s.jobs[j]]
<1>1. Sound(u) /\ IsState(s)
  BY DispatchSound DEF Sound
<1>2. u = s \/ (u.jobs = f /\ SameSettings(s, u) /\ u.next_display = s.next_display)
  BY <1>1 DEF Dispatch, IsState, SameSettings
<1>3. \A j \in chosen : /\ j \in Jobs(s) /\ j \in CurrentDemand(s)
                        /\ s.jobs[j].pending_since # None /\ s.jobs[j].in_flight = {}
                        /\ IsHistory(s.jobs[j]) => SourceReady(s, s.jobs[j])
  BY DEF Chosen, Candidates
<1> HIDE DEF chosen, u
<1>4. \A j \in chosen : /\ Begun(j).spec = s.jobs[j].spec
                        /\ Begun(j).has_sample = s.jobs[j].has_sample
                        /\ Begun(j).nominal_due = s.jobs[j].nominal_due
                        /\ Begun(j).retry_due = s.jobs[j].retry_due
                        /\ Begun(j).pending_since = None /\ Begun(j).pending_history = None
                        /\ Begun(j).in_flight = {NewTicket(s, j)}
  BY <1>3, SoundRuntime DEF JobRuntime
<1>5. \A j \in chosen : Points(Begun(j)) = {s.jobs[j].pending_history}
  BY <1>4 DEF Points, NewTicket
<1> HIDE DEF Begun
<1>6. DOMAIN f = Jobs(s)
      /\ \A j \in Jobs(s) : f[j].spec = s.jobs[j].spec /\ f[j].has_sample = s.jobs[j].has_sample
                            /\ f[j].nominal_due = s.jobs[j].nominal_due
  BY <1>4 DEF Jobs
<1>7. ASSUME NEW j \in Jobs(s), Punctual(s.jobs[j])
      PROVE  Punctual(f[j])
  <2>1. CASE j \notin chosen
    BY <1>7, <2>1 DEF Jobs
  <2>2. CASE j \in chosen
    <3>1. f[j] = Begun(j)
      BY <1>3, <2>2 DEF Jobs
    <3>2. IsHistory(Begun(j)) <=> IsHistory(s.jobs[j])
      BY <1>4, <2>2 DEF IsHistory
    <3>3. CASE ~IsHistory(s.jobs[j])
      BY <1>4, <1>5, <1>7, <2>2, <3>1, <3>2, <3>3 DEF Punctual
    <3>4. CASE IsHistory(s.jobs[j])
      <4> DEFINE p == s.jobs[j].pending_history
      <4>1. p # None /\ p < s.jobs[j].nominal_due /\ s.jobs[j].retry_due = None
        BY <1>3, <1>7, <2>2, <3>4 DEF Punctual
      <4>2. p \in Nat /\ s.jobs[j].nominal_due \in OptTime
        BY <4>1, SoundRuntime DEF JobRuntime, OptTime
      <4>3. None < s.jobs[j].nominal_due
        BY <4>1, <4>2 DEF OptTime, None
      <4> QED BY <1>4, <1>5, <2>2, <3>1, <3>2, <3>4, <4>1, <4>3 DEF Punctual
    <3> QED BY <3>3, <3>4
  <2> QED BY <2>1, <2>2
<1>8. ASSUME u.jobs = f, SameSettings(s, u), u.next_display = s.next_display, Kept(s)
      PROVE  Kept(u)
  <2> HIDE DEF f
  <2>0. Jobs(u) = Jobs(s)
    BY <1>6, <1>8 DEF Jobs
  <2>1. Catalogued(u)
    BY <1>6, <1>8, <2>0, SameCatalogue DEF Kept, HistoriesKept
  <2>2. \A j \in Jobs(u) : Punctual(u.jobs[j])
    BY <1>7, <1>8, <2>0 DEF Kept, HistoriesKept
  <2>3. ASSUME NEW j \in Jobs(s), f[j].in_flight # {}
        PROVE  SourceReady(s, s.jobs[j])
    <3>1. CASE j \notin chosen
      BY <1>8, <2>3, <3>1 DEF Kept, HistoriesKept, Jobs, f
    <3>2. CASE j \in chosen /\ ~IsHistory(s.jobs[j])
      BY <1>8, <3>2 DEF Kept, HistoriesKept, Catalogued, SourceReady, IsHistory
    <3> QED BY <1>3, <3>1, <3>2
  <2>4. \A j \in Jobs(u) : u.jobs[j].in_flight # {} => SourceReady(u, u.jobs[j])
    BY <1>6, <1>8, <2>0, <2>3 DEF SourceReady
  <2>5. InPhase(u)
    BY <1>6, <1>8, <2>0 DEF Kept, InPhase, IsFast, OnGrid, SameSettings
  <2>6. Wanted(u, CurrentDemand(s))
    BY <1>3, <1>8, <2>0 DEF Kept, Wanted, Jobs, f
  <2> QED BY <1>8, <2>1, <2>2, <2>4, <2>5, <2>6, SettingsDemand DEF Kept, HistoriesKept
<1> QED BY <1>1, <1>2, <1>8 DEF Keeps, u

-----------------------------------------------------------------------------
(* Completions.                                                               *)

LEMMA CompleteGentle ==
  ASSUME NEW s, Sound(s)
  PROVE  Gentle(s, CompleteFirstPaint(s)) /\ Gentle(s, CompleteActivation(s))
<1>1. Gentle(s, CompleteFirstPaint(s))
  BY IssueFirstPaintGentle, GentleSelf DEF CompleteFirstPaint, PublishReason
<1> DEFINE ended == [s EXCEPT !.activation_deadline = None]
<1>2. /\ IsState(ended) /\ SameRuns(s, ended) /\ SameEra(s, ended) /\ SameSettings(s, ended)
      /\ ended.jobs = s.jobs /\ ended.next_display = s.next_display
  BY DEF Sound, IsState, OptTime, SameRuns, SameEra, Jobs, SameSettings
<1>3. CompleteActivation(s) \in {s, PublishTooltip(ended, "TooltipRefresh")}
  BY DEF CompleteActivation
<1> HIDE DEF ended
<1>4. Gentle(s, ended) /\ Sound(ended)
  BY <1>2, QuietSound, GentleJobs, CalmSelf DEF Jobs, Follows
<1>5. Gentle(ended, PublishTooltip(ended, "TooltipRefresh"))
  BY <1>4, PublishGentle DEF PublishReason, OptTime
<1> QED BY <1>1, <1>3, <1>4, <1>5, GentleTransitive, GentleSelf

(* A completed run leaves its job idle; that of a history is not retried.     *)
LEMMA CompletedPunctual ==
  ASSUME NEW rt \in JobRuntime, NEW completion \in Completions, NEW now \in Nat
  PROVE  LET rv == CompletedRuntime(rt, completion, now)
         IN  /\ rv.spec = rt.spec /\ rv.nominal_due = rt.nominal_due /\ rv.in_flight = {}
             /\ completion # "ConfirmedAbsent" => (rt.has_sample => rv.has_sample)
             /\ Punctual(rt) => Punctual(rv)
<1> DEFINE rv == CompletedRuntime(rt, completion, now)
<1>1. /\ rv.spec = rt.spec /\ rv.nominal_due = rt.nominal_due /\ rv.in_flight = {}
      /\ completion # "ConfirmedAbsent" => (rt.has_sample => rv.has_sample)
      /\ rv.pending_since = rt.pending_since /\ rv.pending_history = rt.pending_history
      /\ IsHistory(rt) => rv.retry_due \in {None, rt.retry_due}
  BY DEF CompletedRuntime, Completions, JobRuntime, IsHistory
<1> HIDE DEF rv
<1>2. IsHistory(rv) <=> IsHistory(rt)
  BY <1>1 DEF IsHistory
<1>3. Points(rv) = {}
  BY <1>1 DEF Points
<1>4. Punctual(rt) => Punctual(rv)
  BY <1>1, <1>2, <1>3 DEF Punctual
<1> QED BY <1>1, <1>4 DEF rv

(* The histories of a source that is gone: none of them is the source of      *)
(* another job.                                                               *)
LEMMA InvalidateHistoriesKeeps ==
  ASSUME NEW s, Sound(s), NEW source \in Jobs(s),
         \A j \in Jobs(s) : s.jobs[j].spec.history_source = source => s.jobs[j].in_flight = {}
  PROVE  Keeps(s, InvalidateHistories(s, source))
<1> DEFINE u == InvalidateHistories(s, source)
           dependent == {j \in Jobs(s) : s.jobs[j].spec.history_source = source}
           f == [j \in DOMAIN s.jobs |->
          IF j \in dependent
          THEN [s.jobs[j] EXCEPT !.has_sample = FALSE, !.pending_since = None,
                            !.pending_history = None]
          ELSE s.jobs[j]]
<1>1. Sound(u) /\ IsState(s)
  BY InvalidateHistoriesSound DEF Follows, Sound
<1>2. u.jobs = f /\ u.next_display = s.next_display /\ SameSettings(s, u)
  BY <1>1 DEF IsState, InvalidateHistories, SameSettings
<1> HIDE DEF u
<1>3. \A j \in Jobs(s) :
        LET rt == s.jobs[j]
            rv == [rt EXCEPT !.has_sample = FALSE, !.pending_since = None,
                             !.pending_history = None]
        IN  /\ rv.spec = rt.spec /\ rv.nominal_due = rt.nominal_due
            /\ rv.retry_due = rt.retry_due /\ rv.in_flight = rt.in_flight
            /\ rv.pending_since = None /\ rv.pending_history = None
  BY SoundRuntime DEF JobRuntime
<1>4. Jobs(u) = Jobs(s) /\ \A j \in Jobs(s) :
        /\ u.jobs[j].spec = s.jobs[j].spec /\ u.jobs[j].nominal_due = s.jobs[j].nominal_due
        /\ u.jobs[j].retry_due = s.jobs[j].retry_due
        /\ u.jobs[j].in_flight = s.jobs[j].in_flight
        /\ j \notin dependent => u.jobs[j] = s.jobs[j]
        /\ j \in dependent => u.jobs[j].pending_since = None /\ u.jobs[j].pending_history = None
  BY <1>2, <1>3 DEF Jobs
<1> HIDE DEF f
<1>5. ASSUME Kept(s)
      PROVE  HistoriesKept(u)
  <2>1. Catalogued(u)
    BY <1>4, <1>5, SameCatalogue DEF Kept, HistoriesKept
  <2>2. ASSUME NEW j \in Jobs(s)
        PROVE  Punctual(u.jobs[j])
    <3>1. CASE j \notin dependent
      BY <1>4, <1>5, <3>1 DEF Kept, HistoriesKept
    <3>2. CASE j \in dependent
      <4>1. IsHistory(s.jobs[j]) /\ Punctual(s.jobs[j]) /\ IsHistory(u.jobs[j])
        BY <1>4, <1>5, <3>2, SoundRuntime, JobsAssumption
        DEF Kept, HistoriesKept, Catalogued, IsHistory
      <4>2. Points(u.jobs[j]) = {}
        BY <1>4, <3>2 DEF Points
      <4>3. None < s.jobs[j].nominal_due
        <5>1. s.jobs[j].pending_history \in OptTime /\ s.jobs[j].nominal_due \in OptTime
          BY SoundRuntime DEF JobRuntime
        <5>2. s.jobs[j].pending_history < s.jobs[j].nominal_due
          BY <4>1 DEF Punctual
        <5> QED BY <5>1, <5>2 DEF OptTime, None
      <4>4. /\ u.jobs[j].retry_due = None /\ u.jobs[j].pending_since = None
            /\ u.jobs[j].pending_history = None /\ None < u.jobs[j].nominal_due
        BY <1>4, <3>2, <4>1, <4>3 DEF Punctual
      <4> QED BY <4>1, <4>2, <4>4 DEF Punctual
    <3> QED BY <3>1, <3>2
  <2>3. ASSUME NEW j \in Jobs(s), u.jobs[j].in_flight # {}
        PROVE  SourceReady(u, u.jobs[j])
    <3> DEFINE from == s.jobs[j].spec.history_source
    <3>1. SourceReady(s, s.jobs[j])
      BY <1>4, <1>5, <2>3 DEF Kept, HistoriesKept
    <3>2. ASSUME from # NoJob
          PROVE  from \in Jobs(s) /\ from \notin dependent
      <4>1. from \in Jobs(s)
        BY <3>1, <3>2 DEF SourceReady
      <4>2. s.jobs[from].spec.timing # "History"
        BY <1>5, <4>1 DEF Kept, HistoriesKept, Catalogued
      <4>3. source # NoJob
        BY SoundRuntime, JobsAssumption
      <4> QED BY <1>5, <4>1, <4>2, <4>3 DEF Kept, HistoriesKept, Catalogued
    <3> QED BY <1>4, <3>1, <3>2 DEF SourceReady
  <2> QED BY <1>4, <2>1, <2>2, <2>3 DEF HistoriesKept
<1>6. InPhase(s) => InPhase(u)
  BY <1>2, <1>4 DEF InPhase, IsFast, OnGrid, SameSettings
<1>7. Wanted(s, CurrentDemand(s)) => Wanted(u, CurrentDemand(u))
  BY <1>2, <1>4, SettingsDemand DEF Wanted
<1> QED BY <1>1, <1>5, <1>6, <1>7 DEF Keeps, Kept, u

(* A completion that confirms a source absent finds no history of it running: *)
(* source and history share their owner.                                      *)
LEMMA FinishJobKeeps ==
  ASSUME NEW s, Sound(s), Kept(s), NEW t \in Ticket, CurrentTicket(s, t),
         NEW completion \in Completions, NEW ready
  PROVE  Keeps(s, FinishJob(s, t, completion, ready))
<1> DEFINE job == t.job
           released == Released(s, t, completion, ready)
           settled == Settling(s, t, completion, ready)
           f == [j \in DOMAIN s.jobs |->
                  IF j = job THEN CompletedRuntime(s.jobs[j], completion, s.now) ELSE s.jobs[j]]
<1>1. IsState(s) /\ Owned(s) /\ s.now \in Nat /\ Sound(released) /\ Sound(settled)
  BY ReleasedSound, FinishJobSound DEF Sound, IsState
<1>2. job \in Jobs(s) /\ t \in s.jobs[job].in_flight
  BY DEF CurrentTicket
<1>3. /\ released.jobs = f /\ released.next_display = s.next_display
      /\ SameSettings(s, released)
  BY <1>1 DEF Released, IsState, SameSettings
<1>4. settled = IF completion = "ConfirmedAbsent" THEN InvalidateHistories(released, job)
                ELSE released
  BY DEF Settling
<1> HIDE DEF released, settled
<1>5. Jobs(released) = Jobs(s) /\ \A j \in Jobs(s) :
        /\ released.jobs[j].spec = s.jobs[j].spec
        /\ released.jobs[j].nominal_due = s.jobs[j].nominal_due
        /\ Punctual(released.jobs[j])
        /\ released.jobs[j].in_flight = IF j = job THEN {} ELSE s.jobs[j].in_flight
        /\ j # job \/ completion # "ConfirmedAbsent" =>
             (s.jobs[j].has_sample => released.jobs[j].has_sample)
  <2>1. \A j \in Jobs(s) : s.jobs[j] \in JobRuntime /\ Punctual(s.jobs[j])
    BY SoundRuntime DEF Kept, HistoriesKept
  <2> DEFINE rv == CompletedRuntime(s.jobs[job], completion, s.now)
  <2>2. /\ rv.spec = s.jobs[job].spec /\ rv.nominal_due = s.jobs[job].nominal_due
        /\ rv.in_flight = {} /\ Punctual(rv)
        /\ completion # "ConfirmedAbsent" => (s.jobs[job].has_sample => rv.has_sample)
    BY <1>1, <1>2, <2>1, CompletedPunctual
  <2> HIDE DEF rv
  <2>3. DOMAIN f = Jobs(s) /\ \A j \in Jobs(s) : f[j] = IF j = job THEN rv ELSE s.jobs[j]
    BY DEF Jobs, rv
  <2> HIDE DEF f
  <2>4. Jobs(released) = Jobs(s)
    BY <1>3, <2>3 DEF Jobs
  <2> QED BY <1>3, <2>1, <2>2, <2>3, <2>4
<1> HIDE DEF f
<1>6. ASSUME NEW j \in Jobs(s), s.jobs[j].spec.history_source = job
      PROVE  s.jobs[j].in_flight = {} /\ j # job
  <2>1. job # NoJob
    BY <1>2, SoundRuntime, JobsAssumption
  <2>2. j # job /\ OwnerOf[job] = OwnerOf[j]
    BY <1>2, <1>6, <2>1 DEF Kept, HistoriesKept, Catalogued
  <2>3. ASSUME NEW v \in s.jobs[j].in_flight
        PROVE  FALSE
    <3>1. v \in Live(s) /\ t \in Live(s)
      BY <1>2 DEF Live, InFlight
    <3>2. v.job = j
      BY <1>1 DEF Owned
    <3> QED BY <1>1, <2>2, <3>1, <3>2 DEF Owned
  <2> QED BY <2>2, <2>3
<1>7. Kept(released)
  <2>1. Catalogued(released)
    BY <1>5, SameCatalogue DEF Kept, HistoriesKept
  <2>2. ASSUME NEW j \in Jobs(s), released.jobs[j].in_flight # {}
        PROVE  SourceReady(released, released.jobs[j])
    <3>1. SourceReady(s, s.jobs[j]) /\ s.jobs[j].in_flight # {}
      BY <1>5, <2>2 DEF Kept, HistoriesKept
    <3>2. s.jobs[j].spec.history_source # job
      BY <1>6, <3>1
    <3> QED BY <1>5, <3>1, <3>2 DEF SourceReady
  <2>3. InPhase(released)
    BY <1>3, <1>5 DEF Kept, InPhase, IsFast, OnGrid, SameSettings
  <2>4. Wanted(released, CurrentDemand(released))
    BY <1>3, <1>5, SettingsDemand DEF Kept, Wanted
  <2> QED BY <1>5, <2>1, <2>2, <2>3, <2>4 DEF Kept, HistoriesKept
<1>8. Kept(settled)
  <2>1. \A j \in Jobs(released) : released.jobs[j].spec.history_source = job =>
          released.jobs[j].in_flight = {}
    BY <1>5, <1>6
  <2> QED BY <1>1, <1>2, <1>4, <1>5, <1>7, <2>1, InvalidateHistoriesKeeps DEF Keeps
<1>9. LET painted == CompleteFirstPaint(settled)
      IN  Sound(painted) /\ Kept(painted)
  BY <1>1, <1>8, CompleteGentle, GentleKeeps DEF Gentle, Keeps
<1>10. Keeps(s, CompleteActivation(CompleteFirstPaint(settled)))
  BY <1>9, CompleteGentle, GentleKeeps DEF Gentle, Keeps
<1>11. FinishJob(s, t, completion, ready) = CompleteActivation(CompleteFirstPaint(settled))
  BY DEF FinishJob, settled, Settling, Released
<1> QED BY <1>10, <1>11

(* The acknowledgement of a cancelled run concerns its owner alone.           *)
LEMMA FinishCancellationKeeps ==
  ASSUME NEW s, Sound(s), NEW t \in s.cancelling
  PROVE  Keeps(s, FinishCancellation(s, t))
<1> DEFINE u == FinishCancellation(s, t)
<1>1. Sound(u) /\ IsState(s)
  BY FinishCancellationSound DEF Sound
<1>2. u.jobs = s.jobs /\ u.next_display = s.next_display /\ SameSettings(s, u)
  BY <1>1 DEF FinishCancellation, IsState, SameSettings
<1> HIDE DEF u
<1>3. Gentle(s, u)
  BY <1>1, <1>2, GentleJobs, CalmSelf DEF Jobs
<1> QED BY <1>3, GentleKeeps DEF u

-----------------------------------------------------------------------------
(* Plans.                                                                     *)

Idle(s) == \A j \in Jobs(s) : s.jobs[j].in_flight = {}

(* With nothing in flight it is enough to look at the pending points.         *)
LEMMA IdleHistories ==
  ASSUME NEW s, Idle(s), Catalogued(s), \A j \in Jobs(s) : Punctual(s.jobs[j]), NEW D
  PROVE  HistoriesKept(s) /\ Wanted(s, D)
  BY DEF Idle, HistoriesKept, Wanted

(* A new runtime.                                                             *)
LEMMA NewRuntimePunctual ==
  ASSUME NEW spec \in JobSpec, NEW anchor \in Nat, NEW display
  PROVE  LET rt == NewRuntime(spec, anchor, display)
         IN  /\ rt.spec = spec /\ rt.in_flight = {} /\ Punctual(rt)
             /\ IsFast(rt) => rt.nominal_due = FastDue(display)
<1> DEFINE rt == NewRuntime(spec, anchor, display)
<1>1. /\ rt.spec = spec /\ rt.in_flight = {} /\ rt.retry_due = None
      /\ rt.pending_since = None /\ rt.pending_history = None
      /\ spec.timing = "History" => rt.nominal_due = anchor + spec.freshness
      /\ spec.timing = "FastDisplay" => rt.nominal_due = FastDue(display)
  BY DEF NewRuntime
<1>2. spec.freshness \in Nat
  BY DEF JobSpec
<1> HIDE DEF rt
<1>3. Points(rt) = {}
  BY <1>1 DEF Points
<1>4. Punctual(rt)
  BY <1>1, <1>2, <1>3 DEF Punctual, IsHistory, None
<1> QED BY <1>1, <1>4 DEF rt, IsFast

(* The runtime of a job under a new plan, its run cancelled.                  *)
LEMMA ReplacedPunctual ==
  ASSUME NEW s, s.now \in Nat, NEW old \in JobRuntime, old.in_flight = {}, Punctual(old),
         NEW spec \in JobSpec, NEW display
  PROVE  LET rt == ReplacedRuntime(s, old, spec, display)
         IN  /\ rt.spec = spec /\ rt.in_flight = {} /\ Punctual(rt)
             /\ IsFast(rt) => \/ rt.nominal_due = FastDue(display)
                              \/ IsFast(old) /\ rt.nominal_due = old.nominal_due
<1> DEFINE new == NewRuntime(spec, s.now, display)
           b == old.has_sample /\ ~SourceChanged(old, spec)
           rt == [new EXCEPT !.has_sample = b]
<1>1. CASE old.spec = spec
  BY <1>1 DEF ReplacedRuntime
<1>2. CASE old.spec # spec
  <2>1. ReplacedRuntime(s, old, spec, display) = rt
    BY <1>2 DEF ReplacedRuntime
  <2>2. /\ new.spec = spec /\ new.in_flight = {} /\ Punctual(new)
        /\ IsFast(new) => new.nominal_due = FastDue(display)
    BY NewRuntimePunctual
  <2>3. /\ rt.spec = new.spec /\ rt.in_flight = new.in_flight /\ rt.retry_due = new.retry_due
        /\ rt.pending_since = new.pending_since /\ rt.pending_history = new.pending_history
        /\ rt.nominal_due = new.nominal_due
    BY DEF NewRuntime
  <2> HIDE DEF rt, new
  <2>4. Punctual(rt) /\ (IsFast(rt) <=> IsFast(new))
    BY <2>2, <2>3 DEF Punctual, Points, IsHistory, IsFast
  <2> QED BY <2>1, <2>2, <2>3, <2>4
<1> QED BY <1>1, <1>2

(* A plan replaces the jobs: all runs are cancelled, and a fast job either    *)
(* keeps its deadline or gets that of the display.                            *)
LEMMA ReplaceJobsIdle ==
  ASSUME NEW s, IsState(s), Owned(s), \A j \in Jobs(s) : Punctual(s.jobs[j]),
         NEW specs, IsJobMap(specs, JobSpec), NEW reason \in CancelReason
  PROVE  LET u == ReplaceJobs(s, specs, reason)
             display == IF s.next_display = None THEN s.now + s.display_interval
                        ELSE s.next_display
         IN  /\ Sound(u) /\ SameSettings(s, u) /\ u.next_display = s.next_display
             /\ u.now = s.now /\ Jobs(u) = DOMAIN specs /\ Idle(u)
             /\ \A j \in Jobs(u) :
                  /\ u.jobs[j].spec = specs[j] /\ Punctual(u.jobs[j])
                  /\ IsFast(u.jobs[j]) =>
                       \/ u.jobs[j].nominal_due = FastDue(display)
                       \/ /\ j \in Jobs(s) /\ IsFast(s.jobs[j])
                          /\ u.jobs[j].nominal_due = s.jobs[j].nominal_due
<1> DEFINE c == CancelAll(s, reason)
           display == IF c.next_display = None THEN c.now + c.display_interval
                      ELSE c.next_display
           f == [j \in DOMAIN specs |->
                   IF j \in Jobs(c) THEN ReplacedRuntime(c, c.jobs[j], specs[j], display)
                   ELSE NewRuntime(specs[j], c.now, display)]
           as == c.actions \cup Invalidated(c, specs)
           waiting == c.activation_waiting \cap DOMAIN specs
           r == [c EXCEPT !.jobs = f, !.actions = as, !.activation_waiting = waiting,
                          !.first_paint_waiting = {}]
           blockers == FirstPaintBlockers(r)
           m == MarkJobs(r, blockers)
           w == [m EXCEPT !.first_paint_waiting = blockers]
           u == ReplaceJobs(s, specs, reason)
           g == [j \in DOMAIN f |-> IF j \in blockers THEN MarkPending(f[j], r.now) ELSE f[j]]
<1>1. IsState(c) /\ InFlight(c) = {} /\ Jobs(c) = Jobs(s)
  BY CancelAllOwned
<1>2. /\ SameSettings(s, c) /\ c.next_display = s.next_display /\ c.now = s.now
      /\ \A j \in Jobs(s) : c.jobs[j] = [s.jobs[j] EXCEPT !.in_flight = {}]
  BY DEF CancelAll, CancelRuns, IsState, SameSettings, Jobs
<1>3. Sound(u) /\ IsState(u)
  BY ReplaceJobsSound DEF Sound
<1>4. u = IF s.first_paint_issued THEN r ELSE w
  BY DEF ReplaceJobs
<1> HIDE DEF c, as, waiting, u
<1>5. \A j \in Jobs(s) : /\ c.jobs[j] \in JobRuntime /\ c.jobs[j].in_flight = {}
                         /\ Punctual(c.jobs[j])
                         /\ IsFast(c.jobs[j]) <=> IsFast(s.jobs[j])
                         /\ c.jobs[j].nominal_due = s.jobs[j].nominal_due
  <2>1. \A j \in Jobs(s) : s.jobs[j] \in JobRuntime /\ c.jobs[j] \in JobRuntime
    BY <1>1, RuntimeOf
  <2>2. \A j \in Jobs(s) : /\ Calm(s.jobs[j], c.jobs[j]) /\ c.jobs[j].in_flight = {}
                           /\ c.jobs[j].nominal_due = s.jobs[j].nominal_due
    <3>1. s.now \in Nat
      BY DEF IsState
    <3> QED BY <1>2, <2>1, <3>1, CalmOperators
  <2> QED BY <2>1, <2>2, CalmPunctual DEF Calm, IsFast
<1>6. c.now \in Nat
  BY <1>1 DEF IsState
<1> HIDE DEF display
<1>7. \A j \in DOMAIN specs :
        /\ f[j].spec = specs[j] /\ f[j].in_flight = {} /\ Punctual(f[j])
        /\ IsFast(f[j]) =>
             \/ f[j].nominal_due = FastDue(display)
             \/ /\ j \in Jobs(s) /\ IsFast(s.jobs[j])
                /\ f[j].nominal_due = s.jobs[j].nominal_due
  <2> SUFFICES ASSUME NEW j \in DOMAIN specs
               PROVE  /\ f[j].spec = specs[j] /\ f[j].in_flight = {} /\ Punctual(f[j])
                      /\ IsFast(f[j]) =>
                           \/ f[j].nominal_due = FastDue(display)
                           \/ /\ j \in Jobs(s) /\ IsFast(s.jobs[j])
                              /\ f[j].nominal_due = s.jobs[j].nominal_due
    OBVIOUS
  <2>1. specs[j] \in JobSpec
    BY DEF IsJobMap
  <2>2. CASE j \in Jobs(s)
    BY <1>1, <1>5, <1>6, <2>1, <2>2, ReplacedPunctual
  <2>3. CASE j \notin Jobs(s)
    BY <1>1, <1>6, <2>1, <2>3, NewRuntimePunctual
  <2> QED BY <2>2, <2>3
<1>8. DOMAIN f = DOMAIN specs
  OBVIOUS
<1> HIDE DEF f
<1>9. /\ r.jobs = f /\ r.now = s.now /\ r.next_display = s.next_display
      /\ SameSettings(s, r)
  BY <1>1, <1>2 DEF IsState, SameSettings
<1>10. m = [r EXCEPT !.jobs = g]
  BY <1>9 DEF MarkJobs
<1>11. /\ w.jobs = g /\ w.now = s.now /\ w.next_display = s.next_display
       /\ SameSettings(s, w)
  <2>1. w = [[r EXCEPT !.jobs = g] EXCEPT !.first_paint_waiting = blockers]
    BY <1>10
  <2> HIDE DEF g, m, w, blockers
  <2> QED BY <1>1, <1>2, <2>1 DEF IsState, SameSettings
<1>12. \A j \in blockers : j \in DOMAIN f /\ ~IsHistory(f[j])
  BY <1>9 DEF FirstPaintBlockers, StartupPanel, Jobs
<1> HIDE DEF r, m, w, blockers
<1>13. ASSUME s.first_paint_issued
       PROVE  Jobs(u) = DOMAIN specs /\ u.jobs = f
  BY <1>4, <1>8, <1>9, <1>13 DEF Jobs
<1>14. ASSUME ~s.first_paint_issued, NEW j \in DOMAIN specs
       PROVE  /\ Jobs(u) = DOMAIN specs
              /\ u.jobs[j].spec = f[j].spec /\ u.jobs[j].in_flight = {}
              /\ u.jobs[j].nominal_due = f[j].nominal_due /\ Punctual(u.jobs[j])
  <2>1. u.jobs = g /\ Jobs(u) = DOMAIN specs /\ r.now = s.now
    BY <1>4, <1>8, <1>9, <1>11, <1>14 DEF Jobs
  <2>2. g[j] = IF j \in blockers THEN MarkPending(f[j], s.now) ELSE f[j]
    BY <1>8, <2>1
  <2>3. u.jobs[j] \in JobRuntime
    BY <1>3, <2>1, RuntimeOf
  <2> HIDE DEF g
  <2>4. CASE j \notin blockers
    BY <1>7, <2>1, <2>2, <2>4
  <2>5. CASE j \in blockers
    <3>1. f[j] \in JobRuntime
      <4>1. specs[j] \in JobSpec /\ display \in Nat
        BY <1>1, <1>6 DEF IsJobMap, IsState, OptTime, display
      <4> QED BY <1>1, <1>5, <1>6, <4>1, ReplacedRuntimeType, NewRuntimeType DEF f
    <3>2. s.now \in Nat
      BY DEF IsState
    <3>3. /\ Calm(f[j], u.jobs[j]) /\ u.jobs[j].nominal_due = f[j].nominal_due
      <4>1. ~IsHistory(f[j]) /\ u.jobs[j] = MarkPending(f[j], s.now)
        BY <1>12, <2>1, <2>2, <2>5
      <4>2. /\ Calm(f[j], MarkPending(f[j], s.now))
            /\ MarkPending(f[j], s.now).nominal_due = f[j].nominal_due
        BY <3>1, <3>2, <4>1, CalmOperators
      <4> QED BY <4>1, <4>2
    <3>4. Punctual(u.jobs[j])
      BY <1>7, <2>3, <3>1, <3>3, CalmPunctual
    <3> QED BY <1>7, <2>1, <3>3, <3>4 DEF Calm
  <2> QED BY <2>4, <2>5
<1>15. \A j \in DOMAIN specs :
         /\ u.jobs[j].spec = specs[j] /\ u.jobs[j].in_flight = {} /\ Punctual(u.jobs[j])
         /\ u.jobs[j].nominal_due = f[j].nominal_due
         /\ IsFast(u.jobs[j]) <=> IsFast(f[j])
  BY <1>7, <1>13, <1>14 DEF IsFast
<1>16. Jobs(u) = DOMAIN specs
  BY <1>4, <1>8, <1>9, <1>11 DEF Jobs, g
<1>17. /\ SameSettings(s, u) /\ u.next_display = s.next_display /\ u.now = s.now
  BY <1>4, <1>9, <1>11
<1>18. display = IF s.next_display = None THEN s.now + s.display_interval ELSE s.next_display
  BY <1>2 DEF display, SameSettings
<1> QED BY <1>3, <1>7, <1>15, <1>16, <1>17, <1>18 DEF Idle, u

(* The jobs of a plan.                                                        *)
LEMMA PlanCatalogued ==
  ASSUME NEW plan \in Plans, NEW s, Jobs(s) = DOMAIN plan.jobs,
         \A j \in Jobs(s) : s.jobs[j].spec = plan.jobs[j]
  PROVE  /\ Catalogued(s)
         /\ \A j \in Jobs(s) : IsFast(s.jobs[j]) =>
              s.jobs[j].spec.freshness = plan.display_interval
         /\ plan.display_interval \in Nat \ {0} /\ plan.display_interval >= FAST_PREFETCH
<1>1. IsCatalogued(plan) /\ plan.display_interval >= FAST_PREFETCH
  BY CatalogueAssumption
<1>2. ASSUME NEW j \in Jobs(s)
      PROVE  LET spec   == s.jobs[j].spec
                 source == spec.history_source
             IN  /\ spec.timing = "FastDisplay" => spec.freshness = plan.display_interval
                 /\ spec.timing = "History" => spec.amd = NoAmd /\ j \notin Discovery
                 /\ source # NoJob =>
                      spec.timing = "History" /\ OwnerOf[source] = OwnerOf[j]
                 /\ source \in Jobs(s) => s.jobs[source].spec.timing # "History"
  <2> DEFINE spec == plan.jobs[j]
             source == spec.history_source
  <2>1. /\ spec.timing = "FastDisplay" => spec.freshness = plan.display_interval
        /\ spec.timing = "History" => spec.amd = NoAmd /\ j \notin Discovery
        /\ source # NoJob => spec.timing = "History" /\ OwnerOf[source] = OwnerOf[j]
        /\ source \in Jobs(s) => plan.jobs[source].timing # "History"
    BY <1>1 DEF IsCatalogued
  <2>2. s.jobs[j].spec = spec /\ (source \in Jobs(s) => s.jobs[source].spec = plan.jobs[source])
    OBVIOUS
  <2> QED BY <2>1, <2>2
<1>3. Catalogued(s)
  BY <1>2 DEF Catalogued
<1> QED BY <1>1, <1>2, <1>3, PlanType DEF IsFast

(* Due with the display, a fast job is in phase.                              *)
LEMMA FastDueOnGrid ==
  ASSUME NEW s, NEW display \in Nat, s.next_display = display, display >= FAST_PREFETCH,
         s.display_interval \in Nat \ {0}
  PROVE  OnGrid(s, FastDue(display))
<1>1. FAST_PREFETCH \in Nat
  BY TimesAssumption
<1>2. FastDue(display) = display - FAST_PREFETCH
  BY <1>1 DEF FastDue, SatSub
<1>3. s.next_display - FAST_PREFETCH - FastDue(display) = 0
  BY <1>1, <1>2
<1>4. 0 % s.display_interval = 0
  OBVIOUS
<1> QED BY <1>3, <1>4 DEF OnGrid

(* startup.                                                                   *)
LEMMA StartKept ==
  ASSUME NEW s, Sound(s), s.lifecycle = "Unstarted", NEW plan \in Plans
  PROVE  Kept(Start(s, plan))
<1> DEFINE display == s.now + plan.display_interval
           paint   == s.now + FIRST_PAINT_TIMEOUT
           f == [j \in DOMAIN plan.jobs |-> NewRuntime(plan.jobs[j], s.now, display)]
           started == [s EXCEPT
             !.lifecycle = "Running", !.config_generation = 1, !.inventory_generation = 1,
             !.display_interval = plan.display_interval, !.demand = plan.demand,
             !.next_display = display, !.first_paint_deadline = paint, !.jobs = f]
           demanded == {j \in Jobs(started) \cap CurrentDemand(started) :
                          ~IsHistory(started.jobs[j])}
           waiting == {j \in demanded : StartupPanel(started.jobs[j])}
           m == MarkJobs(started, demanded)
           w == [m EXCEPT !.first_paint_waiting = waiting]
<1>1. IsState(s) /\ Owned(s) /\ InFlight(s) = {} /\ s.now \in Nat
  BY DEF Sound, Era, IsState
<1>2. /\ display \in Nat /\ paint \in Nat /\ display >= plan.display_interval
      /\ plan.display_interval \in Nat \ {0}
  BY <1>1, PlanType, TimesAssumption
<1>3. IsJobMap(f, JobRuntime)
  BY <1>1, <1>2, PlanType, NewRuntimeType DEF IsJobMap
<1>4. DOMAIN f = DOMAIN plan.jobs
      /\ \A j \in DOMAIN plan.jobs : /\ f[j].spec = plan.jobs[j] /\ f[j].in_flight = {}
                                     /\ Punctual(f[j])
                                     /\ IsFast(f[j]) => f[j].nominal_due = FastDue(display)
  BY <1>1, PlanType, NewRuntimePunctual DEF IsJobMap
<1> HIDE DEF f, display, paint
<1>5. IsState(started)
  BY <1>1, <1>2, <1>3, PlanType DEF IsState, OptTime, Lifecycle
<1>6. /\ started.jobs = f /\ started.cancelling = s.cancelling
      /\ started.next_run_id = s.next_run_id
      /\ started.in_flight_owners = s.in_flight_owners
      /\ started.next_display = display /\ started.display_interval = plan.display_interval
  BY <1>1 DEF IsState
<1> HIDE DEF started
<1>7. Sound(started)
  BY <1>1, <1>4, <1>5, <1>6, IdleSound DEF Jobs
<1>8. Kept(started)
  <2>1. /\ Catalogued(started) /\ plan.display_interval >= FAST_PREFETCH
        /\ \A j \in Jobs(started) : IsFast(started.jobs[j]) =>
             started.jobs[j].spec.freshness = plan.display_interval
    BY <1>4, <1>6, PlanCatalogued DEF Jobs
  <2>2. Idle(started) /\ \A j \in Jobs(started) : Punctual(started.jobs[j])
    BY <1>4, <1>6 DEF Jobs, Idle
  <2>3. FAST_PREFETCH \in Nat /\ display >= FAST_PREFETCH
    BY <1>2, <2>1, TimesAssumption
  <2>4. OnGrid(started, FastDue(display))
    BY <1>2, <1>6, <2>3, FastDueOnGrid
  <2>5. InPhase(started)
    BY <1>2, <1>4, <1>6, <2>1, <2>3, <2>4 DEF InPhase, Jobs, None
  <2> QED BY <2>1, <2>2, <2>5, IdleHistories DEF Kept
<1>9. \A j \in demanded \cap Jobs(started) : ~IsHistory(started.jobs[j])
  OBVIOUS
<1>10. waiting \subseteq JobId
  BY <1>5, RuntimeOf
<1> HIDE DEF demanded, waiting
<1>11. Sound(m) /\ Kept(m)
  BY <1>7, <1>8, <1>9, MarkJobsGentle, GentleKept DEF Gentle
<1> HIDE DEF m
<1>12. /\ IsState(w) /\ SameRuns(m, w) /\ SameEra(m, w) /\ SameSettings(m, w)
       /\ w.jobs = m.jobs /\ w.next_display = m.next_display
  BY <1>10, <1>11 DEF Sound, IsState, SameRuns, SameEra, Jobs, SameSettings
<1>13. Sound(w)
  BY <1>11, <1>12, QuietSound DEF Follows
<1> HIDE DEF w
<1>14. Kept(w)
  BY <1>11, <1>12, <1>13, GentleJobs, CalmSelf, GentleKept DEF Jobs
<1>15. Kept(CompleteFirstPaint(w))
  BY <1>13, <1>14, CompleteGentle, GentleKept
<1> QED BY <1>15 DEF Start, w, m, waiting, demanded, started, f, display, paint

(* reconfigure.                                                               *)
LEMMA ReconfigureKept ==
  ASSUME NEW s, Sound(s), Kept(s), NEW plan \in Plans
  PROVE  Kept(Reconfigure(s, plan))
<1> DEFINE generation == s.config_generation + 1
           display == s.now + plan.display_interval
           adopted == [s EXCEPT !.config_generation = generation,
                                !.display_interval = plan.display_interval,
                                !.demand = plan.demand, !.next_display = display]
           replaced == ReplaceJobs(adopted, plan.jobs, "ConfigChanged")
           anchored == ReanchorFast(replaced)
           demanded == RefreshDemand(anchored, FALSE)
           J == CurrentDemand(demanded) \cap Discovery
           marked == MarkJobs(demanded, J)
           published == PublishFull(marked, "ConfigChanged", None, 0)
<1>1. /\ IsState(s) /\ Owned(s) /\ generation \in Nat /\ display \in Nat
      /\ display >= plan.display_interval /\ plan.display_interval \in Nat \ {0}
  BY PlanType DEF Sound, IsState
<1> HIDE DEF generation, display
<1>2. /\ IsState(adopted) /\ SameRuns(s, adopted) /\ adopted.jobs = s.jobs
      /\ adopted.next_display = display /\ adopted.display_interval = plan.display_interval
  BY <1>1, PlanType DEF IsState, SameRuns, Jobs, OptTime
<1> HIDE DEF adopted
<1>3. Owned(adopted) /\ \A j \in Jobs(adopted) : Punctual(adopted.jobs[j])
  BY <1>1, <1>2, QuietOwned DEF Kept, HistoriesKept, Jobs
<1>4. /\ Sound(replaced) /\ SameSettings(adopted, replaced)
      /\ replaced.next_display = display /\ Jobs(replaced) = DOMAIN plan.jobs
      /\ Idle(replaced)
      /\ \A j \in Jobs(replaced) : replaced.jobs[j].spec = plan.jobs[j]
                                   /\ Punctual(replaced.jobs[j])
  BY <1>2, <1>3, PlanType, ReplaceJobsIdle DEF CancelReason
<1> HIDE DEF replaced
<1>5. /\ Catalogued(replaced) /\ plan.display_interval >= FAST_PREFETCH
      /\ \A j \in Jobs(replaced) : IsFast(replaced.jobs[j]) =>
           replaced.jobs[j].spec.freshness = plan.display_interval
  BY <1>4, PlanCatalogued
<1>6. /\ Sound(anchored) /\ Steady(replaced, anchored) /\ InPhase(anchored)
  <2>1. display >= FAST_PREFETCH /\ display # None
    BY <1>1, <1>5, TimesAssumption DEF None
  <2>2. replaced.display_interval = plan.display_interval
    BY <1>2, <1>4 DEF SameSettings
  <2> QED BY <1>4, <1>5, <2>1, <2>2, ReanchorFastGentle
<1> HIDE DEF anchored
<1>7. HistoriesKept(replaced) /\ Wanted(replaced, CurrentDemand(anchored))
  BY <1>4, <1>5, IdleHistories
<1>8. Kept(anchored)
  BY <1>4, <1>6, <1>7, SteadyHistories, SteadyWanted DEF Kept
<1>9. Kept(demanded) /\ Sound(demanded)
  BY <1>6, <1>8, RefreshDemandGentle, GentleKept DEF Gentle
<1> HIDE DEF demanded
<1>10. \A j \in J \cap Jobs(demanded) : ~IsHistory(demanded.jobs[j])
  BY <1>9 DEF Kept, HistoriesKept, Catalogued, IsHistory
<1> HIDE DEF J
<1>11. Kept(marked) /\ Sound(marked)
  BY <1>9, <1>10, MarkJobsGentle, GentleKept DEF Gentle
<1> HIDE DEF marked
<1>12. Kept(published)
  BY <1>11, PublishGentle, GentleKept DEF PublishReason, OptTime
<1> QED BY <1>11, <1>12
        DEF Reconfigure, marked, J, demanded, anchored, replaced, adopted, generation, display

(* change_inventory: the display deadline and with it the grid stay.          *)
LEMMA ChangeInventoryKept ==
  ASSUME NEW s, Sound(s), Kept(s), s.lifecycle # "Unstarted", NEW plan \in Plans,
         plan.display_interval = s.display_interval, NEW acknowledged
  PROVE  Kept(ChangeInventory(s, plan, acknowledged))
<1> DEFINE resumes  == acknowledged = s.awaiting_resume_inventory /\ acknowledged # 0
           before   == CurrentDemand(s)
           generation == s.inventory_generation + 1
           adopted  == [s EXCEPT !.inventory_generation = generation, !.demand = plan.demand]
           replaced == ReplaceJobs(adopted, plan.jobs, "SourceReplaced")
           freed    == [replaced EXCEPT !.awaiting_resume_inventory = 0]
           released == IF resumes THEN freed ELSE replaced
           active   == ActivateJobs(released, before, CurrentDemand(released),
                                    released.effective_presented)
           activated == RefreshDemand(active, FALSE)
<1>1. IsState(s) /\ Owned(s) /\ generation \in Nat
  BY DEF Sound, IsState
<1> HIDE DEF generation
<1>2. /\ IsState(adopted) /\ SameRuns(s, adopted) /\ adopted.jobs = s.jobs
      /\ adopted.next_display = s.next_display
      /\ adopted.display_interval = s.display_interval
  BY <1>1, PlanType DEF IsState, SameRuns, Jobs
<1> HIDE DEF adopted
<1>3. Owned(adopted) /\ \A j \in Jobs(adopted) : Punctual(adopted.jobs[j])
  BY <1>1, <1>2, QuietOwned DEF Kept, HistoriesKept, Jobs
<1>4. /\ s.next_display \in Nat /\ s.next_display # None /\ s.next_display >= FAST_PREFETCH
      /\ s.display_interval \in Nat \ {0}
  BY <1>1 DEF Kept, InPhase, IsState, OptTime
<1>5. /\ Sound(replaced) /\ SameSettings(adopted, replaced)
      /\ replaced.next_display = s.next_display /\ Jobs(replaced) = DOMAIN plan.jobs
      /\ Idle(replaced)
      /\ \A j \in Jobs(replaced) :
           /\ replaced.jobs[j].spec = plan.jobs[j] /\ Punctual(replaced.jobs[j])
           /\ IsFast(replaced.jobs[j]) =>
                \/ replaced.jobs[j].nominal_due = FastDue(s.next_display)
                \/ /\ j \in Jobs(adopted) /\ IsFast(adopted.jobs[j])
                   /\ replaced.jobs[j].nominal_due = adopted.jobs[j].nominal_due
  BY <1>2, <1>3, <1>4, PlanType, ReplaceJobsIdle DEF CancelReason
<1> HIDE DEF replaced, resumes
<1>6. Kept(replaced)
  <2>1. /\ Catalogued(replaced) /\ plan.display_interval >= FAST_PREFETCH
        /\ \A j \in Jobs(replaced) : IsFast(replaced.jobs[j]) =>
             replaced.jobs[j].spec.freshness = plan.display_interval
    BY <1>5, PlanCatalogued
  <2>2. replaced.display_interval = s.display_interval
    BY <1>2, <1>5 DEF SameSettings
  <2>3. OnGrid(replaced, FastDue(s.next_display))
    BY <1>4, <1>5, <2>2, FastDueOnGrid
  <2>4. \A j \in Jobs(s) : IsFast(s.jobs[j]) => OnGrid(replaced, s.jobs[j].nominal_due)
    BY <1>5, <2>2 DEF Kept, InPhase, OnGrid
  <2>5. \A j \in Jobs(replaced) : IsFast(replaced.jobs[j]) =>
          OnGrid(replaced, replaced.jobs[j].nominal_due)
    BY <1>2, <1>5, <2>3, <2>4 DEF Jobs
  <2>6. InPhase(replaced)
    BY <1>4, <1>5, <2>1, <2>2, <2>5 DEF InPhase
  <2> QED BY <1>5, <2>1, <2>6, IdleHistories DEF Kept
<1>7. /\ IsState(freed) /\ SameRuns(replaced, freed) /\ SameEra(replaced, freed)
      /\ SameSettings(replaced, freed) /\ freed.jobs = replaced.jobs
      /\ freed.next_display = replaced.next_display
  BY <1>5 DEF Sound, IsState, SameRuns, SameEra, Jobs, SameSettings
<1>8. Sound(freed)
  BY <1>5, <1>7, QuietSound DEF Follows
<1> HIDE DEF freed
<1>9. Kept(freed)
  BY <1>5, <1>6, <1>7, <1>8, GentleJobs, CalmSelf, GentleKept DEF Jobs
<1>10. Sound(released) /\ Kept(released) /\ released.effective_presented \in BOOLEAN
  <2>1. Sound(released) /\ Kept(released)
    BY <1>5, <1>6, <1>8, <1>9
  <2> QED BY <2>1 DEF Sound, IsState
<1> HIDE DEF released
<1>11. Sound(active) /\ Kept(active)
  BY <1>10, ActivateJobsGentle, GentleKept DEF Gentle
<1> HIDE DEF active
<1>12. Sound(activated) /\ Kept(activated)
  BY <1>11, RefreshDemandGentle, GentleKept DEF Gentle
<1> HIDE DEF activated
<1>13. Kept(RefreshAllDemanded(activated))
  BY <1>12, RefreshAllDemandedGentle, GentleKept
<1> QED BY <1>12, <1>13
        DEF ChangeInventory, activated, active, released, freed, replaced, resumes, adopted,
            generation

-----------------------------------------------------------------------------
(* Sleep.                                                                     *)

(* A history resumes at the first point of its grid that lies ahead.          *)
LEMMA ResumedPunctual ==
  ASSUME NEW s, s.now \in Nat, NEW j, NEW demanded, s.jobs[j] \in JobRuntime,
         s.jobs[j].in_flight = {}, Punctual(s.jobs[j])
  PROVE  LET rt == s.jobs[j]
             rv == ResumedRuntime(s, j, demanded)
         IN  /\ rv.spec = rt.spec /\ rv.in_flight = {} /\ Punctual(rv)
             /\ IsFast(rt) => rv.nominal_due = rt.nominal_due
<1> DEFINE rt == s.jobs[j]
           next == AdvancePast(rt.nominal_due, rt.spec.freshness, s.now)
           due == IF rt.spec.timing \in {"Periodic", "History"} /\ Due(rt.nominal_due, s.now)
                  THEN next ELSE rt.nominal_due
           since == IF j \in demanded /\ ~IsHistory(rt) THEN s.now ELSE None
           rv == ResumedRuntime(s, j, demanded)
<1>1. rv = [rt EXCEPT !.nominal_due = due, !.pending_since = since,
                      !.pending_history = None, !.retry_due = None]
  BY DEF ResumedRuntime, JobRuntime
<1>2. IsFast(rt) => due = rt.nominal_due
  BY DEF IsFast
<1>3. ASSUME IsHistory(rt)
      PROVE  None < due
  <2>1. rt.nominal_due \in Nat
    <3>1. rt.nominal_due \in OptTime /\ rt.pending_history \in OptTime
      BY DEF JobRuntime
    <3>2. rt.pending_history < rt.nominal_due
      BY <1>3 DEF Punctual
    <3> QED BY <3>1, <3>2 DEF OptTime, None
  <2>2. rt.spec.freshness \in Nat \ {0}
    BY DEF JobRuntime, JobSpec
  <2>3. next \in Nat
    BY <2>1, <2>2, AdvancePastGrid
  <2> HIDE DEF next, rt
  <2> QED BY <2>1, <2>3 DEF None
<1> HIDE DEF due, rv
<1>4. /\ rv.spec = rt.spec /\ rv.in_flight = {} /\ rv.nominal_due = due
      /\ rv.pending_since = since /\ rv.pending_history = None /\ rv.retry_due = None
  BY <1>1 DEF JobRuntime
<1>5. Points(rv) = {} /\ (IsHistory(rv) <=> IsHistory(rt))
  BY <1>4 DEF Points, IsHistory
<1>6. Punctual(rv)
  BY <1>3, <1>4, <1>5 DEF Punctual
<1> QED BY <1>2, <1>4, <1>6 DEF rv

LEMMA ResumeRunningKept ==
  ASSUME NEW s, Sound(s), Kept(s), s.lifecycle = "Suspended"
  PROVE  Kept(ResumeRunning(s))
<1> DEFINE display  == s.now + s.display_interval
           running  == [s EXCEPT !.lifecycle = "Running", !.next_display = display]
           a == ReanchorFast(running)
           u == ResumeRunning(s)
           g == [j \in DOMAIN a.jobs |-> ResumedRuntime(a, j, CurrentDemand(s))]
<1>1. IsState(s) /\ Owned(s) /\ InFlight(s) = {} /\ Sound(u) /\ IsState(u)
  BY ResumeRunningSound DEF Sound, Era
<1>2. /\ display \in Nat /\ display >= s.display_interval
      /\ s.display_interval \in Nat \ {0} /\ s.display_interval >= FAST_PREFETCH
      /\ FAST_PREFETCH \in Nat
  BY <1>1, TimesAssumption DEF IsState, Kept, InPhase
<1> HIDE DEF display
<1>3. /\ IsState(running) /\ SameRuns(s, running) /\ running.jobs = s.jobs
      /\ running.next_display = display /\ running.display_interval = s.display_interval
  BY <1>1, <1>2 DEF IsState, Lifecycle, SameRuns, Jobs, OptTime
<1> HIDE DEF running
<1>4. Sound(running)
  BY <1>1, <1>3, QuietOwned DEF Sound, Era
<1>5. /\ Sound(a) /\ Steady(running, a) /\ InPhase(a)
  <2>1. display >= FAST_PREFETCH /\ display # None
    BY <1>2 DEF None
  <2>2. \A j \in Jobs(running) : IsFast(running.jobs[j]) =>
          running.jobs[j].spec.freshness = running.display_interval
    BY <1>3 DEF Kept, InPhase, Jobs
  <2> QED BY <1>2, <1>3, <1>4, <2>1, <2>2, ReanchorFastGentle
<1>6. u.jobs = g /\ u.next_display = a.next_display
      /\ u.display_interval = a.display_interval
  BY <1>5 DEF ResumeRunning, Sound, IsState, a, running, display
<1> HIDE DEF a, u
<1>7. \A j \in Jobs(a) : /\ a.jobs[j] \in JobRuntime /\ a.jobs[j].in_flight = {}
                         /\ Punctual(a.jobs[j])
  <2>1. HistoriesKept(running)
    <3>1. Steady(s, running)
      BY <1>3, SteadySelf
    <3> QED BY <1>4, <3>1, SteadyHistories DEF Kept
  <2>2. HistoriesKept(a)
    BY <1>4, <1>5, <2>1, SteadyHistories
  <2>3. \A j \in Jobs(s) : s.jobs[j].in_flight = {}
    BY <1>1 DEF InFlight
  <2>4. \A j \in Jobs(a) : a.jobs[j].in_flight = {}
    BY <1>3, <1>5, <2>3 DEF Steady, Calm, Jobs
  <2> QED BY <1>5, <2>2, <2>4, SoundRuntime DEF HistoriesKept
<1>8. a.now \in Nat
  BY <1>5 DEF Sound, IsState
<1>9. Jobs(u) = Jobs(a) /\ \A j \in Jobs(a) :
        /\ u.jobs[j].spec = a.jobs[j].spec /\ u.jobs[j].in_flight = {}
        /\ Punctual(u.jobs[j])
        /\ IsFast(a.jobs[j]) => u.jobs[j].nominal_due = a.jobs[j].nominal_due
  BY <1>6, <1>7, <1>8, ResumedPunctual DEF Jobs
<1> HIDE DEF g
<1>10. Catalogued(u)
  <2>1. Catalogued(s)
    BY DEF Kept, HistoriesKept
  <2>2. Jobs(u) = Jobs(s) /\ \A j \in Jobs(s) : u.jobs[j].spec = s.jobs[j].spec
    BY <1>3, <1>5, <1>9 DEF Steady, Calm, Jobs
  <2> QED BY <2>1, <2>2, SameCatalogue
<1>11. Idle(u) /\ \A j \in Jobs(u) : Punctual(u.jobs[j])
  BY <1>9 DEF Idle
<1>12. InPhase(u)
  <2>1. \A j \in Jobs(u) : IsFast(u.jobs[j]) =>
          /\ u.jobs[j].spec.freshness = u.display_interval
          /\ OnGrid(u, u.jobs[j].nominal_due)
    BY <1>5, <1>6, <1>9 DEF InPhase, IsFast, OnGrid
  <2>2. a.next_display # None
    <3>1. running.next_display # None
      BY <1>2, <1>3 DEF None
    <3> QED BY <1>3, <1>4, <3>1, ReanchorFastGentle DEF a
  <2> QED BY <1>5, <1>6, <2>1, <2>2 DEF InPhase
<1> QED BY <1>10, <1>11, <1>12, IdleHistories DEF Kept, u

(* stop and suspend.                                                          *)
LEMMA HaltKept ==
  ASSUME NEW s, Sound(s), Kept(s), s.lifecycle # "Unstarted",
         NEW reason \in {"Shutdown", "CriticalFailure"}
  PROVE  /\ Kept(Stop(s, reason))
         /\ Kept([CancelAll(s, "Suspend") EXCEPT !.lifecycle = "Suspended"])
<1>1. ASSUME NEW c, Sound(c), Gentle(s, c), NEW u, Sound(u), u.jobs = c.jobs,
             u.next_display = c.next_display, u.display_interval = c.display_interval,
             u.demand = c.demand, u.effective_presented = c.effective_presented,
             u.selected_page = c.selected_page
      PROVE  Kept(u)
  <2>1. Kept(c) /\ c.lifecycle # "Unstarted"
    BY <1>1, GentleKept DEF Gentle, SameSettings
  <2>2. Steady(c, u)
    BY <1>1, SteadySelf
  <2>3. InPhase(u)
    BY <1>1, <2>1 DEF Kept, InPhase, Jobs, OnGrid
  <2>4. CurrentDemand(u) = CurrentDemand(c)
    BY <1>1 DEF CurrentDemand
  <2> QED BY <1>1, <2>1, <2>2, <2>3, <2>4, SteadyHistories, SteadyWanted DEF Kept
<1>2. ASSUME NEW why \in CancelReason
      PROVE  Gentle(s, CancelAll(s, why)) /\ Sound(CancelAll(s, why))
  BY CancelRunsGentle DEF CancelAll, Gentle
<1>3. Kept(Stop(s, reason))
  <2> DEFINE c == CancelAll(s, reason)
             u == Stop(s, reason)
  <2>1. Gentle(s, c) /\ Sound(c) /\ Sound(u)
    BY <1>2, HaltSound DEF CancelReason
  <2>2. u = [c EXCEPT !.lifecycle = "Stopped", !.actions = @ \cup {[kind |-> "Terminate"]}]
    BY DEF Stop
  <2> HIDE DEF c, u
  <2>3. /\ u.jobs = c.jobs /\ u.next_display = c.next_display
        /\ u.display_interval = c.display_interval /\ u.demand = c.demand
        /\ u.effective_presented = c.effective_presented /\ u.selected_page = c.selected_page
    BY <2>1, <2>2 DEF Sound, IsState
  <2>4. Kept(u)
    BY <1>1, <2>1, <2>3
  <2> QED BY <2>4 DEF u
<1>4. Kept([CancelAll(s, "Suspend") EXCEPT !.lifecycle = "Suspended"])
  <2> DEFINE c == CancelAll(s, "Suspend")
             u == [c EXCEPT !.lifecycle = "Suspended"]
  <2>1. Gentle(s, c) /\ Sound(c) /\ Sound(u)
    BY <1>2, HaltSound DEF CancelReason
  <2> HIDE DEF c
  <2>3. /\ u.jobs = c.jobs /\ u.next_display = c.next_display
        /\ u.display_interval = c.display_interval /\ u.demand = c.demand
        /\ u.effective_presented = c.effective_presented /\ u.selected_page = c.selected_page
    BY <2>1 DEF Sound, IsState
  <2> HIDE DEF u
  <2>4. Kept(u)
    BY <1>1, <2>1, <2>3
  <2> QED BY <2>4 DEF u, c
<1> QED BY <1>3, <1>4

-----------------------------------------------------------------------------
(* Demand, presentation and pages.                                            *)

(* Nothing but what is demanded changes.                                      *)
LEMMA MovedKept ==
  ASSUME NEW s, Sound(s), Kept(s), NEW u, Sound(u), u.jobs = s.jobs,
         u.next_display = s.next_display, u.display_interval = s.display_interval,
         u.lifecycle = s.lifecycle
  PROVE  /\ Wanted(u, CurrentDemand(s))
         /\ CurrentDemand(s) \subseteq CurrentDemand(u) => Kept(u)
         /\ LET e == CancelDemandEnded(u, CurrentDemand(s), CurrentDemand(u))
            IN  Sound(e) /\ Kept(e)
<1> DEFINE e == CancelDemandEnded(u, CurrentDemand(s), CurrentDemand(u))
<1>1. Steady(s, u)
  BY SteadySelf
<1>2. HistoriesKept(u) /\ Wanted(u, CurrentDemand(s))
  BY <1>1, SteadyHistories, SteadyWanted DEF Kept
<1>3. InPhase(u)
  BY <1>1, SamePhaseKept DEF SamePhase, Kept
<1>4. CurrentDemand(s) \subseteq CurrentDemand(u) => Wanted(u, CurrentDemand(u))
  BY <1>2 DEF Wanted
<1>5. Gentle(u, e) /\ Wanted(e, CurrentDemand(u)) /\ Sound(e)
  BY <1>2, CancelDemandEndedGentle DEF Gentle
<1> HIDE DEF e
<1>6. CurrentDemand(e) = CurrentDemand(u)
  BY <1>5, SettingsDemand DEF Gentle
<1>7. HistoriesKept(e) /\ InPhase(e)
  BY <1>2, <1>3, <1>5, SteadyHistories DEF Gentle
<1> QED BY <1>2, <1>3, <1>4, <1>5, <1>6, <1>7 DEF Kept, e

LEMMA ChangeDemandKept ==
  ASSUME NEW s, Sound(s), Kept(s), NEW demand \in DemandPlan
  PROVE  Kept(ChangeDemand(s, demand))
<1> DEFINE before == CurrentDemand(s)
           moved  == [s EXCEPT !.demand = demand]
           after  == CurrentDemand(moved)
           ended  == CancelDemandEnded(moved, before, after)
           active == ActivateJobs(ended, before, after, s.effective_presented)
           fresh  == RefreshDemand(active, FALSE)
<1>1. IsState(s) /\ s.effective_presented \in BOOLEAN
  BY DEF Sound, IsState
<1>2. /\ IsState(moved) /\ SameRuns(s, moved) /\ SameEra(s, moved) /\ moved.jobs = s.jobs
      /\ moved.next_display = s.next_display /\ moved.lifecycle = s.lifecycle
      /\ moved.display_interval = s.display_interval
  BY <1>1 DEF IsState, SameRuns, SameEra, Jobs
<1> HIDE DEF moved
<1>3. Sound(ended) /\ Kept(ended)
  <2>1. Sound(moved)
    BY <1>2, QuietSound DEF Follows
  <2> QED BY <1>2, <2>1, MovedKept
<1> HIDE DEF ended
<1>4. Sound(active) /\ Kept(active)
  BY <1>1, <1>3, ActivateJobsGentle, GentleKept DEF Gentle
<1> HIDE DEF active
<1>5. Sound(fresh) /\ Kept(fresh)
  BY <1>4, RefreshDemandGentle, GentleKept DEF Gentle
<1> HIDE DEF fresh
<1>6. Kept(RebuildFirstPaintBlockers(fresh))
  BY <1>5, RebuildFirstPaintBlockersGentle, GentleKept
<1> QED BY <1>6 DEF ChangeDemand, fresh, active, ended, moved

LEMMA PresentationKept ==
  ASSUME NEW s, Sound(s), Kept(s)
  PROVE  Kept(Present(s)) /\ Kept(Dismiss(s))
<1>1. IsState(s)
  BY DEF Sound
<1>2. Kept(Present(s))
  <2> DEFINE shown == [s EXCEPT !.presented = TRUE, !.deactivation_deadline = None,
                                !.effective_presented = TRUE]
             hidden == Demanded(s.demand, FALSE, s.selected_page)
             activated == IF s.effective_presented THEN shown
                          ELSE ActivateJobs(shown, hidden, CurrentDemand(shown), TRUE)
  <2>1. /\ IsState(shown) /\ SameRuns(s, shown) /\ SameEra(s, shown) /\ shown.jobs = s.jobs
        /\ shown.next_display = s.next_display /\ shown.lifecycle = s.lifecycle
        /\ shown.display_interval = s.display_interval
        /\ shown.demand = s.demand /\ shown.selected_page = s.selected_page
        /\ shown.effective_presented
    BY <1>1 DEF IsState, OptTime, SameRuns, SameEra, Jobs
  <2> HIDE DEF shown
  <2>2. Sound(shown)
    BY <2>1, QuietSound DEF Follows
  <2>3. CurrentDemand(s) \subseteq CurrentDemand(shown)
    BY <2>1 DEF CurrentDemand, Demanded
  <2>4. Kept(shown)
    BY <2>1, <2>2, <2>3, MovedKept
  <2>5. Sound(activated) /\ Kept(activated)
    BY <2>2, <2>4, ActivateJobsGentle, GentleKept DEF Gentle
  <2>6. Present(s) = IF s.presented THEN activated ELSE RefreshActivation(activated)
    BY DEF Present, shown
  <2> HIDE DEF activated
  <2>7. Kept(RefreshActivation(activated))
    BY <2>5, RefreshActivationGentle, GentleKept DEF Kept
  <2> QED BY <2>5, <2>6, <2>7
<1>3. Kept(Dismiss(s))
  <2> DEFINE u == Dismiss(s)
  <2>1. /\ Sound(u) /\ u.jobs = s.jobs /\ u.next_display = s.next_display
        /\ SameSettings(s, u)
    BY <1>1, PresentationSound DEF Dismiss, IsState, SameSettings
  <2> HIDE DEF u
  <2>2. Kept(u)
    BY <2>1, GentleJobs, CalmSelf, GentleKept DEF Jobs
  <2> QED BY <2>2 DEF u
<1> QED BY <1>2, <1>3

LEMMA ChangePageKept ==
  ASSUME NEW s, Sound(s), Kept(s), NEW page \in PageId
  PROVE  Kept(ChangePage(s, page))
<1> DEFINE before == CurrentDemand(s)
           moved  == [s EXCEPT !.selected_page = page]
           after  == CurrentDemand(moved)
           ended  == CancelDemandEnded(moved, before, after)
           activated == ActivateJobs(ended, before, after, TRUE)
<1>1. IsState(s) /\ s.effective_presented \in BOOLEAN
  BY DEF Sound, IsState
<1>2. /\ IsState(moved) /\ SameRuns(s, moved) /\ SameEra(s, moved) /\ moved.jobs = s.jobs
      /\ moved.next_display = s.next_display /\ moved.lifecycle = s.lifecycle
      /\ moved.display_interval = s.display_interval
      /\ moved.demand = s.demand /\ moved.effective_presented = s.effective_presented
  BY <1>1 DEF IsState, SameRuns, SameEra, Jobs
<1>3. ChangePage(s, page) =
        IF page = s.selected_page THEN s
        ELSE IF ~s.effective_presented THEN moved
        ELSE IF s.presented /\ activated.activation_waiting = {}
             THEN PublishTooltip(activated, "PageChanged") ELSE activated
  BY DEF ChangePage
<1> HIDE DEF moved
<1>4. Sound(moved)
  BY <1>2, QuietSound DEF Follows
<1>5. Sound(ended) /\ Kept(ended)
  BY <1>2, <1>4, MovedKept
<1>6. ~s.effective_presented => Kept(moved)
  <2>1. ~s.effective_presented => CurrentDemand(s) \subseteq CurrentDemand(moved)
    BY <1>2 DEF CurrentDemand, Demanded
  <2> QED BY <1>2, <1>4, <2>1, MovedKept
<1> HIDE DEF ended
<1>7. Sound(activated) /\ Kept(activated)
  BY <1>5, ActivateJobsGentle, GentleKept DEF Gentle
<1> HIDE DEF activated
<1>8. Kept(PublishTooltip(activated, "PageChanged"))
  BY <1>7, PublishGentle, GentleKept DEF PublishReason, OptTime
<1> QED BY <1>3, <1>6, <1>7, <1>8

-----------------------------------------------------------------------------
(* Steps.                                                                     *)

(* An event starts from what the last one kept.                               *)
LEMMA AtKept ==
  ASSUME JobsInv, NEW at \in Times
  PROVE  /\ Sound(At(at)) /\ Kept(At(at))
         /\ At(at).lifecycle = sched.lifecycle
         /\ At(at).display_interval = sched.display_interval
         /\ Sound(Elapse(At(at))) /\ Kept(Elapse(At(at)))
<1> DEFINE s == At(at)
<1>1. Sound(sched) /\ Kept(sched) /\ IsState(sched)
  BY DEF JobsInv, OwnershipInv, Sound
<1>2. Sound(s) /\ s.lifecycle = sched.lifecycle
  BY AtSound DEF Follows, JobsInv
<1>3. s.jobs = sched.jobs /\ s.next_display = sched.next_display /\ SameSettings(sched, s)
  BY <1>1 DEF At, IsState, SameSettings
<1> HIDE DEF s
<1>4. Kept(s)
  BY <1>1, <1>2, <1>3, GentleJobs, CalmSelf, GentleKept DEF Jobs
<1>5. Sound(Elapse(s)) /\ Kept(Elapse(s))
  BY <1>2, <1>4, ElapseKeeps DEF Keeps
<1> QED BY <1>2, <1>3, <1>4, <1>5 DEF s, SameSettings

LEMMA AcceptKept ==
  ASSUME NEW s, Sound(s), Kept(s), Accept(s)
  PROVE  Kept(sched')
  BY DispatchKeeps DEF Accept, Keeps

(* One step per event.                                                        *)
LEMMA StepKept ==
  ASSUME JobsInv, [Next]_sched
  PROVE  Kept(sched')
<1>1. Sound(sched) /\ Kept(sched) /\ IsState(sched) /\ OwnershipInv
  BY DEF JobsInv, OwnershipInv, Sound
<1>2. \A at \in Times : /\ Sound(At(at)) /\ Kept(At(at))
                        /\ At(at).lifecycle = sched.lifecycle
                        /\ At(at).display_interval = sched.display_interval
                        /\ Sound(Elapse(At(at))) /\ Kept(Elapse(At(at)))
  BY AtKept
<1>3. CASE Startup
  <2>1. PICK plan \in Plans : Accept(Start(At(sched.now), plan)) /\ sched.lifecycle = "Unstarted"
    BY <1>3 DEF Startup
  <2>2. IsState(At(sched.now))
    BY <1>1, AtNow DEF TypeOK
  <2>3. SameRuns(sched, At(sched.now)) /\ SameEra(sched, At(sched.now))
    BY <1>1, <2>2 DEF At, IsState, SameRuns, SameEra, Jobs
  <2>4. Sound(At(sched.now)) /\ At(sched.now).lifecycle = "Unstarted"
    BY <1>1, <2>1, <2>2, <2>3, QuietSound DEF Follows, SameEra
  <2> QED BY <2>1, <2>4, StartSound, StartKept, AcceptKept
<1>4. CASE TimeAdvanced
  BY <1>2, <1>4, AcceptKept DEF TimeAdvanced
<1>5. CASE ConfigChanged
  BY <1>2, <1>5, ReconfigureSound, ReconfigureKept, AcceptKept DEF ConfigChanged
<1>6. CASE InventoryChanged
  <2>1. PICK at \in Times, plan \in Plans, acknowledged \in 0..MaxResumes :
          /\ Active /\ plan.display_interval = sched.display_interval
          /\ Accept(ChangeInventory(At(at), plan, acknowledged))
    BY <1>6 DEF InventoryChanged, Raised
  <2>2. At(at).lifecycle # "Unstarted"
    BY <1>2, <2>1 DEF Active
  <2> QED BY <1>2, <2>1, <2>2, ChangeInventorySound, ChangeInventoryKept, AcceptKept
<1>7. CASE DemandChanged
  BY <1>2, <1>7, PlanType, ChangeDemandSound, ChangeDemandKept, AcceptKept DEF DemandChanged
<1>8. CASE TooltipPresented
  BY <1>2, <1>8, PresentationSound, PresentationKept, AcceptKept DEF TooltipPresented
<1>9. CASE TooltipReactivated
  <2>1. \A at \in Times : Kept(RefreshActivation(At(at)))
    BY <1>2, RefreshActivationGentle, GentleKept DEF Kept
  <2> QED BY <1>2, <1>9, <2>1, RefreshActivationSound, AcceptKept DEF TooltipReactivated
<1>10. CASE SelectedPageChanged
  BY <1>2, <1>10, ChangePageSound, ChangePageKept, AcceptKept DEF SelectedPageChanged
<1>11. CASE DisplayRefreshRequested
  <2>1. \A at \in Times : LET u == PublishFull(At(at), "ConfigChanged", None, 0)
                          IN  Sound(u) /\ Kept(u)
    BY <1>2, PublishGentle, GentleKept DEF PublishReason, OptTime, Gentle
  <2> QED BY <1>11, <2>1, AcceptKept DEF DisplayRefreshRequested
<1>12. CASE TooltipRefreshRequested
  <2>1. \A at \in Times : LET u == PublishTooltip(At(at), "TooltipRefresh")
                          IN  Sound(u) /\ Kept(u)
    BY <1>2, PublishGentle, GentleKept DEF PublishReason, OptTime, Gentle
  <2> QED BY <1>12, <2>1, AcceptKept DEF TooltipRefreshRequested
<1>13. CASE JobFinished
  <2>1. PICK at \in Times, t \in InFlight(sched), completion \in Outcomes, ready \in BOOLEAN :
          \/ /\ CurrentTicket(Elapse(At(at)), t)
             /\ Accept(FinishJob(Elapse(At(at)), t, completion, ready))
          \/ Reject(Elapse(At(at)))
    BY <1>13 DEF JobFinished
  <2> DEFINE e == Elapse(At(at))
  <2>2. t \in Ticket /\ completion \in Completions
    BY <1>1, LiveTickets, PlansAssumption DEF Live
  <2>3. Sound(e) /\ Kept(e)
    BY <1>2
  <2> HIDE DEF e
  <2>4. CurrentTicket(e, t) => /\ Sound(FinishJob(e, t, completion, ready))
                               /\ Kept(FinishJob(e, t, completion, ready))
    BY <2>2, <2>3, FinishJobKeeps DEF Keeps
  <2>5. Kept([e EXCEPT !.accepted = FALSE])
    <3> DEFINE u == [e EXCEPT !.accepted = FALSE]
    <3>1. /\ IsState(u) /\ SameRuns(e, u) /\ SameEra(e, u) /\ u.jobs = e.jobs
          /\ u.next_display = e.next_display /\ SameSettings(e, u)
      BY <2>3 DEF Sound, IsState, SameRuns, SameEra, Jobs, SameSettings
    <3> HIDE DEF u
    <3>2. Sound(u)
      BY <2>3, <3>1, QuietSound DEF Follows
    <3>3. Kept(u)
      BY <2>3, <3>1, <3>2, GentleJobs, CalmSelf, GentleKept DEF Jobs
    <3> QED BY <3>3 DEF u
  <2> QED BY <2>1, <2>4, <2>5, AcceptKept DEF Reject, e
<1>14. CASE JobCancelled
  <2>1. PICK at \in Times, t \in sched.cancelling :
          Accept(FinishCancellation(Elapse(At(at)), t))
    BY <1>14 DEF JobCancelled
  <2>2. t \in Elapse(At(at)).cancelling
    BY <1>1, AtSound, ElapseSound DEF Follows
  <2>3. LET u == FinishCancellation(Elapse(At(at)), t) IN Sound(u) /\ Kept(u)
    BY <1>2, <2>2, FinishCancellationKeeps DEF Keeps
  <2> QED BY <2>1, <2>3, AcceptKept
<1>15. CASE RefreshTriggered
  <2>1. PICK at \in Times, job \in Jobs(sched) :
          LET elapsed == Elapse(At(at))
              wanted  == {job} \cap CurrentDemand(elapsed)
          IN  Accept(IF IsHistory(elapsed.jobs[job]) THEN elapsed ELSE MarkJobs(elapsed, wanted))
    BY <1>15 DEF RefreshTriggered
  <2> DEFINE e == Elapse(At(at))
             wanted == {job} \cap CurrentDemand(e)
  <2>2. Sound(e) /\ Kept(e)
    BY <1>2
  <2> HIDE DEF e
  <2>3. ASSUME ~IsHistory(e.jobs[job])
        PROVE  Sound(MarkJobs(e, wanted)) /\ Kept(MarkJobs(e, wanted))
    <3>1. \A j \in wanted \cap Jobs(e) : ~IsHistory(e.jobs[j])
      BY <2>3
    <3> HIDE DEF wanted
    <3> QED BY <2>2, <3>1, MarkJobsGentle, GentleKept DEF Gentle
  <2> QED BY <2>1, <2>2, <2>3, AcceptKept DEF e
<1>16. CASE PanelPublished
  <2>1. PICK at \in Times, publication \in sched.panel_publications :
          Accept([At(at) EXCEPT !.panel_publications = @ \ {publication},
                                !.notifications_armed = TRUE])
    BY <1>16 DEF PanelPublished
  <2> DEFINE s == At(at)
             ps == s.panel_publications \ {publication}
             u == [s EXCEPT !.panel_publications = ps, !.notifications_armed = TRUE]
  <2>2. Sound(s) /\ Kept(s)
    BY <1>2
  <2> HIDE DEF s
  <2>3. IsState(s) /\ ps \subseteq Nat
    BY <2>2 DEF Sound, IsState
  <2> HIDE DEF ps
  <2>4. /\ IsState(u) /\ SameRuns(s, u) /\ SameEra(s, u) /\ u.jobs = s.jobs
        /\ u.next_display = s.next_display /\ SameSettings(s, u)
    BY <2>3 DEF IsState, SameRuns, SameEra, Jobs, SameSettings
  <2> HIDE DEF u
  <2>5. Sound(u)
    BY <2>2, <2>4, QuietSound DEF Follows
  <2>6. Kept(u)
    BY <2>2, <2>4, <2>5, GentleJobs, CalmSelf, GentleKept DEF Jobs
  <2> QED BY <2>1, <2>5, <2>6, AcceptKept DEF u, s, ps
<1>17. CASE Suspend
  <2>1. PICK at \in Times :
          /\ Active
          /\ \/ Accept([CancelAll(At(at), "Suspend") EXCEPT !.lifecycle = "Suspended"])
             \/ Accept(At(at))
    BY <1>17 DEF Suspend, Raised
  <2>2. LET u == [CancelAll(At(at), "Suspend") EXCEPT !.lifecycle = "Suspended"]
        IN  Sound(u) /\ Kept(u)
    BY <1>2, <2>1, HaltSound, HaltKept DEF Active
  <2> QED BY <1>2, <2>1, <2>2, AcceptKept
<1>18. CASE Resume
  <2>1. PICK at \in Times :
          \/ Accept(ResumeRunning(At(at))) /\ sched.lifecycle = "Suspended"
          \/ Accept(At(at))
    BY <1>18 DEF Resume
  <2>2. sched.lifecycle = "Suspended" =>
          Sound(ResumeRunning(At(at))) /\ Kept(ResumeRunning(At(at)))
    BY <1>2, ResumeRunningSound, ResumeRunningKept
  <2> QED BY <1>2, <2>1, <2>2, AcceptKept
<1>19. CASE Shutdown
  <2>1. PICK at \in Times, reason \in {"Shutdown", "CriticalFailure"} :
          Active /\ Accept(Stop(At(at), reason))
    BY <1>19 DEF Shutdown, Raised
  <2>2. Sound(Stop(At(at), reason)) /\ Kept(Stop(At(at), reason))
    BY <1>2, <2>1, HaltSound, HaltKept DEF Active
  <2> QED BY <2>1, <2>2, AcceptKept
<1>20. CASE UNCHANGED sched
  <2>1. sched' = sched
    BY <1>20
  <2> QED BY <1>1, <2>1
<1> QED
  BY <1>3, <1>4, <1>5, <1>6, <1>7, <1>8, <1>9, <1>10, <1>11, <1>12, <1>13, <1>14, <1>15,
     <1>16, <1>17, <1>18, <1>19, <1>20 DEF Next

(* Before startup there is no job.                                            *)
LEMMA InitKept == Init => JobsInv
<1> SUFFICES ASSUME Init PROVE JobsInv
  OBVIOUS
<1>1. OwnershipInv
  BY InitSound
<1>2. Jobs(sched) = {} /\ sched.next_display = None /\ sched.lifecycle = "Unstarted"
  BY DEF Init, Jobs
<1>3. Kept(sched)
  BY <1>2 DEF Kept, HistoriesKept, Catalogued, InPhase, Wanted
<1> QED BY <1>1, <1>3 DEF JobsInv

(* What is kept for each job, through every event.                            *)
THEOREM JobsAreKept == Spec => []JobsInv
<1>1. Init => JobsInv
  BY InitKept
<1>2. JobsInv /\ [Next]_sched => JobsInv'
  <2>1. ASSUME JobsInv, [Next]_sched PROVE OwnershipInv' /\ Kept(sched')
    BY <2>1, StepKept, StepSound DEF JobsInv
  <2> QED BY <2>1 DEF JobsInv
<1> QED BY <1>1, <1>2, PTL DEF Spec

(* A history records each of its points at most once, in order, and only of a *)
(* source that was read: whatever becomes of the source meanwhile.            *)
THEOREM HistoriesAreKept == Spec => []HistoriesHold
<1>1. JobsInv => HistoriesHold
  <2> SUFFICES ASSUME JobsInv PROVE HistoryPointsAdvance /\ HistoryHasSource
    BY DEF HistoriesHold
  <2>1. HistoriesKept(sched)
    BY DEF JobsInv, Kept
  <2>2. HistoryPointsAdvance
    BY <2>1 DEF HistoriesKept, Punctual, Points, HistoryPointsAdvance
  <2>3. HistoryHasSource
    BY <2>1 DEF HistoriesKept, HistoryHasSource
  <2> QED BY <2>2, <2>3
<1> QED BY <1>1, JobsAreKept, PTL

(* Fast jobs stay due FAST_PREFETCH before a display deadline, through        *)
(* reconfigurations, a late first paint, skipped intervals and sleep.         *)
THEOREM FastJobsKeepPhase == Spec => []FastPhase
<1>1. JobsInv => FastPhase
  BY DEF JobsInv, Kept, InPhase, IsFast, OnGrid, FastPhase
<1> QED BY <1>1, JobsAreKept, PTL

(* No disposable page work runs that nothing demands, in whatever order the   *)
(* page, the tooltip, the plan and the clock move on.                         *)
THEOREM PageWorkStaysDemanded == Spec => []PageWorkIsDemanded
<1>1. JobsInv => PageWorkIsDemanded
  BY DEF JobsInv, Kept, Wanted, PageWorkIsDemanded
<1> QED BY <1>1, JobsAreKept, PTL
=============================================================================
