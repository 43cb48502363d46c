------------------------ MODULE SchedulerOwnerProofs ------------------------
(* The scheduler keeps its types: every operator of Scheduler, given a state, *)
(* returns a state, so every event does.  Then an owner never has two runs,   *)
(* and a run that can commit is never obsolete: the ownership invariant of    *)
(* Scheduler, kept by every handler.  One lemma per operator in each part, in *)
(* the order of the module.                                                   *)
EXTENDS SchedulerProperties, FiniteSetTheorems, TLAPS

-----------------------------------------------------------------------------
(* The types.                                                                 *)

(* Quotients of naturals are naturals.                                        *)
LEMMA Quotient == \A n \in Nat, d \in Nat \ {0} : n \div d \in Nat
  OBVIOUS

(* Products of naturals are naturals.                                         *)
LEMMA Multiple == \A n, d \in Nat : n * d \in Nat
  OBVIOUS

(* The functions of policy.rs return instants and counts.                     *)
LEMMA PolicyTypes ==
  ASSUME NEW t \in Nat, NEW c \in Nat, NEW now \in Nat
  PROVE  /\ SatSub(now, t) \in Nat
         /\ AdvancePast(t, c, now) \in Nat
         /\ LatestDueAtOrBefore(t, c, now) \in Nat
         /\ SkippedIntervals(t, c, now) \in Nat
         /\ DueIntervals(t, c, now) \in Nat
<1>1. SatSub(now, t) \in Nat
  BY DEF SatSub
<1>2. AdvancePast(t, c, now) \in Nat
  <2>1. CASE c = 0
    BY <2>1 DEF AdvancePast
  <2>2. CASE c # 0
    <3>1. SatSub(now, t) \div c \in Nat
      BY <1>1, <2>2, Quotient
    <3>2. (SatSub(now, t) \div c + 1) * c \in Nat
      BY <3>1, Multiple
    <3> QED BY <2>2, <3>2 DEF AdvancePast
  <2> QED BY <2>1, <2>2
<1>3. c # 0 /\ now > t => (now - t) \div c \in Nat
  BY Quotient
<1>4. LatestDueAtOrBefore(t, c, now) \in Nat
  <2>1. CASE c = 0 \/ t >= now
    BY <2>1 DEF LatestDueAtOrBefore
  <2>2. CASE c # 0 /\ t < now
    BY <1>3, <2>2, Multiple DEF LatestDueAtOrBefore
  <2> QED BY <2>1, <2>2
<1>5. SkippedIntervals(t, c, now) \in Nat
  BY <1>3 DEF SkippedIntervals
<1>6. DueIntervals(t, c, now) \in Nat
  BY <1>5 DEF DueIntervals
<1> QED BY <1>1, <1>2, <1>4, <1>5, <1>6

(* A deadline advanced past an instant is a point of the same grid, after it. *)
LEMMA AdvancePastGrid ==
  ASSUME NEW d \in Nat, NEW c \in Nat \ {0}, NEW n \in Nat
  PROVE  LET a == AdvancePast(d, c, n)
         IN  /\ a \in Nat /\ a > n /\ a > d /\ \E k \in Nat : a = d + k * c
             /\ d <= n => /\ LatestDueAtOrBefore(d, c, n) \in Nat
                          /\ d <= LatestDueAtOrBefore(d, c, n)
                          /\ LatestDueAtOrBefore(d, c, n) < a
<1> DEFINE q == SatSub(n, d) \div c
           a == d + (q + 1) * c
<1>1. SatSub(n, d) \in Nat
  BY DEF SatSub
<1>2. q \in Nat /\ q * c <= SatSub(n, d) /\ SatSub(n, d) < q * c + c
  BY <1>1
<1>3. (q + 1) * c = q * c + c /\ q * c \in Nat
  BY <1>2
<1>4. AdvancePast(d, c, n) = a
  BY DEF AdvancePast
<1>5. d <= n => SatSub(n, d) = n - d
  BY DEF SatSub
<1>6. d <= n => LatestDueAtOrBefore(d, c, n) = d + q * c
  <2>1. CASE d = n
    <3>1. 0 \div c = 0
      OBVIOUS
    <3>2. q = 0 /\ q * c = 0
      BY <1>5, <2>1, <3>1
    <3> HIDE DEF q
    <3> QED BY <2>1, <3>2 DEF LatestDueAtOrBefore
  <2>2. CASE d < n
    BY <1>5, <2>2 DEF LatestDueAtOrBefore
  <2> QED BY <2>1, <2>2
<1> HIDE DEF q
<1>7. a \in Nat /\ a > n /\ a > d
  BY <1>2, <1>3 DEF SatSub
<1>8. q + 1 \in Nat /\ a = d + (q + 1) * c
  BY <1>2
<1>9. d <= n => d + q * c \in Nat /\ d <= d + q * c /\ d + q * c < a
  BY <1>3
<1> HIDE DEF a
<1> QED BY <1>4, <1>6, <1>7, <1>8, <1>9

(* So does retry_delay, whatever the number of failures.                      *)
LEMMA RetryDelayType ==
  ASSUME NEW base \in Nat, NEW failures, NEW freshness \in Nat
  PROVE  RetryDelay(base, failures, freshness) \in Nat
  BY DEF RetryDelay

-----------------------------------------------------------------------------
(* Runtimes.                                                                  *)

(* Every known job has a well-typed runtime.                                  *)
LEMMA RuntimeOf ==
  ASSUME NEW s, IsState(s), NEW j \in Jobs(s)
  PROVE  j \in JobId /\ s.jobs[j] \in JobRuntime
  BY DEF IsState, IsJobMap, Jobs

(* JobRuntime::new.                                                           *)
LEMMA NewRuntimeType ==
  ASSUME NEW spec \in JobSpec, NEW anchor \in Nat, NEW display \in Nat
  PROVE  NewRuntime(spec, anchor, display) \in JobRuntime
<1>1. FastDue(display) \in Nat
  BY PolicyTypes, TimesAssumption DEF FastDue, SatSub
<1> QED BY <1>1 DEF NewRuntime, JobRuntime, JobSpec, Timing, OptTime, None

(* mark_pending and mark_history_pending.                                     *)
LEMMA MarkPendingType ==
  ASSUME NEW rt \in JobRuntime, NEW at \in OptTime
  PROVE  /\ MarkPending(rt, at) \in JobRuntime
         /\ MarkHistoryPending(rt, at) \in JobRuntime
  BY DEF MarkPending, MarkHistoryPending, JobRuntime

(* The end of pending work.                                                   *)
LEMMA ClearPendingType ==
  ASSUME NEW rt \in JobRuntime
  PROVE  ClearPending(rt) \in JobRuntime
  BY DEF ClearPending, JobRuntime, OptTime

(* A due retry becomes pending work.                                          *)
LEMMA RetriedRuntimeType ==
  ASSUME NEW rt \in JobRuntime, NEW now \in Nat
  PROVE  RetriedRuntime(rt, now) \in JobRuntime
  BY DEF RetriedRuntime, MarkPending, JobRuntime, OptTime

(* A due deadline becomes pending work and moves on.                          *)
LEMMA DueRuntimeType ==
  ASSUME NEW rt \in JobRuntime, NEW ready \in BOOLEAN, NEW now \in Nat
  PROVE  DueRuntime(rt, ready, now) \in JobRuntime
<1>1. CASE ~Due(rt.nominal_due, now)
  BY <1>1 DEF DueRuntime
<1>2. CASE Due(rt.nominal_due, now)
  <2>1. rt.nominal_due \in Nat /\ rt.spec.freshness \in Nat
    BY <1>2 DEF Due, JobRuntime, JobSpec, OptTime
  <2> DEFINE latest == LatestDueAtOrBefore(rt.nominal_due, rt.spec.freshness, now)
             next   == AdvancePast(rt.nominal_due, rt.spec.freshness, now)
  <2>2. latest \in OptTime /\ next \in OptTime /\ now \in OptTime
    BY <2>1, PolicyTypes DEF OptTime
  <2> HIDE DEF latest, next
  <2>3. /\ MarkPending(rt, now) \in JobRuntime
        /\ MarkHistoryPending(rt, latest) \in JobRuntime
    BY <2>2, MarkPendingType
  <2>4. \A m \in JobRuntime : [m EXCEPT !.nominal_due = next] \in JobRuntime
    BY <2>2 DEF JobRuntime
  <2>5. \A m : m.nominal_due = rt.nominal_due =>
          [m EXCEPT !.nominal_due = AdvancePast(@, rt.spec.freshness, now)]
            = [m EXCEPT !.nominal_due = next]
    BY DEF next
  <2>6. /\ MarkPending(rt, now).nominal_due = rt.nominal_due
        /\ MarkHistoryPending(rt, latest).nominal_due = rt.nominal_due
    BY DEF MarkPending, MarkHistoryPending, JobRuntime
  <2> QED BY <1>2, <2>3, <2>4, <2>5, <2>6 DEF DueRuntime, latest
<1> QED BY <1>1, <1>2

(* finish_job, as far as the runtime of the job goes.                         *)
LEMMA CompletedRuntimeType ==
  ASSUME NEW rt \in JobRuntime, NEW completion \in Completions, NEW now \in Nat
  PROVE  CompletedRuntime(rt, completion, now) \in JobRuntime
<1> DEFINE failures == rt.failure_count + 1
           delay    == RetryDelay(RETRY_BASE, failures, rt.spec.freshness)
<1>1. failures \in Nat /\ delay \in Nat
  BY RetryDelayType, TimesAssumption DEF JobRuntime, JobSpec
<1>2. now + delay \in OptTime /\ now + RETRY_BASE \in OptTime /\ None \in OptTime
  BY <1>1, TimesAssumption DEF OptTime
<1> HIDE DEF failures, delay
<1>3. ASSUME NEW r \in OptTime, NEW b \in BOOLEAN, NEW n \in Nat
      PROVE  /\ [rt EXCEPT !.in_flight = {}, !.has_sample = b, !.failure_count = n,
                           !.retry_due = r] \in JobRuntime
             /\ [rt EXCEPT !.in_flight = {}, !.failure_count = n, !.retry_due = r]
                  \in JobRuntime
  BY DEF JobRuntime
<1>4. rt.retry_due \in OptTime
  BY DEF JobRuntime
<1>5. CASE completion = "Captured"
  BY <1>2, <1>3, <1>5 DEF CompletedRuntime
<1>6. CASE completion = "Baseline"
  BY <1>2, <1>3, <1>6 DEF CompletedRuntime
<1>7. CASE completion = "ConfirmedAbsent"
  BY <1>2, <1>3, <1>7 DEF CompletedRuntime
<1>8. CASE completion = "Failed"
  BY <1>1, <1>2, <1>3, <1>4, <1>8 DEF CompletedRuntime, failures, delay
<1> QED
  BY <1>5, <1>6, <1>7, <1>8 DEF Completions

(* resume, as far as each runtime goes.                                       *)
LEMMA ResumedRuntimeType ==
  ASSUME NEW s, IsState(s), NEW j \in Jobs(s), NEW demanded
  PROVE  ResumedRuntime(s, j, demanded) \in JobRuntime
<1> DEFINE rt == s.jobs[j]
           nominal == IF rt.spec.timing \in {"Periodic", "History"} /\ Due(rt.nominal_due, s.now)
                      THEN AdvancePast(rt.nominal_due, rt.spec.freshness, s.now)
                      ELSE rt.nominal_due
           since == IF j \in demanded /\ ~IsHistory(rt) THEN s.now ELSE None
<1>1. rt \in JobRuntime /\ s.now \in Nat
  BY RuntimeOf DEF IsState
<1>2. nominal \in OptTime
  BY <1>1, PolicyTypes DEF Due, JobRuntime, JobSpec, OptTime
<1>3. since \in OptTime /\ None \in OptTime
  BY <1>1 DEF OptTime
<1>4. ResumedRuntime(s, j, demanded) =
        [rt EXCEPT !.nominal_due = nominal, !.pending_since = since,
                   !.pending_history = None, !.retry_due = None]
  BY DEF ResumedRuntime
<1> HIDE DEF nominal, since, rt
<1> QED BY <1>1, <1>2, <1>3, <1>4 DEF JobRuntime

-----------------------------------------------------------------------------
(* Operators of the machine return states.                                    *)

(* A state may take any well-typed map of jobs.                               *)
LEMMA WithJobs ==
  ASSUME NEW s, IsState(s), NEW f, IsJobMap(f, JobRuntime)
  PROVE  IsState([s EXCEPT !.jobs = f])
  BY DEF IsState

(* Issuing or widening a publication.                                         *)
LEMMA IssuePublishType ==
  ASSUME NEW s, IsState(s), NEW reason \in PublishReason, NEW deadline \in OptTime,
         NEW skipped \in Nat, NEW panel \in BOOLEAN, NEW wanted \in BOOLEAN
  PROVE  IsState(IssuePublish(s, reason, deadline, skipped, panel, wanted))
<1> DEFINE tooltip == wanted /\ s.presented
           refresh == {a \in IssuedTooltips(s) : a.reason = "TooltipRefresh"}
           widened == CHOOSE a \in refresh : TRUE
           Out(id) == PublishAction(id, reason, deadline, skipped, panel, tooltip)
<1>1. tooltip \in BOOLEAN
  BY DEF IsState
<1>2. \A id \in Nat : Out(id) \in Action
  BY <1>1 DEF PublishAction, Action
<1>3. \A a \in refresh : a.publication \in Nat
  BY DEF IssuedTooltips, Publications, IsState, Action
<1>4. refresh # {} => widened.publication \in Nat
  BY <1>3
<1>5. refresh # {} =>
        IsState([s EXCEPT !.actions = (@ \ {widened}) \cup {Out(widened.publication)},
                          !.panel_publications = @ \cup {widened.publication}])
  <2> DEFINE p == widened.publication
             as == (s.actions \ {widened}) \cup {Out(p)}
  <2>1. SUFFICES ASSUME refresh # {}
                 PROVE  IsState([s EXCEPT !.actions = as, !.panel_publications = @ \cup {p}])
    OBVIOUS
  <2>2. p \in Nat
    BY <1>4, <2>1
  <2>3. as \subseteq Action
    BY <1>2, <2>2 DEF IsState
  <2> HIDE DEF p, as
  <2> QED BY <2>2, <2>3 DEF IsState
<1>6. IsState([s EXCEPT !.actions = @ \cup {Out(s.next_publication_id)},
                  !.panel_publications = IF panel THEN @ \cup {s.next_publication_id} ELSE @,
                  !.next_publication_id = @ + 1])
  <2> DEFINE n == s.next_publication_id
             as == s.actions \cup {Out(n)}
             ps == IF panel THEN s.panel_publications \cup {n} ELSE s.panel_publications
             next == n + 1
  <2>1. n \in Nat /\ next \in Nat
    BY DEF IsState
  <2>2. as \subseteq Action
    BY <1>2, <2>1 DEF IsState
  <2>3. ps \subseteq Nat
    BY <2>1 DEF IsState
  <2> HIDE DEF as, ps, next
  <2>4. IsState([s EXCEPT !.actions = as, !.panel_publications = ps,
                          !.next_publication_id = next])
    BY <2>1, <2>2, <2>3 DEF IsState
  <2> QED BY <2>4 DEF as, ps, next
<1> HIDE DEF widened, Out, refresh, tooltip
<1> QED BY <1>5, <1>6 DEF IssuePublish, widened, Out, refresh, tooltip

(* Both ways to publish.                                                      *)
LEMMA PublishTypes ==
  ASSUME NEW s, IsState(s), NEW reason \in PublishReason, NEW deadline \in OptTime,
         NEW skipped \in Nat
  PROVE  /\ IsState(PublishTooltip(s, reason))
         /\ IsState(PublishFull(s, reason, deadline, skipped))
<1>1. None \in OptTime /\ s.effective_presented \in BOOLEAN
  BY DEF OptTime, IsState
<1>2. IsState(IssuePublish(s, reason, None, 0, FALSE, TRUE))
  BY <1>1, IssuePublishType
<1>3. IsState(IssuePublish(s, reason, deadline, skipped, TRUE, s.effective_presented))
  BY <1>1, IssuePublishType
<1> QED BY <1>2, <1>3 DEF PublishTooltip, PublishFull

(* Anchoring fast jobs to the display.                                        *)
LEMMA ReanchorFastType ==
  ASSUME NEW s, IsState(s)
  PROVE  IsState(ReanchorFast(s))
<1> DEFINE f == [j \in DOMAIN s.jobs |->
          IF s.jobs[j].spec.timing = "FastDisplay"
          THEN [s.jobs[j] EXCEPT !.nominal_due = FastDue(s.next_display)] ELSE s.jobs[j]]
<1>1. CASE s.next_display = None
  BY <1>1 DEF ReanchorFast
<1>2. CASE s.next_display # None
  <2>1. FastDue(s.next_display) \in Nat
    BY <1>2, PolicyTypes, TimesAssumption DEF FastDue, IsState, OptTime, SatSub
  <2>2. \A rt \in JobRuntime :
          [rt EXCEPT !.nominal_due = FastDue(s.next_display)] \in JobRuntime
    BY <2>1 DEF JobRuntime, OptTime
  <2>3. IsJobMap(f, JobRuntime)
    BY <2>2 DEF IsState, IsJobMap
  <2>4. ReanchorFast(s) = [s EXCEPT !.jobs = f]
    BY <1>2 DEF ReanchorFast
  <2> QED BY <2>3, <2>4, WithJobs
<1> QED BY <1>1, <1>2

(* The first paint.                                                           *)
LEMMA IssueFirstPaintType ==
  ASSUME NEW s, IsState(s), NEW reason \in PublishReason
  PROVE  IsState(IssueFirstPaint(s, reason))
<1> DEFINE skipped == IF s.next_display = None THEN 0
                      ELSE DueIntervals(s.next_display, s.display_interval, s.now)
           painted == [s EXCEPT !.first_paint_issued = TRUE, !.first_paint_deadline = None,
                                !.first_paint_waiting = {}]
           shifted == [painted EXCEPT !.next_display = AdvancePast(@, s.display_interval, s.now)]
           moved   == IF Due(s.next_display, s.now) THEN ReanchorFast(shifted) ELSE painted
<1>1. s.now \in Nat /\ s.display_interval \in Nat /\ s.next_display \in OptTime
  BY DEF IsState
<1>2. skipped \in Nat
  BY <1>1, PolicyTypes DEF OptTime
<1>3. IsState(painted)
  BY DEF IsState, OptTime
<1>4. Due(s.next_display, s.now) => IsState(shifted)
  <2> DEFINE next == AdvancePast(s.next_display, s.display_interval, s.now)
  <2>1. SUFFICES ASSUME Due(s.next_display, s.now)
                 PROVE  IsState([painted EXCEPT !.next_display = next])
    BY DEF IsState
  <2>2. next \in OptTime
    BY <1>1, <2>1, PolicyTypes DEF Due, OptTime
  <2> HIDE DEF next, painted
  <2> QED BY <1>3, <2>2 DEF IsState
<1>5. IsState(moved)
  BY <1>3, <1>4, ReanchorFastType
<1>6. IsState(PublishFull(moved, reason, None, skipped))
  BY <1>2, <1>5, PublishTypes DEF OptTime
<1> QED BY <1>6 DEF IssueFirstPaint

(* Cancelling runs keeps the jobs.                                            *)
LEMMA CancelRunsType ==
  ASSUME NEW s, IsState(s), NEW J \in SUBSET Jobs(s), NEW reason \in CancelReason
  PROVE  /\ IsState(CancelRuns(s, J, reason))
         /\ Jobs(CancelRuns(s, J, reason)) = Jobs(s)
<1> DEFINE taken == UNION {s.jobs[j].in_flight : j \in J}
           f == [j \in DOMAIN s.jobs |->
                   IF j \in J THEN [s.jobs[j] EXCEPT !.in_flight = {}] ELSE s.jobs[j]]
           cs == s.cancelling \cup taken
           as == s.actions \cup
                   {[kind |-> "CancelJob", ticket |-> t, reason |-> reason] : t \in taken}
<1>1. taken \subseteq Ticket
  BY RuntimeOf DEF JobRuntime
<1>2. cs \subseteq Ticket
  BY <1>1 DEF IsState
<1>3. as \subseteq Action
  <2>1. \A t \in Ticket : [kind |-> "CancelJob", ticket |-> t, reason |-> reason] \in Action
    BY DEF Action
  <2> QED BY <1>1, <2>1 DEF IsState
<1>4. IsJobMap(f, JobRuntime) /\ DOMAIN f = DOMAIN s.jobs
  BY DEF IsState, IsJobMap, JobRuntime
<1>5. CancelRuns(s, J, reason) = [s EXCEPT !.jobs = f, !.cancelling = cs, !.actions = as]
  BY DEF CancelRuns
<1> HIDE DEF f, cs, as
<1>6. IsState([s EXCEPT !.jobs = f, !.cancelling = cs, !.actions = as])
  BY <1>2, <1>3, <1>4 DEF IsState
<1>7. [s EXCEPT !.jobs = f, !.cancelling = cs, !.actions = as].jobs = f
  BY DEF IsState
<1> QED BY <1>4, <1>5, <1>6, <1>7 DEF Jobs

(* So does cancelling all of them.                                            *)
LEMMA CancelAllType ==
  ASSUME NEW s, IsState(s), NEW reason \in CancelReason
  PROVE  IsState(CancelAll(s, reason)) /\ Jobs(CancelAll(s, reason)) = Jobs(s)
  BY CancelRunsType DEF CancelAll

(* Marking jobs pending.                                                      *)
LEMMA MarkJobsType ==
  ASSUME NEW s, IsState(s), NEW J
  PROVE  IsState(MarkJobs(s, J))
<1> DEFINE f == [j \in DOMAIN s.jobs |->
                   IF j \in J THEN MarkPending(s.jobs[j], s.now) ELSE s.jobs[j]]
<1>1. s.now \in OptTime
  BY DEF IsState, OptTime
<1>2. IsJobMap(f, JobRuntime)
  BY <1>1, MarkPendingType DEF IsState, IsJobMap
<1> QED BY <1>2, WithJobs DEF MarkJobs

(* A replaced job keeps its runtime or gets a new one.                        *)
LEMMA ReplacedRuntimeType ==
  ASSUME NEW s, IsState(s), NEW old \in JobRuntime, NEW spec \in JobSpec, NEW display \in Nat
  PROVE  ReplacedRuntime(s, old, spec, display) \in JobRuntime
<1> DEFINE new  == NewRuntime(spec, s.now, display)
           kept == old.has_sample /\ ~SourceChanged(old, spec)
<1>1. new \in JobRuntime
  BY NewRuntimeType DEF IsState
<1>2. kept \in BOOLEAN
  BY DEF JobRuntime, SourceChanged
<1> HIDE DEF new, kept
<1>3. [new EXCEPT !.has_sample = kept] \in JobRuntime
  BY <1>1, <1>2 DEF JobRuntime
<1> QED BY <1>3 DEF ReplacedRuntime, new, kept

(* replace_jobs.                                                              *)
LEMMA ReplaceJobsType ==
  ASSUME NEW s, IsState(s), NEW specs, IsJobMap(specs, JobSpec), NEW reason \in CancelReason
  PROVE  IsState(ReplaceJobs(s, specs, reason))
<1> DEFINE c == CancelAll(s, reason)
           display == IF c.next_display = None THEN c.now + c.display_interval
                      ELSE c.next_display
           f == [j \in DOMAIN specs |->
                   IF j \in Jobs(c) THEN ReplacedRuntime(c, c.jobs[j], specs[j], display)
                   ELSE NewRuntime(specs[j], c.now, display)]
           as == c.actions \cup Invalidated(c, specs)
           waiting == c.activation_waiting \cap DOMAIN specs
           replaced == [c EXCEPT !.jobs = f, !.actions = as, !.activation_waiting = waiting,
                                 !.first_paint_waiting = {}]
           blockers == FirstPaintBlockers(replaced)
<1>1. IsState(c)
  BY CancelAllType
<1>2. c.now \in Nat /\ display \in Nat
  BY <1>1 DEF IsState, OptTime
<1>3. \A j \in Jobs(c) : c.jobs[j] \in JobRuntime
  BY <1>1, RuntimeOf
<1>4. as \subseteq Action
  <2>1. \A j \in JobId, b \in BOOLEAN : Invalidate(j, b) \in Action
    BY DEF Invalidate, Action
  <2>2. Invalidated(c, specs) \subseteq Action
    BY <1>1, <2>1, RuntimeOf DEF Invalidated
  <2> QED BY <1>1, <2>2 DEF IsState
<1>5. waiting \subseteq JobId
  BY <1>1 DEF IsState
<1> HIDE DEF c, display, as, waiting
<1>6. IsJobMap(f, JobRuntime)
  BY <1>1, <1>2, <1>3, ReplacedRuntimeType, NewRuntimeType DEF IsJobMap
<1> HIDE DEF f
<1>7. IsState(replaced) /\ Jobs(replaced) = DOMAIN f
  BY <1>1, <1>4, <1>5, <1>6 DEF IsState, Jobs
<1> HIDE DEF replaced
<1>8. blockers \subseteq JobId
  BY <1>6, <1>7 DEF FirstPaintBlockers, IsJobMap
<1>9. IsState(MarkJobs(replaced, blockers))
  BY <1>7, MarkJobsType
<1> HIDE DEF blockers
<1>10. IsState([MarkJobs(replaced, blockers) EXCEPT !.first_paint_waiting = blockers])
  BY <1>8, <1>9 DEF IsState
<1> QED BY <1>7, <1>10 DEF ReplaceJobs, replaced, blockers, c, display, as, waiting, f

(* activate_jobs.                                                             *)
LEMMA ActivateJobsType ==
  ASSUME NEW s, IsState(s), NEW before, NEW after, NEW track \in BOOLEAN
  PROVE  IsState(ActivateJobs(s, before, after, track))
<1> DEFINE fresh    == {j \in (after \ before) \cap Jobs(s) : ~IsHistory(s.jobs[j])}
           waiting  == (s.activation_waiting \cap after) \cup IF track THEN fresh ELSE {}
           deadline == IF waiting = {} THEN None
                       ELSE IF track /\ s.activation_deadline = None
                            THEN s.now + ACTIVATION_REFRESH_TIMEOUT
                            ELSE s.activation_deadline
<1>1. waiting \subseteq JobId
  BY RuntimeOf DEF IsState
<1>2. deadline \in OptTime
  BY TimesAssumption DEF IsState, OptTime
<1>3. IsState(MarkJobs(s, fresh))
  BY MarkJobsType
<1> HIDE DEF fresh, waiting, deadline
<1>4. IsState([MarkJobs(s, fresh) EXCEPT !.activation_waiting = waiting,
                                         !.activation_deadline = deadline])
  BY <1>1, <1>2, <1>3 DEF IsState
<1> QED BY <1>4 DEF ActivateJobs, fresh, waiting, deadline

(* cancel_demand_ended.                                                       *)
LEMMA CancelDemandEndedType ==
  ASSUME NEW s, IsState(s), NEW before, NEW after
  PROVE  IsState(CancelDemandEnded(s, before, after))
<1> DEFINE ended == (before \ after) \cap PageWork \cap Jobs(s)
           c == CancelRuns(s, ended, "DemandEnded")
           f == [j \in DOMAIN c.jobs |-> IF j \in ended THEN ClearPending(c.jobs[j])
                                         ELSE c.jobs[j]]
<1>1. IsState(c)
  BY CancelRunsType DEF CancelReason
<1> HIDE DEF c, ended
<1>2. IsJobMap(f, JobRuntime)
  BY <1>1, ClearPendingType DEF IsState, IsJobMap
<1>3. IsState([c EXCEPT !.jobs = f])
  BY <1>1, <1>2, WithJobs
<1> QED BY <1>3 DEF CancelDemandEnded, c, ended

(* refresh_demand.                                                            *)
LEMMA RefreshDemandType ==
  ASSUME NEW s, IsState(s), NEW cancelPageJobs \in BOOLEAN
  PROVE  IsState(RefreshDemand(s, cancelPageJobs))
<1> DEFINE demanded == CurrentDemand(s)
           ended == IF cancelPageJobs THEN (Jobs(s) \cap PageWork) \ demanded ELSE {}
           c == CancelRuns(s, ended, "DemandEnded")
           Lacking(rt) == ~IsHistory(rt) /\ rt.in_flight = {} /\ ~rt.has_sample
           f == [j \in DOMAIN c.jobs |->
                   IF j \notin demanded THEN ClearPending(c.jobs[j])
                   ELSE IF Lacking(c.jobs[j]) THEN MarkPending(c.jobs[j], s.now)
                   ELSE c.jobs[j]]
<1>1. IsState(c)
  BY CancelRunsType DEF CancelReason
<1>2. s.now \in OptTime
  BY DEF IsState, OptTime
<1> HIDE DEF c, ended, demanded, Lacking
<1>3. IsJobMap(f, JobRuntime)
  BY <1>1, <1>2, ClearPendingType, MarkPendingType DEF IsState, IsJobMap
<1>4. IsState([c EXCEPT !.jobs = f])
  BY <1>1, <1>3, WithJobs
<1> QED BY <1>4 DEF RefreshDemand, c, ended, demanded, Lacking

(* refresh_all_demanded.                                                      *)
LEMMA RefreshAllDemandedType ==
  ASSUME NEW s, IsState(s)
  PROVE  IsState(RefreshAllDemanded(s))
<1> DEFINE f == [j \in DOMAIN s.jobs |->
     IF j \in CurrentDemand(s) /\ ~IsHistory(s.jobs[j])
     THEN [MarkPending(s.jobs[j], s.now) EXCEPT !.retry_due = None] ELSE s.jobs[j]]
<1>1. s.now \in OptTime
  BY DEF IsState, OptTime
<1>2. \A rt \in JobRuntime : [rt EXCEPT !.retry_due = None] \in JobRuntime
  BY DEF JobRuntime, OptTime
<1>3. IsJobMap(f, JobRuntime)
  BY <1>1, <1>2, MarkPendingType DEF IsState, IsJobMap
<1> QED BY <1>3, WithJobs DEF RefreshAllDemanded

(* rebuild_first_paint_blockers.                                              *)
LEMMA RebuildFirstPaintBlockersType ==
  ASSUME NEW s, IsState(s)
  PROVE  IsState(RebuildFirstPaintBlockers(s))
<1> DEFINE blockers == FirstPaintBlockers(s)
           rebuilt == [s EXCEPT !.first_paint_waiting = blockers]
<1>1. blockers \subseteq JobId
  BY RuntimeOf DEF FirstPaintBlockers
<1> HIDE DEF blockers
<1>2. IsState(rebuilt)
  BY <1>1 DEF IsState
<1>3. IsState(IssueFirstPaint(rebuilt, "FirstPaintReady"))
  BY <1>2, IssueFirstPaintType DEF PublishReason
<1> QED BY <1>2, <1>3 DEF RebuildFirstPaintBlockers, blockers

(* The four deadlines process_time looks at before the jobs.                  *)
LEMMA ExpireTypes ==
  ASSUME NEW s, IsState(s)
  PROVE  /\ IsState(ExpireDeactivation(s))
         /\ IsState(ExpireFirstPaint(s))
         /\ IsState(ExpireActivation(s))
         /\ IsState(ExpireDisplay(s))
<1>1. IsState(ExpireDeactivation(s))
  <2> DEFINE cleared == [s EXCEPT !.deactivation_deadline = None]
  <2>1. IsState(cleared)
    BY DEF IsState, OptTime
  <2>2. IsState([cleared EXCEPT !.effective_presented = FALSE])
    BY <2>1 DEF IsState
  <2> HIDE DEF cleared
  <2>3. IsState(RefreshDemand([cleared EXCEPT !.effective_presented = FALSE], TRUE))
    BY <2>2, RefreshDemandType
  <2> QED BY <2>1, <2>3 DEF ExpireDeactivation, cleared
<1>2. IsState(ExpireFirstPaint(s))
  BY IssueFirstPaintType DEF ExpireFirstPaint, PublishReason
<1>3. IsState(ExpireActivation(s))
  <2> DEFINE ended == [s EXCEPT !.activation_deadline = None, !.activation_waiting = {}]
  <2>1. IsState(ended)
    BY DEF IsState, OptTime
  <2> HIDE DEF ended
  <2>2. IsState(PublishTooltip(ended, "TooltipRefresh"))
    BY <2>1, PublishTypes DEF PublishReason, OptTime
  <2> QED BY <2>2 DEF ExpireActivation, ended
<1>4. IsState(ExpireDisplay(s))
  <2>1. CASE Due(s.next_display, s.now)
    <3> DEFINE skipped == SkippedIntervals(s.next_display, s.display_interval, s.now)
               p == PublishFull(s, "DisplayDeadline", s.next_display, skipped)
               next == AdvancePast(p.next_display, s.display_interval, s.now)
    <3>1. /\ s.next_display \in Nat /\ s.display_interval \in Nat /\ s.now \in Nat
          /\ s.next_display \in OptTime
      BY <2>1 DEF Due, IsState, OptTime
    <3>2. skipped \in Nat
      BY <3>1, PolicyTypes
    <3>3. IsState(p)
      BY <3>1, <3>2, PublishTypes DEF PublishReason
    <3>4. p.next_display = s.next_display
      BY DEF PublishFull, IssuePublish, IsState
    <3>5. next \in OptTime
      BY <3>1, <3>4, PolicyTypes DEF OptTime
    <3> HIDE DEF p, next
    <3>6. IsState([p EXCEPT !.next_display = next])
      BY <3>3, <3>5 DEF IsState
    <3> QED BY <3>6 DEF ExpireDisplay, p, next
  <2>2. CASE ~Due(s.next_display, s.now)
    BY <2>2 DEF ExpireDisplay
  <2> QED BY <2>1, <2>2
<1> QED BY <1>1, <1>2, <1>3, <1>4

(* The due jobs of process_time.                                              *)
LEMMA MarkDueJobsType ==
  ASSUME NEW s, IsState(s)
  PROVE  IsState(MarkDueJobs(s))
<1> DEFINE f == [j \in DOMAIN s.jobs |->
     IF j \in CurrentDemand(s)
     THEN DueRuntime(RetriedRuntime(s.jobs[j], s.now), SourceReady(s, s.jobs[j]), s.now)
     ELSE s.jobs[j]]
<1>1. \A j \in DOMAIN s.jobs : s.jobs[j] \in JobRuntime /\ j \in JobId
  BY RuntimeOf DEF Jobs
<1>2. ASSUME NEW j \in DOMAIN s.jobs
      PROVE  DueRuntime(RetriedRuntime(s.jobs[j], s.now), SourceReady(s, s.jobs[j]), s.now)
               \in JobRuntime
  <2>1. SourceReady(s, s.jobs[j]) \in BOOLEAN
    BY <1>1 DEF SourceReady, JobRuntime, Jobs
  <2>2. s.now \in Nat
    BY DEF IsState
  <2>3. RetriedRuntime(s.jobs[j], s.now) \in JobRuntime
    BY <1>1, <2>2, RetriedRuntimeType
  <2> QED BY <2>1, <2>2, <2>3, DueRuntimeType
<1>3. IsJobMap(f, JobRuntime)
  BY <1>1, <1>2 DEF IsJobMap
<1> QED BY <1>3, WithJobs DEF MarkDueJobs

(* process_time.                                                              *)
LEMMA ElapseType ==
  ASSUME NEW s, IsState(s)
  PROVE  IsState(Elapse(s))
  BY ExpireTypes, MarkDueJobsType DEF Elapse, ProcessTime

-----------------------------------------------------------------------------
(* Dispatch.                                                                  *)

(* Run numbers are natural.                                                   *)
LEMMA RunOfType ==
  ASSUME NEW s, IsState(s)
  PROVE  /\ IsFiniteSet(Chosen(s)) /\ Cardinality(Chosen(s)) \in Nat
         /\ \A j : RunOf(s, j) \in Nat
<1>1. Chosen(s) \subseteq JobId
  BY RuntimeOf DEF Chosen, Candidates
<1>2. IsFiniteSet(Chosen(s)) /\ Cardinality(Chosen(s)) \in Nat
  BY <1>1, JobsAssumption, FS_Subset, FS_CardinalityType
<1>3. ASSUME NEW j
      PROVE  Cardinality({k \in Chosen(s) : Before(s, k, j)}) \in Nat
  BY <1>2, FS_Subset, FS_CardinalityType
<1> QED BY <1>2, <1>3 DEF RunOf, IsState

(* The tickets of dispatch.                                                   *)
LEMMA NewTicketType ==
  ASSUME NEW s, IsState(s), NEW j \in Jobs(s)
  PROVE  NewTicket(s, j) \in Ticket
<1>1. j \in JobId /\ s.jobs[j].pending_history \in OptTime
  BY RuntimeOf DEF JobRuntime
<1>2. (s.presented /\ s.jobs[j].spec.amd \in WideAmd) \in BOOLEAN
  BY DEF IsState
<1>3. RunOf(s, j) \in Nat
  BY RunOfType
<1> QED BY <1>1, <1>2, <1>3 DEF NewTicket, Ticket, IsState

(* dispatch.                                                                  *)
LEMMA DispatchType ==
  ASSUME NEW s, IsState(s)
  PROVE  IsState(Dispatch(s))
<1> DEFINE chosen == Chosen(s)
           Runs(o) == {RunOf(s, j) : j \in {k \in chosen : OwnerOf[k] = o}}
           f == [j \in DOMAIN s.jobs |->
                  IF j \in chosen
                  THEN [s.jobs[j] EXCEPT !.pending_since = None, !.pending_history = None,
                                         !.in_flight = {NewTicket(s, j)}]
                  ELSE s.jobs[j]]
           os == [o \in OwnerId |-> IF Runs(o) = {} THEN s.in_flight_owners[o]
                                    ELSE CHOOSE r \in Runs(o) : TRUE]
           next == s.next_run_id + Cardinality(chosen)
           as == s.actions \cup
                   {[kind |-> "StartJob", ticket |-> NewTicket(s, j)] : j \in chosen}
<1>1. chosen \subseteq Jobs(s)
  BY DEF Chosen, Candidates
<1>2. \A j \in chosen : NewTicket(s, j) \in Ticket
  BY <1>1, NewTicketType
<1>3. IsJobMap(f, JobRuntime)
  <2>1. ASSUME NEW rt \in JobRuntime, NEW t \in Ticket
        PROVE  [rt EXCEPT !.pending_since = None, !.pending_history = None,
                          !.in_flight = {t}] \in JobRuntime
    BY DEF JobRuntime, OptTime
  <2> QED BY <1>2, <2>1 DEF IsState, IsJobMap
<1>4. os \in [OwnerId -> Nat]
  <2>1. \A o : Runs(o) \subseteq Nat
    BY RunOfType
  <2> QED BY <2>1 DEF IsState
<1>5. next \in Nat
  BY RunOfType DEF IsState
<1>6. as \subseteq Action
  <2>1. \A t \in Ticket : [kind |-> "StartJob", ticket |-> t] \in Action
    BY DEF Action
  <2> QED BY <1>2, <2>1 DEF IsState
<1>7. \/ Dispatch(s) = s
      \/ Dispatch(s) = [s EXCEPT !.jobs = f, !.in_flight_owners = os, !.next_run_id = next,
                                 !.actions = as]
  BY DEF Dispatch
<1> HIDE DEF f, os, next, as
<1>8. IsState([s EXCEPT !.jobs = f, !.in_flight_owners = os, !.next_run_id = next,
                        !.actions = as])
  BY <1>3, <1>4, <1>5, <1>6 DEF IsState
<1> QED BY <1>7, <1>8

-----------------------------------------------------------------------------
(* Handlers return states.                                                    *)

(* What a completion publishes.                                               *)
LEMMA CompleteTypes ==
  ASSUME NEW s, IsState(s)
  PROVE  IsState(CompleteFirstPaint(s)) /\ IsState(CompleteActivation(s))
<1>1. IsState(CompleteFirstPaint(s))
  BY IssueFirstPaintType DEF CompleteFirstPaint, PublishReason
<1>2. IsState([s EXCEPT !.activation_deadline = None])
  BY DEF IsState, OptTime
<1>3. IsState(PublishTooltip([s EXCEPT !.activation_deadline = None], "TooltipRefresh"))
  BY <1>2, PublishTypes DEF PublishReason, OptTime
<1> QED BY <1>1, <1>3 DEF CompleteActivation

(* The histories of a source that is gone.                                    *)
LEMMA InvalidateHistoriesType ==
  ASSUME NEW s, IsState(s), NEW source
  PROVE  IsState(InvalidateHistories(s, source))
<1> DEFINE dependent == {j \in Jobs(s) : s.jobs[j].spec.history_source = source}
           f == [j \in DOMAIN s.jobs |->
                  IF j \in dependent
                  THEN [s.jobs[j] EXCEPT !.has_sample = FALSE, !.pending_since = None,
                                         !.pending_history = None]
                  ELSE s.jobs[j]]
           as == s.actions \cup {Invalidate(j, TRUE) : j \in dependent}
<1>1. \A rt \in JobRuntime :
        [rt EXCEPT !.has_sample = FALSE, !.pending_since = None, !.pending_history = None]
          \in JobRuntime
  BY DEF JobRuntime, OptTime
<1>2. IsJobMap(f, JobRuntime)
  BY <1>1 DEF IsState, IsJobMap
<1>3. as \subseteq Action
  <2>1. \A j \in JobId : Invalidate(j, TRUE) \in Action
    BY DEF Invalidate, Action
  <2> QED BY <2>1, RuntimeOf DEF IsState
<1>4. InvalidateHistories(s, source) = [s EXCEPT !.jobs = f, !.actions = as]
  BY DEF InvalidateHistories
<1> HIDE DEF f, as
<1> QED BY <1>2, <1>3, <1>4 DEF IsState

(* finish_job.                                                                *)
LEMMA FinishJobType ==
  ASSUME NEW s, IsState(s), NEW t \in Ticket, NEW completion \in Completions, NEW ready
  PROVE  IsState(FinishJob(s, t, completion, ready))
<1> DEFINE job == t.job
           notifies == ready /\ s.notifications_armed /\ ~IsHistory(s.jobs[job])
           f == [j \in DOMAIN s.jobs |->
                  IF j = job THEN CompletedRuntime(s.jobs[j], completion, s.now)
                  ELSE s.jobs[j]]
           os == [s.in_flight_owners EXCEPT ![OwnerOf[job]] = 0]
           fp == s.first_paint_waiting \ {job}
           aw == s.activation_waiting \ {job}
           as == s.actions \cup
                   IF notifies THEN {[kind |-> "EvaluateNotifications", ticket |-> t]} ELSE {}
           released == [s EXCEPT !.jobs = f, !.in_flight_owners = os,
                                 !.first_paint_waiting = fp, !.activation_waiting = aw,
                                 !.actions = as]
           settled == IF completion = "ConfirmedAbsent"
                      THEN InvalidateHistories(released, job) ELSE released
<1>1. IsJobMap(f, JobRuntime)
  BY CompletedRuntimeType DEF IsState, IsJobMap
<1>2. os \in [OwnerId -> Nat]
  BY DEF IsState
<1>3. fp \subseteq JobId /\ aw \subseteq JobId
  BY DEF IsState
<1>4. as \subseteq Action
  <2>1. [kind |-> "EvaluateNotifications", ticket |-> t] \in Action
    BY DEF Action
  <2> QED BY <2>1 DEF IsState
<1> HIDE DEF f, os, fp, aw, as
<1>5. IsState(released)
  BY <1>1, <1>2, <1>3, <1>4 DEF IsState
<1>6. IsState(settled)
  BY <1>5, InvalidateHistoriesType
<1> HIDE DEF settled, released
<1>7. IsState(CompleteActivation(CompleteFirstPaint(settled)))
  BY <1>6, CompleteTypes
<1> QED BY <1>7 DEF FinishJob, settled, released, f, os, fp, aw, as

(* finish_cancellation.                                                       *)
LEMMA FinishCancellationType ==
  ASSUME NEW s, IsState(s), NEW t
  PROVE  IsState(FinishCancellation(s, t))
<1> DEFINE o == OwnerOf[t.job]
           cs == s.cancelling \ {t}
           os == IF s.in_flight_owners[o] = t.run THEN [s.in_flight_owners EXCEPT ![o] = 0]
                 ELSE s.in_flight_owners
<1>1. cs \subseteq Ticket /\ os \in [OwnerId -> Nat]
  BY DEF IsState
<1>2. FinishCancellation(s, t) = [s EXCEPT !.cancelling = cs, !.in_flight_owners = os]
  BY DEF FinishCancellation
<1> HIDE DEF o, cs, os
<1>3. IsState([s EXCEPT !.cancelling = cs, !.in_flight_owners = os])
  BY <1>1 DEF IsState
<1> QED BY <1>2, <1>3

(* resume.                                                                    *)
LEMMA ResumeRunningType ==
  ASSUME NEW s, IsState(s)
  PROVE  IsState(ResumeRunning(s))
<1> DEFINE display  == s.now + s.display_interval
           anchored == ReanchorFast([s EXCEPT !.lifecycle = "Running", !.next_display = display])
           id       == s.next_resume_reconciliation_id
           f        == [j \in DOMAIN anchored.jobs |->
                          ResumedRuntime(anchored, j, CurrentDemand(s))]
           as == anchored.actions \cup {[kind |-> "RescanHardware", reconciliation |-> id]}
                   \cup {[kind |-> "ResetCounterBaseline", job |-> j] :
                           j \in {k \in Jobs(s) : s.jobs[k].spec.counter}}
           next == id + 1
<1>1. display \in OptTime /\ id \in Nat /\ next \in Nat
  BY DEF IsState, OptTime
<1> HIDE DEF display
<1>2. IsState([s EXCEPT !.lifecycle = "Running", !.next_display = display])
  BY <1>1 DEF IsState, Lifecycle
<1>3. IsState(anchored)
  BY <1>2, ReanchorFastType
<1> HIDE DEF anchored
<1>4. IsJobMap(f, JobRuntime)
  BY <1>3, ResumedRuntimeType, RuntimeOf DEF IsJobMap, Jobs
<1>5. as \subseteq Action
  <2>1. [kind |-> "RescanHardware", reconciliation |-> id] \in Action
    BY <1>1 DEF Action
  <2>2. \A j \in JobId : [kind |-> "ResetCounterBaseline", job |-> j] \in Action
    BY DEF Action
  <2> QED BY <1>3, <2>1, <2>2, RuntimeOf DEF IsState
<1> HIDE DEF f, as, id, next
<1>6. IsState([anchored EXCEPT !.jobs = f, !.awaiting_resume_inventory = id,
                 !.next_resume_reconciliation_id = next, !.actions = as])
  BY <1>1, <1>3, <1>4, <1>5 DEF IsState
<1> QED BY <1>6 DEF ResumeRunning, f, as, id, next, anchored, display

(* stop.                                                                      *)
LEMMA StopType ==
  ASSUME NEW s, IsState(s), NEW reason \in {"Shutdown", "CriticalFailure"}
  PROVE  IsState(Stop(s, reason))
<1> DEFINE c == CancelAll(s, reason)
           as == c.actions \cup {[kind |-> "Terminate"]}
<1>1. IsState(c)
  BY CancelAllType DEF CancelReason
<1>2. as \subseteq Action
  BY <1>1 DEF IsState, Action
<1> HIDE DEF c, as
<1>3. IsState([c EXCEPT !.lifecycle = "Stopped", !.actions = as])
  BY <1>1, <1>2 DEF IsState, Lifecycle
<1> QED BY <1>3 DEF Stop, c, as

(* The configurations the daemon passes in are well typed.                    *)
LEMMA PlanType ==
  ASSUME NEW plan \in Plans
  PROVE  /\ IsJobMap(plan.jobs, JobSpec) /\ plan.demand \in DemandPlan
         /\ plan.display_interval \in Nat \ {0}
  BY PlansAssumption DEF IsPlan

(* startup.                                                                   *)
LEMMA StartType ==
  ASSUME NEW s, IsState(s), NEW plan \in Plans
  PROVE  IsState(Start(s, plan))
<1> DEFINE display == s.now + plan.display_interval
           paint   == s.now + FIRST_PAINT_TIMEOUT
           f == [j \in DOMAIN plan.jobs |-> NewRuntime(plan.jobs[j], s.now, display)]
           started == [s EXCEPT
             !.lifecycle = "Running", !.config_generation = 1, !.inventory_generation = 1,
             !.display_interval = plan.display_interval, !.demand = plan.demand,
             !.next_display = display, !.first_paint_deadline = paint, !.jobs = f]
           demanded == {j \in Jobs(started) \cap CurrentDemand(started) :
                          ~IsHistory(started.jobs[j])}
           waiting == {j \in demanded : StartupPanel(started.jobs[j])}
<1>1. display \in Nat /\ paint \in Nat
  BY PlanType, TimesAssumption DEF IsState
<1>2. IsJobMap(f, JobRuntime)
  BY <1>1, PlanType, NewRuntimeType DEF IsJobMap, IsState
<1> HIDE DEF f, display, paint
<1>3. IsState(started)
  BY <1>1, <1>2, PlanType DEF IsState, OptTime, Lifecycle
<1> HIDE DEF started
<1>4. demanded \subseteq JobId /\ waiting \subseteq JobId
  BY <1>3, RuntimeOf
<1> HIDE DEF demanded, waiting
<1>5. IsState(MarkJobs(started, demanded))
  BY <1>3, MarkJobsType
<1>6. IsState([MarkJobs(started, demanded) EXCEPT !.first_paint_waiting = waiting])
  BY <1>4, <1>5 DEF IsState
<1>7. IsState(CompleteFirstPaint([MarkJobs(started, demanded) EXCEPT
                                    !.first_paint_waiting = waiting]))
  BY <1>6, CompleteTypes
<1> QED BY <1>7 DEF Start, waiting, demanded, started, f, display, paint

(* reconfigure.                                                               *)
LEMMA ReconfigureType ==
  ASSUME NEW s, IsState(s), NEW plan \in Plans
  PROVE  IsState(Reconfigure(s, plan))
<1> DEFINE generation == s.config_generation + 1
           display == s.now + plan.display_interval
           adopted == [s EXCEPT !.config_generation = generation,
                                !.display_interval = plan.display_interval,
                                !.demand = plan.demand, !.next_display = display]
           replaced == ReplaceJobs(adopted, plan.jobs, "ConfigChanged")
           demanded == RefreshDemand(ReanchorFast(replaced), FALSE)
           marked == MarkJobs(demanded, CurrentDemand(demanded) \cap Discovery)
<1>1. generation \in Nat /\ display \in OptTime
  BY PlanType DEF IsState, OptTime
<1> HIDE DEF generation, display
<1>2. IsState(adopted)
  BY <1>1, PlanType DEF IsState
<1> HIDE DEF adopted
<1>3. IsState(replaced)
  BY <1>2, PlanType, ReplaceJobsType DEF CancelReason
<1>4. IsState(demanded)
  BY <1>3, ReanchorFastType, RefreshDemandType
<1>5. IsState(marked)
  BY <1>4, MarkJobsType
<1>6. IsState(PublishFull(marked, "ConfigChanged", None, 0))
  BY <1>5, PublishTypes DEF PublishReason, OptTime
<1> QED BY <1>5, <1>6 DEF Reconfigure, marked, adopted, generation, display

(* change_inventory.                                                          *)
LEMMA ChangeInventoryType ==
  ASSUME NEW s, IsState(s), NEW plan \in Plans, NEW acknowledged
  PROVE  IsState(ChangeInventory(s, plan, acknowledged))
<1> DEFINE resumes  == acknowledged = s.awaiting_resume_inventory /\ acknowledged # 0
           before   == CurrentDemand(s)
           generation == s.inventory_generation + 1
           adopted  == [s EXCEPT !.inventory_generation = generation, !.demand = plan.demand]
           replaced == ReplaceJobs(adopted, plan.jobs, "SourceReplaced")
           released == IF resumes THEN [replaced EXCEPT !.awaiting_resume_inventory = 0]
                       ELSE replaced
           active   == ActivateJobs(released, before, CurrentDemand(released),
                                    released.effective_presented)
           activated == RefreshDemand(active, FALSE)
<1>1. generation \in Nat
  BY DEF IsState
<1> HIDE DEF generation
<1>2. IsState(adopted)
  BY <1>1, PlanType DEF IsState
<1> HIDE DEF adopted
<1>3. IsState(replaced)
  BY <1>2, PlanType, ReplaceJobsType DEF CancelReason
<1> HIDE DEF replaced, resumes
<1>4. IsState(released)
  BY <1>3 DEF IsState
<1>5. released.effective_presented \in BOOLEAN
  BY <1>4 DEF IsState
<1> HIDE DEF released
<1>6. IsState(activated)
  BY <1>4, <1>5, ActivateJobsType, RefreshDemandType
<1> HIDE DEF activated
<1>7. IsState(RefreshAllDemanded(activated))
  BY <1>6, RefreshAllDemandedType
<1> QED BY <1>6, <1>7
        DEF ChangeInventory, activated, released, replaced, resumes, adopted, generation

(* change_demand.                                                             *)
LEMMA ChangeDemandType ==
  ASSUME NEW s, IsState(s), NEW demand \in DemandPlan
  PROVE  IsState(ChangeDemand(s, demand))
<1> DEFINE before == CurrentDemand(s)
           moved  == [s EXCEPT !.demand = demand]
           after  == CurrentDemand(moved)
           ended  == CancelDemandEnded(moved, before, after)
           active == ActivateJobs(ended, before, after, s.effective_presented)
<1>1. IsState(moved)
  BY DEF IsState
<1>2. IsState(ended)
  BY <1>1, CancelDemandEndedType
<1>3. IsState(active)
  BY <1>2, ActivateJobsType DEF IsState
<1>4. IsState(RebuildFirstPaintBlockers(RefreshDemand(active, FALSE)))
  BY <1>3, RefreshDemandType, RebuildFirstPaintBlockersType
<1> QED BY <1>4 DEF ChangeDemand

(* refresh_activation.                                                        *)
LEMMA RefreshActivationType ==
  ASSUME NEW s, IsState(s)
  PROVE  IsState(RefreshActivation(s))
<1> DEFINE amd == {j \in Jobs(s) : s.jobs[j].spec.amd \in WideAmd}
           waiting == s.activation_waiting \cup amd
           deadline == s.now + ACTIVATION_REFRESH_TIMEOUT
           marked == [MarkJobs(s, amd) EXCEPT !.activation_waiting = waiting]
<1>1. waiting \subseteq JobId /\ deadline \in OptTime
  BY RuntimeOf, TimesAssumption DEF IsState, OptTime
<1>2. IsState(MarkJobs(s, amd))
  BY MarkJobsType
<1> HIDE DEF amd, waiting, deadline
<1>3. IsState(marked)
  BY <1>1, <1>2 DEF IsState
<1> HIDE DEF marked
<1>4. IsState(PublishTooltip(marked, "TooltipActivated"))
  BY <1>3, PublishTypes DEF PublishReason, OptTime
<1>5. IsState([marked EXCEPT !.activation_deadline = deadline])
  BY <1>1, <1>3 DEF IsState
<1> QED BY <1>3, <1>4, <1>5 DEF RefreshActivation, marked, amd, waiting, deadline

(* change_presentation.                                                       *)
LEMMA PresentationTypes ==
  ASSUME NEW s, IsState(s)
  PROVE  IsState(Present(s)) /\ IsState(Dismiss(s))
<1>1. IsState(Present(s))
  <2> DEFINE shown == [s EXCEPT !.presented = TRUE, !.deactivation_deadline = None,
                                !.effective_presented = TRUE]
             hidden == Demanded(s.demand, FALSE, s.selected_page)
             activated == IF s.effective_presented THEN shown
                          ELSE ActivateJobs(shown, hidden, CurrentDemand(shown), TRUE)
  <2>1. IsState(shown)
    BY DEF IsState, OptTime
  <2>2. IsState(activated)
    BY <2>1, ActivateJobsType
  <2>3. IsState(RefreshActivation(activated))
    BY <2>2, RefreshActivationType
  <2> QED BY <2>2, <2>3 DEF Present
<1>2. IsState(Dismiss(s))
  <2> DEFINE grace == IF s.presented /\ s.effective_presented
                      THEN s.now + DEACTIVATION_GRACE ELSE s.deactivation_deadline
  <2>1. grace \in OptTime
    BY TimesAssumption DEF IsState, OptTime
  <2> HIDE DEF grace
  <2>2. IsState([s EXCEPT !.presented = FALSE, !.deactivation_deadline = grace])
    BY <2>1 DEF IsState
  <2> QED BY <2>2 DEF Dismiss, grace
<1> QED BY <1>1, <1>2

(* change_page.                                                               *)
LEMMA ChangePageType ==
  ASSUME NEW s, IsState(s), NEW page \in PageId
  PROVE  IsState(ChangePage(s, page))
<1> DEFINE before == CurrentDemand(s)
           moved  == [s EXCEPT !.selected_page = page]
           after  == CurrentDemand(moved)
           activated == ActivateJobs(CancelDemandEnded(moved, before, after), before, after,
                                     TRUE)
<1>1. IsState(moved)
  BY DEF IsState
<1>2. IsState(activated)
  BY <1>1, CancelDemandEndedType, ActivateJobsType
<1>3. IsState(PublishTooltip(activated, "PageChanged"))
  BY <1>2, PublishTypes DEF PublishReason, OptTime
<1> QED BY <1>1, <1>2, <1>3 DEF ChangePage

-----------------------------------------------------------------------------
(* Every step of the machine keeps the types.                                 *)

(* An event starts from a state.                                              *)
LEMMA AtType ==
  ASSUME TypeOK, NEW at \in Times
  PROVE  IsState(At(at))
<1>1. at \in Nat
  BY DEF Times, TypeOK, IsState
<1>2. IsState([sched EXCEPT !.now = at, !.actions = {}, !.accepted = TRUE])
  BY <1>1 DEF TypeOK, IsState
<1> QED BY <1>2 DEF At

(* Startup comes before the clock has moved.                                  *)
LEMMA AtNow ==
  ASSUME TypeOK
  PROVE  IsState(At(sched.now))
  BY DEF At, TypeOK, IsState, Action

(* Init establishes the types and every event keeps them.                     *)
LEMMA InitType == Init => TypeOK
<1>1. NoPlan \in DemandPlan
  BY DEF NoPlan, DemandPlan
<1>2. IsJobMap([j \in {} |-> NoJob], JobRuntime)
  BY DEF IsJobMap
<1> QED BY <1>1, <1>2, JobsAssumption DEF Init, TypeOK, IsState, OptTime, Lifecycle

(* One step per event.                                                        *)
LEMMA StepType ==
  ASSUME TypeOK, [Next]_sched
  PROVE  TypeOK'
<1>1. CASE Startup
  <2>1. PICK plan \in Plans : Accept(Start(At(sched.now), plan))
    BY <1>1 DEF Startup
  <2>2. IsState(Dispatch(Start(At(sched.now), plan)))
    BY AtNow, StartType, DispatchType
  <2> QED BY <2>1, <2>2 DEF Accept, TypeOK
<1>2. CASE TimeAdvanced
  <2>1. PICK at \in Times : Accept(Elapse(At(at)))
    BY <1>2 DEF TimeAdvanced
  <2>2. IsState(Dispatch(Elapse(At(at))))
    BY AtType, ElapseType, DispatchType
  <2> QED BY <2>1, <2>2 DEF Accept, TypeOK
<1>3. CASE ConfigChanged
  <2>1. PICK at \in Times, plan \in Plans : Accept(Reconfigure(At(at), plan))
    BY <1>3 DEF ConfigChanged
  <2>2. IsState(Dispatch(Reconfigure(At(at), plan)))
    BY AtType, ReconfigureType, DispatchType
  <2> QED BY <2>1, <2>2 DEF Accept, TypeOK
<1>4. CASE InventoryChanged
  <2>1. PICK at \in Times, plan \in Plans, acknowledged \in 0..MaxResumes :
          Accept(ChangeInventory(At(at), plan, acknowledged))
    BY <1>4 DEF InventoryChanged
  <2>2. IsState(Dispatch(ChangeInventory(At(at), plan, acknowledged)))
    BY AtType, ChangeInventoryType, DispatchType
  <2> QED BY <2>1, <2>2 DEF Accept, TypeOK
<1>5. CASE DemandChanged
  <2>1. PICK at \in Times, plan \in Plans : Accept(ChangeDemand(At(at), plan.demand))
    BY <1>5 DEF DemandChanged
  <2>2. IsState(Dispatch(ChangeDemand(At(at), plan.demand)))
    BY AtType, PlanType, ChangeDemandType, DispatchType
  <2> QED BY <2>1, <2>2 DEF Accept, TypeOK
<1>6. CASE TooltipPresented
  <2>1. PICK at \in Times, presented \in BOOLEAN :
          Accept(IF presented THEN Present(At(at)) ELSE Dismiss(At(at)))
    BY <1>6 DEF TooltipPresented
  <2>2. IsState(Dispatch(IF presented THEN Present(At(at)) ELSE Dismiss(At(at))))
    BY AtType, PresentationTypes, DispatchType
  <2> QED BY <2>1, <2>2 DEF Accept, TypeOK
<1>7. CASE TooltipReactivated
  <2>1. PICK at \in Times :
          Accept(IF sched.presented THEN RefreshActivation(At(at)) ELSE At(at))
    BY <1>7 DEF TooltipReactivated
  <2>2. IsState(Dispatch(IF sched.presented THEN RefreshActivation(At(at)) ELSE At(at)))
    BY AtType, RefreshActivationType, DispatchType
  <2> QED BY <2>1, <2>2 DEF Accept, TypeOK
<1>8. CASE SelectedPageChanged
  <2>1. PICK at \in Times, page \in PageId : Accept(ChangePage(At(at), page))
    BY <1>8 DEF SelectedPageChanged
  <2>2. IsState(Dispatch(ChangePage(At(at), page)))
    BY AtType, ChangePageType, DispatchType
  <2> QED BY <2>1, <2>2 DEF Accept, TypeOK
<1>9. CASE DisplayRefreshRequested
  <2>1. PICK at \in Times : Accept(PublishFull(At(at), "ConfigChanged", None, 0))
    BY <1>9 DEF DisplayRefreshRequested
  <2>2. IsState(Dispatch(PublishFull(At(at), "ConfigChanged", None, 0)))
    BY AtType, PublishTypes, DispatchType DEF PublishReason, OptTime
  <2> QED BY <2>1, <2>2 DEF Accept, TypeOK
<1>10. CASE TooltipRefreshRequested
  <2>1. PICK at \in Times : Accept(PublishTooltip(At(at), "TooltipRefresh"))
    BY <1>10 DEF TooltipRefreshRequested
  <2>2. IsState(Dispatch(PublishTooltip(At(at), "TooltipRefresh")))
    BY AtType, PublishTypes, DispatchType DEF PublishReason, OptTime
  <2> QED BY <2>1, <2>2 DEF Accept, TypeOK
<1>11. CASE JobFinished
  <2>1. PICK at \in Times, t \in InFlight(sched), completion \in Outcomes, ready \in BOOLEAN :
          \/ Accept(FinishJob(Elapse(At(at)), t, completion, ready))
          \/ Reject(Elapse(At(at)))
    BY <1>11 DEF JobFinished
  <2>2. t \in Ticket
    BY RuntimeOf DEF InFlight, TypeOK, JobRuntime
  <2>3. completion \in Completions
    BY PlansAssumption
  <2>4. IsState(Elapse(At(at)))
    BY AtType, ElapseType
  <2>5. IsState(Dispatch(FinishJob(Elapse(At(at)), t, completion, ready)))
    BY <2>2, <2>3, <2>4, FinishJobType, DispatchType
  <2>6. IsState([Elapse(At(at)) EXCEPT !.accepted = FALSE])
    BY <2>4 DEF IsState
  <2> QED BY <2>1, <2>5, <2>6 DEF Accept, Reject, TypeOK
<1>12. CASE JobCancelled
  <2>1. PICK at \in Times, t \in sched.cancelling :
          Accept(FinishCancellation(Elapse(At(at)), t))
    BY <1>12 DEF JobCancelled
  <2>2. IsState(Dispatch(FinishCancellation(Elapse(At(at)), t)))
    BY AtType, ElapseType, FinishCancellationType, DispatchType
  <2> QED BY <2>1, <2>2 DEF Accept, TypeOK
<1>13. CASE RefreshTriggered
  <2>1. PICK at \in Times, job \in Jobs(sched) :
          \/ Accept(Elapse(At(at)))
          \/ Accept(MarkJobs(Elapse(At(at)), {job} \cap CurrentDemand(Elapse(At(at)))))
    BY <1>13 DEF RefreshTriggered
  <2>2. IsState(Elapse(At(at)))
    BY AtType, ElapseType
  <2>3. IsState(MarkJobs(Elapse(At(at)), {job} \cap CurrentDemand(Elapse(At(at)))))
    BY <2>2, MarkJobsType
  <2>4. /\ IsState(Dispatch(Elapse(At(at))))
        /\ IsState(Dispatch(MarkJobs(Elapse(At(at)), {job} \cap CurrentDemand(Elapse(At(at))))))
    BY <2>2, <2>3, DispatchType
  <2> QED BY <2>1, <2>4 DEF Accept, TypeOK
<1>14. CASE PanelPublished
  <2> DEFINE Answered(at, publication) ==
        [At(at) EXCEPT !.panel_publications = @ \ {publication}, !.notifications_armed = TRUE]
  <2>1. PICK at \in Times, publication \in sched.panel_publications :
          Accept(Answered(at, publication))
    BY <1>14 DEF PanelPublished
  <2>2. IsState(Answered(at, publication))
    <3> DEFINE s == At(at)
               ps == s.panel_publications \ {publication}
    <3>1. IsState(s) /\ ps \subseteq Nat
      BY AtType DEF IsState
    <3> HIDE DEF s, ps
    <3>2. IsState([s EXCEPT !.panel_publications = ps, !.notifications_armed = TRUE])
      BY <3>1 DEF IsState
    <3> QED BY <3>2 DEF s, ps
  <2> HIDE DEF Answered
  <2>3. IsState(Dispatch(Answered(at, publication)))
    BY <2>2, DispatchType
  <2> QED BY <2>1, <2>3 DEF Accept, TypeOK
<1>15. CASE Suspend
  <2>1. PICK at \in Times :
          \/ Accept([CancelAll(At(at), "Suspend") EXCEPT !.lifecycle = "Suspended"])
          \/ Accept(At(at))
    BY <1>15 DEF Suspend
  <2>2. IsState(At(at)) /\ IsState(CancelAll(At(at), "Suspend"))
    BY AtType, CancelAllType DEF CancelReason
  <2>3. IsState([CancelAll(At(at), "Suspend") EXCEPT !.lifecycle = "Suspended"])
    BY <2>2 DEF IsState, Lifecycle
  <2> QED BY <2>1, <2>2, <2>3, DispatchType DEF Accept, TypeOK
<1>16. CASE Resume
  <2>1. PICK at \in Times : Accept(ResumeRunning(At(at))) \/ Accept(At(at))
    BY <1>16 DEF Resume
  <2>2. IsState(At(at)) /\ IsState(ResumeRunning(At(at)))
    BY AtType, ResumeRunningType
  <2> QED BY <2>1, <2>2, DispatchType DEF Accept, TypeOK
<1>17. CASE Shutdown
  <2>1. PICK at \in Times, reason \in {"Shutdown", "CriticalFailure"} :
          Accept(Stop(At(at), reason))
    BY <1>17 DEF Shutdown
  <2>2. IsState(Dispatch(Stop(At(at), reason)))
    BY AtType, StopType, DispatchType
  <2> QED BY <2>1, <2>2 DEF Accept, TypeOK
<1>18. CASE UNCHANGED sched
  BY <1>18 DEF TypeOK
<1> QED
  BY <1>1, <1>2, <1>3, <1>4, <1>5, <1>6, <1>7, <1>8, <1>9, <1>10, <1>11, <1>12, <1>13,
     <1>14, <1>15, <1>16, <1>17, <1>18 DEF Next

(* Whatever the events, their order and their instants, every field of the    *)
(* Scheduler struct and every action it returns keep their declared types.    *)
THEOREM TypeCorrect == Spec => []TypeOK
<1>1. Init => TypeOK
  BY InitType
<1>2. TypeOK /\ [Next]_sched => TypeOK'
  BY StepType
<1> QED BY <1>1, <1>2, PTL DEF Spec

-----------------------------------------------------------------------------
(* The inductive invariant.                                                   *)

(* A ticket is kept by the job it was started for; a live one holds its owner *)
(* alone, under a run number that is not the mark of a free owner; and a      *)
(* reserved owner has its run.  Nothing is both in flight and cancelled, so   *)
(* the answer of either kind takes away the only trace of its run.            *)
Owned(s) ==
  /\ s.next_run_id >= 1
  /\ \A j \in Jobs(s) : \A t \in s.jobs[j].in_flight : t.job = j
  /\ \A t \in Live(s) : t.run # 0 /\ s.in_flight_owners[OwnerOf[t.job]] = t.run
  /\ \A t, u \in Live(s) : OwnerOf[t.job] = OwnerOf[u.job] => t = u
  /\ \A o \in OwnerId : s.in_flight_owners[o] # 0 => \E t \in Live(s) : OwnerOf[t.job] = o
  /\ InFlight(s) \cap s.cancelling = {}

(* Runs in flight belong to the generations in force, and there are none      *)
(* unless the machine runs.                                                   *)
Era(s) ==
  \A t \in InFlight(s) :
    /\ s.lifecycle = "Running"
    /\ t.config = s.config_generation /\ t.inventory = s.inventory_generation

Sound(s) == IsState(s) /\ Owned(s) /\ Era(s)

(* u is a sound successor of s that has not forgotten a cancelled run.        *)
Follows(s, u) == Sound(u) /\ s.cancelling \subseteq u.cancelling

(* u has the runs of s.                                                       *)
SameRuns(s, u) ==
  /\ Jobs(u) = Jobs(s)
  /\ \A j \in Jobs(s) : u.jobs[j].in_flight = s.jobs[j].in_flight
  /\ u.cancelling = s.cancelling /\ u.next_run_id = s.next_run_id
  /\ u.in_flight_owners = s.in_flight_owners

SameEra(s, u) ==
  /\ u.lifecycle = s.lifecycle
  /\ u.config_generation = s.config_generation
  /\ u.inventory_generation = s.inventory_generation

(* Live runs are tickets.                                                     *)
LEMMA LiveTickets ==
  ASSUME NEW s, IsState(s)
  PROVE  \A t \in Live(s) : t \in Ticket
<1>1. \A j \in Jobs(s) : s.jobs[j].in_flight \subseteq Ticket
  BY RuntimeOf DEF JobRuntime
<1>2. InFlight(s) \subseteq Ticket
  BY <1>1 DEF InFlight
<1>3. s.cancelling \subseteq Ticket
  BY DEF IsState
<1> QED BY <1>2, <1>3 DEF Live

(* What leaves the runs alone keeps the invariant.                            *)
LEMMA QuietOwned ==
  ASSUME NEW s, Owned(s), NEW u, SameRuns(s, u)
  PROVE  Owned(u) /\ InFlight(u) = InFlight(s) /\ Live(u) = Live(s)
<1>1. InFlight(u) = InFlight(s)
  BY DEF SameRuns, InFlight
<1>2. Live(u) = Live(s)
  BY <1>1 DEF SameRuns, Live
<1> QED BY <1>1, <1>2 DEF SameRuns, Owned

(* So it keeps soundness, if it also leaves the generations alone.            *)
LEMMA QuietSound ==
  ASSUME NEW s, Sound(s), NEW u, IsState(u), SameRuns(s, u), SameEra(s, u)
  PROVE  Follows(s, u)
<1>1. Owned(u) /\ InFlight(u) = InFlight(s)
  BY QuietOwned DEF Sound
<1>2. Era(u)
  BY <1>1 DEF Sound, Era, SameEra
<1> QED BY <1>1, <1>2 DEF Follows, Sound, SameRuns

(* Soundness is followed through a chain of handlers.                         *)
LEMMA FollowsTransitive ==
  ASSUME NEW s, NEW u, NEW v, Follows(s, u), Follows(u, v)
  PROVE  Follows(s, v)
  BY DEF Follows

(* Doing nothing is sound.                                                    *)
LEMMA FollowsSelf ==
  ASSUME NEW s, Sound(s)
  PROVE  Follows(s, s)
  BY DEF Follows

(* New runtimes that keep their runs.                                         *)
LEMMA WithRuns ==
  ASSUME NEW s, Sound(s), NEW f, IsJobMap(f, JobRuntime), DOMAIN f = DOMAIN s.jobs,
         \A j \in DOMAIN f : f[j].in_flight = s.jobs[j].in_flight
  PROVE  Follows(s, [s EXCEPT !.jobs = f])
<1>1. IsState(s)
  BY DEF Sound
<1>2. IsState([s EXCEPT !.jobs = f])
  BY <1>1, WithJobs
<1>3. SameRuns(s, [s EXCEPT !.jobs = f]) /\ SameEra(s, [s EXCEPT !.jobs = f])
  BY <1>1 DEF IsState, SameRuns, SameEra, Jobs
<1> QED BY <1>2, <1>3, QuietSound

(* The operators on a runtime leave its run alone.                            *)
LEMMA MarkPendingRun ==
  ASSUME NEW rt \in JobRuntime, NEW at
  PROVE  /\ MarkPending(rt, at).in_flight = rt.in_flight
         /\ MarkHistoryPending(rt, at).in_flight = rt.in_flight
         /\ ClearPending(rt).in_flight = rt.in_flight
  BY DEF MarkPending, MarkHistoryPending, ClearPending, JobRuntime

(* A deadline that falls due changes no run either.                           *)
LEMMA DueRun ==
  ASSUME NEW rt \in JobRuntime, NEW ready \in BOOLEAN, NEW now \in Nat
  PROVE  /\ RetriedRuntime(rt, now).in_flight = rt.in_flight
         /\ DueRuntime(rt, ready, now).in_flight = rt.in_flight
<1>1. RetriedRuntime(rt, now).in_flight = rt.in_flight
  BY DEF RetriedRuntime, MarkPending, JobRuntime
<1>2. DueRuntime(rt, ready, now).in_flight = rt.in_flight
  BY DEF DueRuntime, MarkPending, MarkHistoryPending, JobRuntime
<1> QED BY <1>1, <1>2

-----------------------------------------------------------------------------
(* Operators of the machine.                                                  *)

(* Publications touch no run.                                                 *)
LEMMA PublishSound ==
  ASSUME NEW s, Sound(s), NEW reason \in PublishReason, NEW deadline \in OptTime,
         NEW skipped \in Nat
  PROVE  /\ Follows(s, PublishTooltip(s, reason))
         /\ Follows(s, PublishFull(s, reason, deadline, skipped))
<1>1. IsState(s)
  BY DEF Sound
<1>2. /\ IsState(PublishTooltip(s, reason))
      /\ IsState(PublishFull(s, reason, deadline, skipped))
  BY <1>1, PublishTypes
<1>3. ASSUME NEW d, NEW n, NEW panel, NEW wanted
      PROVE  LET u == IssuePublish(s, reason, d, n, panel, wanted)
             IN  SameRuns(s, u) /\ SameEra(s, u)
  BY <1>1 DEF IssuePublish, IsState, SameRuns, SameEra, Jobs
<1>4. /\ SameRuns(s, PublishTooltip(s, reason)) /\ SameEra(s, PublishTooltip(s, reason))
      /\ SameRuns(s, PublishFull(s, reason, deadline, skipped))
      /\ SameEra(s, PublishFull(s, reason, deadline, skipped))
  BY <1>3 DEF PublishTooltip, PublishFull
<1> QED BY <1>2, <1>4, QuietSound

(* Anchoring fast jobs to the display.                                        *)
LEMMA ReanchorFastSound ==
  ASSUME NEW s, Sound(s)
  PROVE  Follows(s, ReanchorFast(s))
<1>1. IsState(s)
  BY DEF Sound
<1>2. IsState(ReanchorFast(s))
  BY <1>1, ReanchorFastType
<1>3. \A rt \in JobRuntime : \A d : [rt EXCEPT !.nominal_due = d].in_flight = rt.in_flight
  BY DEF JobRuntime
<1>4. SameRuns(s, ReanchorFast(s)) /\ SameEra(s, ReanchorFast(s))
  BY <1>1, <1>3, RuntimeOf DEF ReanchorFast, IsState, SameRuns, SameEra, Jobs
<1> QED BY <1>2, <1>4, QuietSound

(* The first paint.                                                           *)
LEMMA IssueFirstPaintSound ==
  ASSUME NEW s, Sound(s), NEW reason \in PublishReason
  PROVE  Follows(s, IssueFirstPaint(s, reason))
<1> DEFINE skipped == IF s.next_display = None THEN 0
                      ELSE DueIntervals(s.next_display, s.display_interval, s.now)
           painted == [s EXCEPT !.first_paint_issued = TRUE, !.first_paint_deadline = None,
                                !.first_paint_waiting = {}]
           next    == AdvancePast(s.next_display, s.display_interval, s.now)
           shifted == [painted EXCEPT !.next_display = next]
           moved   == IF Due(s.next_display, s.now) THEN ReanchorFast(shifted) ELSE painted
<1>1. IsState(s) /\ s.now \in Nat /\ s.display_interval \in Nat /\ s.next_display \in OptTime
  BY DEF Sound, IsState
<1>2. skipped \in Nat /\ (Due(s.next_display, s.now) => next \in OptTime)
  BY <1>1, PolicyTypes DEF Due, OptTime
<1> HIDE DEF next
<1>3. IsState(painted) /\ (Due(s.next_display, s.now) => IsState(shifted))
  BY <1>1, <1>2 DEF IsState, OptTime
<1>4. /\ SameRuns(s, painted) /\ SameEra(s, painted)
      /\ SameRuns(s, shifted) /\ SameEra(s, shifted)
  BY <1>1 DEF IsState, SameRuns, SameEra, Jobs
<1>5. Follows(s, painted) /\ (Due(s.next_display, s.now) => Follows(s, shifted))
  BY <1>3, <1>4, QuietSound
<1> USE DEF next
<1>6. moved = IF Due(s.next_display, s.now)
              THEN ReanchorFast([painted EXCEPT !.next_display =
                     AdvancePast(@, s.display_interval, s.now)])
              ELSE painted
  BY <1>1 DEF IsState
<1> HIDE DEF painted, shifted, next, skipped
<1>7. Follows(s, moved)
  BY <1>5, ReanchorFastSound, FollowsTransitive DEF Follows
<1> HIDE DEF moved
<1>8. Follows(moved, PublishFull(moved, reason, None, skipped))
  BY <1>2, <1>7, PublishSound DEF Follows, OptTime
<1>9. Follows(s, PublishFull(moved, reason, None, skipped))
  BY <1>7, <1>8, FollowsTransitive
<1>10. IssueFirstPaint(s, reason) = IF s.first_paint_issued THEN s
                                    ELSE PublishFull(moved, reason, None, skipped)
  BY <1>6 DEF IssueFirstPaint, painted, skipped
<1> QED BY <1>9, <1>10, FollowsSelf

(* Cancelled runs stay live: they move from their jobs to cancelling.         *)
LEMMA CancelRunsOwned ==
  ASSUME NEW s, IsState(s), Owned(s), NEW J \in SUBSET Jobs(s), NEW reason \in CancelReason
  PROVE  LET c == CancelRuns(s, J, reason)
         IN  /\ IsState(c) /\ Owned(c) /\ SameEra(s, c) /\ Jobs(c) = Jobs(s)
             /\ InFlight(c) \subseteq InFlight(s) /\ s.cancelling \subseteq c.cancelling
             /\ \A j \in J : c.jobs[j].in_flight = {}
<1> DEFINE taken == UNION {s.jobs[j].in_flight : j \in J}
           c == CancelRuns(s, J, reason)
<1>1. IsState(c) /\ Jobs(c) = Jobs(s)
  BY CancelRunsType
<1>2. /\ c.cancelling = s.cancelling \cup taken
      /\ c.in_flight_owners = s.in_flight_owners /\ c.next_run_id = s.next_run_id
      /\ SameEra(s, c)
  BY DEF CancelRuns, IsState, SameEra
<1>3. \A j \in Jobs(s) :
        c.jobs[j].in_flight = IF j \in J THEN {} ELSE s.jobs[j].in_flight
  <2>1. \A rt \in JobRuntime : [rt EXCEPT !.in_flight = {}].in_flight = {}
    BY DEF JobRuntime
  <2>2. \A j \in Jobs(s) : c.jobs[j] = IF j \in J THEN [s.jobs[j] EXCEPT !.in_flight = {}]
                                       ELSE s.jobs[j]
    BY DEF CancelRuns, IsState, Jobs
  <2> QED BY <2>1, <2>2, RuntimeOf
<1> HIDE DEF c
<1>4. InFlight(c) = UNION {s.jobs[j].in_flight : j \in Jobs(s) \ J}
  BY <1>1, <1>3 DEF InFlight
<1>5. InFlight(s) = InFlight(c) \cup taken
  BY <1>4 DEF InFlight
<1>6. Live(c) = Live(s)
  BY <1>2, <1>5 DEF Live
<1>7. InFlight(c) \cap c.cancelling = {}
  <2>1. InFlight(c) \cap taken = {}
    <3> SUFFICES ASSUME NEW t \in InFlight(c), t \in taken PROVE FALSE
      OBVIOUS
    <3>1. PICK j \in Jobs(s) \ J : t \in s.jobs[j].in_flight
      BY <1>4
    <3>2. PICK k \in J : t \in s.jobs[k].in_flight
      OBVIOUS
    <3> QED BY <3>1, <3>2 DEF Owned
  <2>2. InFlight(c) \cap s.cancelling = {}
    BY <1>5 DEF Owned
  <2> QED BY <1>2, <2>1, <2>2
<1>8. \A j \in Jobs(c) : \A t \in c.jobs[j].in_flight : t.job = j
  BY <1>1, <1>3 DEF Owned
<1>9. Owned(c)
  BY <1>2, <1>6, <1>7, <1>8 DEF Owned
<1> QED BY <1>1, <1>2, <1>3, <1>5, <1>9 DEF c

(* So they do in a state that goes on.                                        *)
LEMMA CancelRunsSound ==
  ASSUME NEW s, Sound(s), NEW J \in SUBSET Jobs(s), NEW reason \in CancelReason
  PROVE  Follows(s, CancelRuns(s, J, reason))
<1>1. IsState(s) /\ Owned(s) /\ Era(s)
  BY DEF Sound
<1> DEFINE c == CancelRuns(s, J, reason)
<1>2. /\ IsState(c) /\ Owned(c) /\ SameEra(s, c)
      /\ InFlight(c) \subseteq InFlight(s) /\ s.cancelling \subseteq c.cancelling
  BY <1>1, CancelRunsOwned
<1> HIDE DEF c
<1>3. Era(c)
  BY <1>1, <1>2 DEF Era, SameEra
<1> QED BY <1>2, <1>3 DEF Follows, Sound, c

(* Once all runs are cancelled nothing is in flight.                          *)
LEMMA CancelAllOwned ==
  ASSUME NEW s, IsState(s), Owned(s), NEW reason \in CancelReason
  PROVE  LET c == CancelAll(s, reason)
         IN  IsState(c) /\ Owned(c) /\ InFlight(c) = {} /\ Jobs(c) = Jobs(s)
<1> DEFINE c == CancelRuns(s, Jobs(s), reason)
<1>1. /\ IsState(c) /\ Owned(c) /\ Jobs(c) = Jobs(s)
      /\ \A j \in Jobs(s) : c.jobs[j].in_flight = {}
  BY CancelRunsOwned
<1> HIDE DEF c
<1>2. InFlight(c) = {}
  BY <1>1 DEF InFlight
<1> QED BY <1>1, <1>2 DEF CancelAll, c

(* Marking jobs pending.                                                      *)
LEMMA MarkJobsSound ==
  ASSUME NEW s, Sound(s), NEW J
  PROVE  Follows(s, MarkJobs(s, J))
<1> DEFINE f == [j \in DOMAIN s.jobs |->
                   IF j \in J THEN MarkPending(s.jobs[j], s.now) ELSE s.jobs[j]]
<1>1. IsState(s) /\ s.now \in OptTime
  BY DEF Sound, IsState, OptTime
<1>2. IsJobMap(f, JobRuntime)
  BY <1>1, MarkPendingType DEF IsState, IsJobMap
<1>3. \A j \in DOMAIN f : f[j].in_flight = s.jobs[j].in_flight
  BY <1>1, RuntimeOf, MarkPendingRun DEF Jobs
<1>4. MarkJobs(s, J) = [s EXCEPT !.jobs = f]
  BY DEF MarkJobs
<1> HIDE DEF f
<1> QED BY <1>2, <1>3, <1>4, WithRuns DEF f

(* replace_jobs cancels everything, so the generations may change before it.  *)
LEMMA ReplaceJobsSound ==
  ASSUME NEW s, IsState(s), Owned(s), NEW specs, IsJobMap(specs, JobSpec),
         NEW reason \in CancelReason
  PROVE  Sound(ReplaceJobs(s, specs, reason))
<1> DEFINE c == CancelAll(s, reason)
           display == IF c.next_display = None THEN c.now + c.display_interval
                      ELSE c.next_display
           f == [j \in DOMAIN specs |->
                   IF j \in Jobs(c) THEN ReplacedRuntime(c, c.jobs[j], specs[j], display)
                   ELSE NewRuntime(specs[j], c.now, display)]
           as == c.actions \cup Invalidated(c, specs)
           waiting == c.activation_waiting \cap DOMAIN specs
           replaced == [c EXCEPT !.jobs = f, !.actions = as, !.activation_waiting = waiting,
                                 !.first_paint_waiting = {}]
           blockers == FirstPaintBlockers(replaced)
           marked == [MarkJobs(replaced, blockers) EXCEPT !.first_paint_waiting = blockers]
           result == ReplaceJobs(s, specs, reason)
<1>1. IsState(c) /\ Owned(c) /\ InFlight(c) = {}
  BY CancelAllOwned
<1>2. IsState(result)
  BY ReplaceJobsType
<1>3. \A j \in DOMAIN f : f[j] \in JobRuntime /\ f[j].in_flight = {}
  <2>1. c.now \in Nat /\ display \in Nat
    BY <1>1 DEF IsState, OptTime
  <2>2. \A j \in Jobs(c) : c.jobs[j] \in JobRuntime /\ c.jobs[j].in_flight = {}
    BY <1>1, RuntimeOf DEF InFlight
  <2> HIDE DEF c, display
  <2>3. \A j \in DOMAIN f : f[j] \in JobRuntime
    BY <1>1, <2>1, <2>2, ReplacedRuntimeType, NewRuntimeType DEF IsJobMap
  <2>4. \A spec, anchor, d : NewRuntime(spec, anchor, d).in_flight = {}
    BY DEF NewRuntime
  <2>5. \A old, spec, d : old.in_flight = {} => ReplacedRuntime(c, old, spec, d).in_flight = {}
    BY <2>4 DEF ReplacedRuntime, NewRuntime
  <2> QED BY <2>2, <2>3, <2>4, <2>5
<1>4. result = IF s.first_paint_issued THEN replaced ELSE marked
  BY DEF ReplaceJobs
<1> HIDE DEF c, display, as, waiting, f, result
<1>5. /\ replaced.jobs = f
      /\ replaced.cancelling = c.cancelling /\ replaced.next_run_id = c.next_run_id
      /\ replaced.in_flight_owners = c.in_flight_owners
  BY <1>1 DEF IsState
<1>6. /\ marked.jobs = [j \in DOMAIN f |-> IF j \in blockers
                          THEN MarkPending(f[j], replaced.now) ELSE f[j]]
      /\ marked.cancelling = c.cancelling /\ marked.next_run_id = c.next_run_id
      /\ marked.in_flight_owners = c.in_flight_owners
  BY <1>1, <1>5 DEF MarkJobs, IsState
<1> HIDE DEF replaced, blockers, marked
<1>7. /\ DOMAIN result.jobs = DOMAIN f
      /\ \A j \in DOMAIN f : result.jobs[j].in_flight = {}
      /\ result.cancelling = c.cancelling /\ result.next_run_id = c.next_run_id
      /\ result.in_flight_owners = c.in_flight_owners
  BY <1>3, <1>4, <1>5, <1>6, MarkPendingRun
<1>8. InFlight(result) = {} /\ Live(result) = Live(c)
  BY <1>1, <1>7 DEF InFlight, Live, Jobs
<1>9. Owned(result)
  BY <1>1, <1>7, <1>8 DEF Owned, Jobs
<1>10. Era(result)
  BY <1>8 DEF Era
<1> QED BY <1>2, <1>9, <1>10 DEF Sound, result

(* activate_jobs.                                                             *)
LEMMA ActivateJobsSound ==
  ASSUME NEW s, Sound(s), NEW before, NEW after, NEW track \in BOOLEAN
  PROVE  Follows(s, ActivateJobs(s, before, after, track))
<1> DEFINE fresh    == {j \in (after \ before) \cap Jobs(s) : ~IsHistory(s.jobs[j])}
           waiting  == (s.activation_waiting \cap after) \cup IF track THEN fresh ELSE {}
           deadline == IF waiting = {} THEN None
                       ELSE IF track /\ s.activation_deadline = None
                            THEN s.now + ACTIVATION_REFRESH_TIMEOUT
                            ELSE s.activation_deadline
           m == MarkJobs(s, fresh)
           u == ActivateJobs(s, before, after, track)
<1>1. IsState(u) /\ Follows(s, m)
  BY ActivateJobsType, MarkJobsSound DEF Sound
<1>2. u = [m EXCEPT !.activation_waiting = waiting, !.activation_deadline = deadline]
  BY DEF ActivateJobs
<1> HIDE DEF m, u, waiting, deadline
<1>3. SameRuns(m, u) /\ SameEra(m, u)
  BY <1>1, <1>2 DEF Follows, Sound, IsState, SameRuns, SameEra, Jobs
<1>4. Follows(m, u)
  BY <1>1, <1>3, QuietSound DEF Follows
<1> QED BY <1>1, <1>4, FollowsTransitive DEF u

(* cancel_demand_ended.                                                       *)
LEMMA CancelDemandEndedSound ==
  ASSUME NEW s, Sound(s), NEW before, NEW after
  PROVE  Follows(s, CancelDemandEnded(s, before, after))
<1> DEFINE ended == (before \ after) \cap PageWork \cap Jobs(s)
           c == CancelRuns(s, ended, "DemandEnded")
           f == [j \in DOMAIN c.jobs |-> IF j \in ended THEN ClearPending(c.jobs[j])
                                         ELSE c.jobs[j]]
<1>1. Follows(s, c)
  BY CancelRunsSound DEF CancelReason
<1> HIDE DEF c, ended
<1>2. IsState(c) /\ \A j \in DOMAIN c.jobs : c.jobs[j] \in JobRuntime
  BY <1>1, RuntimeOf DEF Follows, Sound, Jobs
<1>3. IsJobMap(f, JobRuntime)
  BY <1>2, ClearPendingType DEF IsState, IsJobMap
<1>4. \A j \in DOMAIN f : f[j].in_flight = c.jobs[j].in_flight
  BY <1>2, MarkPendingRun
<1>5. Follows(c, [c EXCEPT !.jobs = f])
  BY <1>1, <1>3, <1>4, WithRuns DEF Follows
<1>6. CancelDemandEnded(s, before, after) = [c EXCEPT !.jobs = f]
  BY DEF CancelDemandEnded, c, ended
<1> QED BY <1>1, <1>5, <1>6, FollowsTransitive

(* refresh_demand.                                                            *)
LEMMA RefreshDemandSound ==
  ASSUME NEW s, Sound(s), NEW cancelPageJobs \in BOOLEAN
  PROVE  Follows(s, RefreshDemand(s, cancelPageJobs))
<1> DEFINE demanded == CurrentDemand(s)
           ended == IF cancelPageJobs THEN (Jobs(s) \cap PageWork) \ demanded ELSE {}
           c == CancelRuns(s, ended, "DemandEnded")
           Lacking(rt) == ~IsHistory(rt) /\ rt.in_flight = {} /\ ~rt.has_sample
           f == [j \in DOMAIN c.jobs |->
                   IF j \notin demanded THEN ClearPending(c.jobs[j])
                   ELSE IF Lacking(c.jobs[j]) THEN MarkPending(c.jobs[j], s.now)
                   ELSE c.jobs[j]]
<1>1. Follows(s, c)
  BY CancelRunsSound DEF CancelReason
<1>2. RefreshDemand(s, cancelPageJobs) = [c EXCEPT !.jobs = f]
  BY DEF RefreshDemand
<1>3. s.now \in OptTime
  BY DEF Sound, IsState, OptTime
<1> HIDE DEF c, ended, demanded, Lacking
<1>4. IsState(c) /\ \A j \in DOMAIN c.jobs : c.jobs[j] \in JobRuntime
  BY <1>1, RuntimeOf DEF Follows, Sound, Jobs
<1>5. IsJobMap(f, JobRuntime)
  BY <1>3, <1>4, ClearPendingType, MarkPendingType DEF IsState, IsJobMap
<1>6. \A j \in DOMAIN f : f[j].in_flight = c.jobs[j].in_flight
  BY <1>4, MarkPendingRun
<1>7. Follows(c, [c EXCEPT !.jobs = f])
  BY <1>1, <1>5, <1>6, WithRuns DEF Follows
<1> QED BY <1>1, <1>2, <1>7, FollowsTransitive

(* refresh_all_demanded.                                                      *)
LEMMA RefreshAllDemandedSound ==
  ASSUME NEW s, Sound(s)
  PROVE  Follows(s, RefreshAllDemanded(s))
<1> DEFINE f == [j \in DOMAIN s.jobs |->
     IF j \in CurrentDemand(s) /\ ~IsHistory(s.jobs[j])
     THEN [MarkPending(s.jobs[j], s.now) EXCEPT !.retry_due = None] ELSE s.jobs[j]]
<1>1. IsState(s) /\ \A j \in DOMAIN s.jobs : s.jobs[j] \in JobRuntime
  BY RuntimeOf DEF Sound, Jobs
<1>2. s.now \in OptTime
  BY <1>1 DEF IsState, OptTime
<1>3. \A rt \in JobRuntime : /\ [rt EXCEPT !.retry_due = None] \in JobRuntime
                             /\ [rt EXCEPT !.retry_due = None].in_flight = rt.in_flight
  BY DEF JobRuntime, OptTime
<1>4. IsJobMap(f, JobRuntime) /\ DOMAIN f = DOMAIN s.jobs
  BY <1>1, <1>2, <1>3, MarkPendingType DEF IsState, IsJobMap
<1>5. \A j \in DOMAIN f : f[j].in_flight = s.jobs[j].in_flight
  <2>1. \A rt \in JobRuntime :
          [MarkPending(rt, s.now) EXCEPT !.retry_due = None].in_flight = rt.in_flight
    BY <1>2, <1>3, MarkPendingType, MarkPendingRun
  <2> QED BY <1>1, <2>1
<1>6. RefreshAllDemanded(s) = [s EXCEPT !.jobs = f]
  BY DEF RefreshAllDemanded
<1> HIDE DEF f
<1> QED BY <1>4, <1>5, <1>6, WithRuns

(* rebuild_first_paint_blockers.                                              *)
LEMMA RebuildFirstPaintBlockersSound ==
  ASSUME NEW s, Sound(s)
  PROVE  Follows(s, RebuildFirstPaintBlockers(s))
<1> DEFINE blockers == FirstPaintBlockers(s)
           rebuilt == [s EXCEPT !.first_paint_waiting = blockers]
<1>1. blockers \subseteq JobId
  BY RuntimeOf DEF FirstPaintBlockers, Sound
<1> HIDE DEF blockers
<1>2. IsState(rebuilt) /\ SameRuns(s, rebuilt) /\ SameEra(s, rebuilt)
  BY <1>1 DEF Sound, IsState, SameRuns, SameEra, Jobs
<1>3. Follows(s, rebuilt)
  BY <1>2, QuietSound
<1> HIDE DEF rebuilt
<1>4. Follows(rebuilt, IssueFirstPaint(rebuilt, "FirstPaintReady"))
  BY <1>3, IssueFirstPaintSound DEF Follows, PublishReason
<1>5. RebuildFirstPaintBlockers(s) \in {s, rebuilt, IssueFirstPaint(rebuilt, "FirstPaintReady")}
  BY DEF RebuildFirstPaintBlockers, rebuilt, blockers
<1> QED BY <1>3, <1>4, <1>5, FollowsSelf, FollowsTransitive

(* The deadlines process_time looks at before the jobs.                       *)
LEMMA ExpireSound ==
  ASSUME NEW s, Sound(s)
  PROVE  /\ Follows(s, ExpireDeactivation(s))
         /\ Follows(s, ExpireFirstPaint(s))
         /\ Follows(s, ExpireActivation(s))
         /\ Follows(s, ExpireDisplay(s))
<1>1. IsState(s)
  BY DEF Sound
<1>2. Follows(s, ExpireDeactivation(s))
  <2> DEFINE cleared == [s EXCEPT !.deactivation_deadline = None]
             hidden  == [cleared EXCEPT !.effective_presented = FALSE]
  <2>1. /\ IsState(cleared) /\ SameRuns(s, cleared) /\ SameEra(s, cleared)
        /\ IsState(hidden) /\ SameRuns(s, hidden) /\ SameEra(s, hidden)
    BY <1>1 DEF IsState, OptTime, SameRuns, SameEra, Jobs
  <2>2. Follows(s, cleared) /\ Follows(s, hidden)
    BY <2>1, QuietSound
  <2> HIDE DEF cleared, hidden
  <2>3. Follows(hidden, RefreshDemand(hidden, TRUE))
    BY <2>2, RefreshDemandSound DEF Follows
  <2>4. ExpireDeactivation(s) \in {s, cleared, RefreshDemand(hidden, TRUE)}
    BY DEF ExpireDeactivation, cleared, hidden
  <2>5. Follows(s, RefreshDemand(hidden, TRUE)) /\ Follows(s, s)
    BY <2>2, <2>3, FollowsTransitive, FollowsSelf
  <2> QED BY <2>2, <2>4, <2>5
<1>3. Follows(s, ExpireFirstPaint(s))
  BY IssueFirstPaintSound, FollowsSelf DEF ExpireFirstPaint, PublishReason
<1>4. Follows(s, ExpireActivation(s))
  <2> DEFINE ended == [s EXCEPT !.activation_deadline = None, !.activation_waiting = {}]
  <2>1. IsState(ended) /\ SameRuns(s, ended) /\ SameEra(s, ended)
    BY <1>1 DEF IsState, OptTime, SameRuns, SameEra, Jobs
  <2>2. Follows(s, ended)
    BY <2>1, QuietSound
  <2> HIDE DEF ended
  <2>3. Follows(ended, PublishTooltip(ended, "TooltipRefresh"))
    BY <2>2, PublishSound DEF Follows, PublishReason, OptTime
  <2>4. ExpireActivation(s) \in {s, PublishTooltip(ended, "TooltipRefresh")}
    BY DEF ExpireActivation, ended
  <2> QED BY <2>2, <2>3, <2>4, FollowsSelf, FollowsTransitive
<1>5. Follows(s, ExpireDisplay(s))
  <2>1. CASE s.first_paint_issued /\ Due(s.next_display, s.now)
    <3> DEFINE skipped == SkippedIntervals(s.next_display, s.display_interval, s.now)
               p == PublishFull(s, "DisplayDeadline", s.next_display, skipped)
               u == ExpireDisplay(s)
    <3>1. s.next_display \in OptTime /\ skipped \in Nat
      BY <1>1, <2>1, PolicyTypes DEF Due, IsState, OptTime
    <3>2. Follows(s, p)
      BY <3>1, PublishSound DEF PublishReason
    <3>3. u = [p EXCEPT !.next_display = AdvancePast(@, s.display_interval, s.now)]
      BY <2>1 DEF ExpireDisplay
    <3>4. IsState(u)
      BY <1>1, ExpireTypes
    <3> HIDE DEF p, u
    <3>5. SameRuns(p, u) /\ SameEra(p, u)
      BY <3>2, <3>3 DEF Follows, Sound, IsState, SameRuns, SameEra, Jobs
    <3>6. Follows(p, u)
      BY <3>2, <3>4, <3>5, QuietSound DEF Follows
    <3> QED BY <3>2, <3>6, FollowsTransitive DEF u
  <2>2. CASE ~(s.first_paint_issued /\ Due(s.next_display, s.now))
    BY <2>2, FollowsSelf DEF ExpireDisplay
  <2> QED BY <2>1, <2>2
<1> QED BY <1>2, <1>3, <1>4, <1>5

(* The due jobs of process_time.                                              *)
LEMMA MarkDueJobsSound ==
  ASSUME NEW s, Sound(s)
  PROVE  Follows(s, MarkDueJobs(s))
<1> DEFINE f == [j \in DOMAIN s.jobs |->
     IF j \in CurrentDemand(s)
     THEN DueRuntime(RetriedRuntime(s.jobs[j], s.now), SourceReady(s, s.jobs[j]), s.now)
     ELSE s.jobs[j]]
<1>1. IsState(s) /\ s.now \in Nat
  BY DEF Sound, IsState
<1>2. \A j \in DOMAIN s.jobs : s.jobs[j] \in JobRuntime
  BY <1>1, RuntimeOf DEF Jobs
<1>3. ASSUME NEW j \in DOMAIN s.jobs
      PROVE  DueRuntime(RetriedRuntime(s.jobs[j], s.now), SourceReady(s, s.jobs[j]), s.now)
               .in_flight = s.jobs[j].in_flight
  <2>1. SourceReady(s, s.jobs[j]) \in BOOLEAN
    BY <1>2 DEF SourceReady, JobRuntime, Jobs
  <2>2. RetriedRuntime(s.jobs[j], s.now) \in JobRuntime
    BY <1>1, <1>2, RetriedRuntimeType
  <2> QED BY <1>1, <1>2, <2>1, <2>2, DueRun
<1>4. MarkDueJobs(s) = [s EXCEPT !.jobs = f]
  BY DEF MarkDueJobs
<1>5. \A j \in DOMAIN f : f[j].in_flight = s.jobs[j].in_flight
  BY <1>3
<1>6. DOMAIN f = DOMAIN s.jobs
  OBVIOUS
<1>7. IsState(MarkDueJobs(s)) /\ MarkDueJobs(s).jobs = f
  BY <1>1, <1>4, MarkDueJobsType DEF IsState
<1> HIDE DEF f
<1>8. IsJobMap(f, JobRuntime)
  BY <1>7 DEF IsState
<1> QED BY <1>4, <1>5, <1>6, <1>8, WithRuns

(* process_time.                                                              *)
LEMMA ElapseSound ==
  ASSUME NEW s, Sound(s)
  PROVE  Follows(s, Elapse(s))
<1> DEFINE a == ExpireDeactivation(s)
           b == ExpireFirstPaint(a)
           c == ExpireActivation(b)
           d == ExpireDisplay(c)
<1>1. Follows(s, a)
  BY ExpireSound
<1> HIDE DEF a
<1>2. Follows(s, b)
  BY <1>1, ExpireSound, FollowsTransitive DEF Follows
<1> HIDE DEF b
<1>3. Follows(s, c)
  BY <1>2, ExpireSound, FollowsTransitive DEF Follows
<1> HIDE DEF c
<1>4. Follows(s, d)
  BY <1>3, ExpireSound, FollowsTransitive DEF Follows
<1> HIDE DEF d
<1>5. Follows(s, MarkDueJobs(d))
  BY <1>4, MarkDueJobsSound, FollowsTransitive DEF Follows
<1>6. Elapse(s) \in {s, MarkDueJobs(d)}
  BY DEF Elapse, ProcessTime, a, b, c, d
<1> QED BY <1>5, <1>6, FollowsSelf

-----------------------------------------------------------------------------
(* Dispatch.                                                                  *)

(* The order of dispatch is total: an owner has one first candidate.          *)
LEMMA ChosenAlone ==
  ASSUME NEW s, IsState(s), NEW i \in Chosen(s), NEW j \in Chosen(s),
         OwnerOf[i] = OwnerOf[j]
  PROVE  i = j
<1>1. i \in JobId /\ j \in JobId /\ i \in Candidates(s) /\ j \in Candidates(s)
  BY RuntimeOf DEF Chosen, Candidates
<1>2. ~Before(s, i, j) /\ ~Before(s, j, i)
  BY <1>1 DEF Chosen
<1>3. s.jobs[i].pending_since \in Int /\ s.jobs[j].pending_since \in Int
  BY RuntimeOf, <1>1 DEF Candidates, JobRuntime, OptTime, None
<1>4. JobRank[i] \in Nat /\ JobRank[j] \in Nat
  BY <1>1, JobsAssumption
<1>5. JobRank[i] = JobRank[j]
  BY <1>2, <1>3, <1>4 DEF Before
<1> QED BY <1>1, <1>5, JobsAssumption

(* dispatch gives each free owner one run, and no other owner any.            *)
LEMMA DispatchSound ==
  ASSUME NEW s, Sound(s)
  PROVE  Sound(Dispatch(s))
<1> DEFINE chosen == Chosen(s)
           Runs(o) == {RunOf(s, j) : j \in {k \in chosen : OwnerOf[k] = o}}
           f == [j \in DOMAIN s.jobs |->
                  IF j \in chosen
                  THEN [s.jobs[j] EXCEPT !.pending_since = None, !.pending_history = None,
                                         !.in_flight = {NewTicket(s, j)}]
                  ELSE s.jobs[j]]
           os == [o \in OwnerId |-> IF Runs(o) = {} THEN s.in_flight_owners[o]
                                    ELSE CHOOSE r \in Runs(o) : TRUE]
           next == s.next_run_id + Cardinality(chosen)
           as == s.actions \cup
                   {[kind |-> "StartJob", ticket |-> NewTicket(s, j)] : j \in chosen}
           started == {NewTicket(s, j) : j \in chosen}
           u == [s EXCEPT !.jobs = f, !.in_flight_owners = os, !.next_run_id = next,
                          !.actions = as]
<1>1. IsState(s) /\ Owned(s) /\ Era(s) /\ IsState(Dispatch(s))
  BY DispatchType DEF Sound
<1>2. \/ Dispatch(s) = s
      \/ Dispatch(s) = u /\ s.lifecycle = "Running"
  BY DEF Dispatch
<1>3. chosen \subseteq Jobs(s) /\ chosen \subseteq JobId
  BY <1>1, RuntimeOf DEF Chosen, Candidates
<1>4. ASSUME NEW j \in chosen
      PROVE  s.jobs[j].in_flight = {} /\ s.in_flight_owners[OwnerOf[j]] = 0 /\ OwnerOf[j] \in OwnerId
  BY <1>3, JobsAssumption DEF Chosen, Candidates
<1>5. ASSUME NEW j \in chosen
      PROVE  RunOf(s, j) \in Nat /\ RunOf(s, j) # 0
  <2>1. {k \in chosen : Before(s, k, j)} \subseteq chosen
    OBVIOUS
  <2>2. Cardinality({k \in chosen : Before(s, k, j)}) \in Nat
    BY <1>1, <2>1, RunOfType, FS_Subset, FS_CardinalityType
  <2>3. s.next_run_id \in Nat /\ s.next_run_id >= 1
    BY <1>1 DEF IsState, Owned
  <2> QED BY <2>2, <2>3 DEF RunOf
<1>6. /\ \A j : NewTicket(s, j).job = j /\ NewTicket(s, j).run = RunOf(s, j)
      /\ \A j : NewTicket(s, j).config = s.config_generation
      /\ \A j : NewTicket(s, j).inventory = s.inventory_generation
  BY DEF NewTicket
<1>7. \A j \in chosen : os[OwnerOf[j]] = RunOf(s, j)
  <2> SUFFICES ASSUME NEW j \in chosen PROVE os[OwnerOf[j]] = RunOf(s, j)
    OBVIOUS
  <2>1. {k \in chosen : OwnerOf[k] = OwnerOf[j]} = {j}
    BY <1>1, ChosenAlone
  <2>2. Runs(OwnerOf[j]) = {RunOf(s, j)}
    BY <2>1
  <2> QED BY <1>4, <2>2
<1>8. \A o \in OwnerId : (\A j \in chosen : OwnerOf[j] # o) => os[o] = s.in_flight_owners[o]
  <2> SUFFICES ASSUME NEW o \in OwnerId, \A j \in chosen : OwnerOf[j] # o
               PROVE  os[o] = s.in_flight_owners[o]
    OBVIOUS
  <2>1. Runs(o) = {}
    OBVIOUS
  <2> QED BY <2>1
<1>9. /\ DOMAIN f = Jobs(s)
      /\ \A j \in Jobs(s) : f[j].in_flight = IF j \in chosen THEN {NewTicket(s, j)}
                                             ELSE s.jobs[j].in_flight
  <2>1. \A rt \in JobRuntime : \A t :
          [rt EXCEPT !.pending_since = None, !.pending_history = None, !.in_flight = {t}]
            .in_flight = {t}
    BY DEF JobRuntime
  <2> QED BY <1>1, <2>1, RuntimeOf DEF Jobs
<1>10. next \in Nat /\ next >= 1
  BY <1>1, RunOfType DEF IsState, Owned
<1> HIDE DEF chosen, f, os, next, as
<1>11. /\ u.jobs = f /\ u.in_flight_owners = os /\ u.next_run_id = next
       /\ u.cancelling = s.cancelling /\ SameEra(s, u)
  BY <1>1 DEF IsState, SameEra
<1> HIDE DEF u
<1>12. InFlight(u) = InFlight(s) \cup started
  <2>1. Jobs(u) = Jobs(s) /\ \A j \in Jobs(s) : u.jobs[j].in_flight = f[j].in_flight
    BY <1>9, <1>11 DEF Jobs
  <2>2. \A t : t \in InFlight(u) <=> \E j \in Jobs(s) : t \in f[j].in_flight
    BY <2>1 DEF InFlight
  <2>3. \A t : t \in InFlight(s) <=> \E j \in Jobs(s) : t \in s.jobs[j].in_flight
    BY DEF InFlight
  <2>4. \A t : t \in started <=> \E j \in chosen : t = NewTicket(s, j)
    OBVIOUS
  <2> HIDE DEF started
  <2>5. ASSUME NEW t
        PROVE  t \in InFlight(u) <=> t \in InFlight(s) \/ t \in started
    <3>1. ASSUME t \in InFlight(u) PROVE t \in InFlight(s) \/ t \in started
      <4>1. PICK j \in Jobs(s) : t \in f[j].in_flight
        BY <2>2, <3>1
      <4>2. CASE j \in chosen
        BY <1>9, <2>4, <4>1, <4>2
      <4>3. CASE j \notin chosen
        BY <1>9, <2>3, <4>1, <4>3
      <4> QED BY <4>2, <4>3
    <3>2. ASSUME t \in InFlight(s) PROVE t \in InFlight(u)
      BY <1>4, <1>9, <2>2, <2>3, <3>2
    <3>3. ASSUME t \in started PROVE t \in InFlight(u)
      BY <1>3, <1>9, <2>2, <2>4, <3>3
    <3> QED BY <3>1, <3>2, <3>3
  <2> QED BY <2>5
<1>13. Live(u) = Live(s) \cup started
  BY <1>11, <1>12 DEF Live
<1>14. \A t \in Live(s) : \A j \in chosen : OwnerOf[t.job] # OwnerOf[j]
  BY <1>1, <1>4 DEF Owned
<1>15. \A t \in started : t.job \in chosen /\ t = NewTicket(s, t.job)
  BY <1>6
<1> HIDE DEF started
<1>16. Owned(u)
  <2>1. \A j \in Jobs(u) : \A t \in u.jobs[j].in_flight : t.job = j
    <3> SUFFICES ASSUME NEW j \in Jobs(s), NEW t \in f[j].in_flight PROVE t.job = j
      BY <1>9, <1>11 DEF Jobs
    <3>1. CASE j \in chosen
      BY <1>6, <1>9, <3>1
    <3>2. CASE j \notin chosen
      BY <1>1, <1>9, <3>2 DEF Owned
    <3> QED BY <3>1, <3>2
  <2>2. \A t \in Live(u) : t.run # 0 /\ os[OwnerOf[t.job]] = t.run
    <3>1. \A t \in started : t.run # 0 /\ os[OwnerOf[t.job]] = t.run
      BY <1>5, <1>6, <1>7, <1>15
    <3>2. \A t \in Live(s) : OwnerOf[t.job] \in OwnerId
      <4>1. \A t \in Live(s) : t \in Ticket
        BY <1>1, LiveTickets
      <4> QED BY <4>1, JobsAssumption DEF Ticket
    <3>3. \A t \in Live(s) : t.run # 0 /\ os[OwnerOf[t.job]] = t.run
      BY <1>1, <1>8, <1>14, <3>2 DEF Owned
    <3> QED BY <1>13, <3>1, <3>3
  <2>3. \A t, v \in Live(u) : OwnerOf[t.job] = OwnerOf[v.job] => t = v
    <3>1. \A t, v \in started : OwnerOf[t.job] = OwnerOf[v.job] => t = v
      BY <1>1, <1>15, ChosenAlone DEF chosen
    <3>2. \A t \in Live(s), v \in started : OwnerOf[t.job] # OwnerOf[v.job]
      BY <1>14, <1>15
    <3> QED BY <1>1, <1>13, <3>1, <3>2 DEF Owned
  <2>4. \A o \in OwnerId : os[o] # 0 => \E t \in Live(u) : OwnerOf[t.job] = o
    <3> SUFFICES ASSUME NEW o \in OwnerId, os[o] # 0
                 PROVE  \E t \in Live(u) : OwnerOf[t.job] = o
      OBVIOUS
    <3>1. CASE \E j \in chosen : OwnerOf[j] = o
      BY <1>6, <1>13, <3>1 DEF started
    <3>2. CASE \A j \in chosen : OwnerOf[j] # o
      BY <1>1, <1>8, <1>13, <3>2 DEF Owned
    <3> QED BY <3>1, <3>2
  <2>5. InFlight(u) \cap u.cancelling = {}
    <3>1. started \cap s.cancelling = {}
      BY <1>14, <1>15 DEF Live
    <3> QED BY <1>1, <1>11, <1>12, <3>1 DEF Owned
  <2> QED BY <1>10, <1>11, <2>1, <2>2, <2>3, <2>4, <2>5 DEF Owned
<1>17. s.lifecycle = "Running" => Era(u)
  BY <1>1, <1>6, <1>11, <1>12, <1>15 DEF Era, SameEra
<1> QED BY <1>1, <1>2, <1>16, <1>17 DEF Sound

-----------------------------------------------------------------------------
(* Handlers.                                                                  *)

(* What a completion publishes.                                               *)
LEMMA CompleteSound ==
  ASSUME NEW s, Sound(s)
  PROVE  Follows(s, CompleteFirstPaint(s)) /\ Follows(s, CompleteActivation(s))
<1> DEFINE ended == [s EXCEPT !.activation_deadline = None]
<1>1. Follows(s, CompleteFirstPaint(s))
  BY IssueFirstPaintSound, FollowsSelf DEF CompleteFirstPaint, PublishReason
<1>2. IsState(ended) /\ SameRuns(s, ended) /\ SameEra(s, ended)
  BY DEF Sound, IsState, OptTime, SameRuns, SameEra, Jobs
<1>3. Follows(s, ended)
  BY <1>2, QuietSound
<1> HIDE DEF ended
<1>4. Follows(ended, PublishTooltip(ended, "TooltipRefresh"))
  BY <1>3, PublishSound DEF Follows, PublishReason, OptTime
<1>5. Follows(s, PublishTooltip(ended, "TooltipRefresh")) /\ Follows(s, s)
  BY <1>3, <1>4, FollowsTransitive, FollowsSelf
<1>6. CompleteActivation(s) \in {s, PublishTooltip(ended, "TooltipRefresh")}
  BY DEF CompleteActivation, ended
<1> QED BY <1>1, <1>5, <1>6

(* The histories of a source that is gone keep their runs.                    *)
LEMMA InvalidateHistoriesSound ==
  ASSUME NEW s, Sound(s), NEW source
  PROVE  Follows(s, InvalidateHistories(s, source))
<1> DEFINE u == InvalidateHistories(s, source)
<1>1. IsState(s) /\ IsState(u)
  BY InvalidateHistoriesType DEF Sound
<1>2. \A rt \in JobRuntime :
        [rt EXCEPT !.has_sample = FALSE, !.pending_since = None, !.pending_history = None]
          .in_flight = rt.in_flight
  BY DEF JobRuntime
<1>3. SameRuns(s, u) /\ SameEra(s, u)
  BY <1>1, <1>2, RuntimeOf DEF InvalidateHistories, IsState, SameRuns, SameEra, Jobs
<1> QED BY <1>1, <1>3, QuietSound

(* The run that ends was the only one of its owner, so the owner is free.     *)
LEMMA ReleaseOwned ==
  ASSUME NEW s, Owned(s), NEW t \in Ticket, t \in Live(s), NEW u,
         Live(u) = Live(s) \ {t}, InFlight(u) \cap u.cancelling = {},
         \A j \in Jobs(u) : \A v \in u.jobs[j].in_flight : v.job = j,
         u.next_run_id = s.next_run_id, s.in_flight_owners \in [OwnerId -> Nat],
         u.in_flight_owners = [s.in_flight_owners EXCEPT ![OwnerOf[t.job]] = 0],
         \A v \in Live(s) : v \in Ticket
  PROVE  Owned(u)
<1> DEFINE o == OwnerOf[t.job]
<1>1. \A v \in Live(u) : OwnerOf[v.job] # o /\ OwnerOf[v.job] \in OwnerId
  BY JobsAssumption DEF Owned, Ticket
<1>2. o \in OwnerId
  BY JobsAssumption DEF Ticket
<1>3. /\ u.in_flight_owners[o] = 0
      /\ \A p \in OwnerId \ {o} : u.in_flight_owners[p] = s.in_flight_owners[p]
  BY <1>2
<1>4. \A v \in Live(u) : v.run # 0 /\ u.in_flight_owners[OwnerOf[v.job]] = v.run
  BY <1>1, <1>3 DEF Owned
<1>5. \A p \in OwnerId : u.in_flight_owners[p] # 0 => \E v \in Live(u) : OwnerOf[v.job] = p
  BY <1>2, <1>3 DEF Owned
<1>6. \A v, w \in Live(u) : OwnerOf[v.job] = OwnerOf[w.job] => v = w
  BY DEF Owned
<1> QED BY <1>4, <1>5, <1>6 DEF Owned

(* finish_job, up to what follows for other jobs.                             *)
Released(s, t, completion, ready) ==
  LET notifies == ready /\ s.notifications_armed /\ ~IsHistory(s.jobs[t.job])
  IN  [s EXCEPT
        !.jobs = [j \in DOMAIN @ |-> IF j = t.job THEN CompletedRuntime(@[j], completion, s.now)
                                     ELSE @[j]],
        !.in_flight_owners = [@ EXCEPT ![OwnerOf[t.job]] = 0],
        !.first_paint_waiting = @ \ {t.job},
        !.activation_waiting = @ \ {t.job},
        !.actions = @ \cup IF notifies THEN {[kind |-> "EvaluateNotifications", ticket |-> t]}
                           ELSE {}]

Settling(s, t, completion, ready) ==
  LET released == Released(s, t, completion, ready)
  IN  IF completion = "ConfirmedAbsent" THEN InvalidateHistories(released, t.job) ELSE released

LEMMA ReleasedSound ==
  ASSUME NEW s, Sound(s), NEW t \in Ticket, CurrentTicket(s, t),
         NEW completion \in Completions, NEW ready
  PROVE  /\ Sound(Released(s, t, completion, ready))
         /\ s.jobs[t.job].in_flight = {t}
<1> DEFINE job == t.job
           notifies == ready /\ s.notifications_armed /\ ~IsHistory(s.jobs[job])
           f == [j \in DOMAIN s.jobs |->
                  IF j = job THEN CompletedRuntime(s.jobs[j], completion, s.now)
                  ELSE s.jobs[j]]
           os == [s.in_flight_owners EXCEPT ![OwnerOf[job]] = 0]
           fp == s.first_paint_waiting \ {job}
           aw == s.activation_waiting \ {job}
           as == s.actions \cup
                   IF notifies THEN {[kind |-> "EvaluateNotifications", ticket |-> t]} ELSE {}
           released == [s EXCEPT !.jobs = f, !.in_flight_owners = os,
                                 !.first_paint_waiting = fp, !.activation_waiting = aw,
                                 !.actions = as]
<1>1. IsState(s) /\ Owned(s) /\ Era(s)
  BY DEF Sound
<1>2. IsJobMap(f, JobRuntime)
  BY <1>1, CompletedRuntimeType DEF IsState, IsJobMap
<1>3. os \in [OwnerId -> Nat]
  BY <1>1 DEF IsState
<1>4. fp \subseteq JobId /\ aw \subseteq JobId
  BY <1>1 DEF IsState
<1>5. as \subseteq Action
  <2>1. [kind |-> "EvaluateNotifications", ticket |-> t] \in Action
    BY DEF Action
  <2> QED BY <1>1, <2>1 DEF IsState
<1>6. job \in Jobs(s) /\ t \in s.jobs[job].in_flight
  BY DEF CurrentTicket
<1>7. /\ f[job].in_flight = {}
      /\ \A j \in Jobs(s) \ {job} : f[j].in_flight = s.jobs[j].in_flight
      /\ DOMAIN f = Jobs(s)
  <2>1. \A rt \in JobRuntime : CompletedRuntime(rt, completion, s.now).in_flight = {}
    BY DEF CompletedRuntime, Completions, JobRuntime
  <2> QED BY <1>1, <1>6, <2>1, RuntimeOf DEF Jobs
<1> HIDE DEF f, os, fp, aw, as
<1>8. IsState(released)
  BY <1>1, <1>2, <1>3, <1>4, <1>5 DEF IsState
<1>9. /\ released.jobs = f /\ released.in_flight_owners = os
      /\ released.cancelling = s.cancelling /\ released.next_run_id = s.next_run_id
      /\ SameEra(s, released)
  BY <1>1 DEF IsState, SameEra
<1> HIDE DEF released
<1>10. t \in InFlight(s) /\ t \in Live(s) /\ t \notin s.cancelling
  BY <1>1, <1>6 DEF InFlight, Live, Owned
<1>11. s.jobs[job].in_flight = {t}
  <2>1. \A v \in s.jobs[job].in_flight : v \in Live(s) /\ v.job = job
    BY <1>1, <1>6 DEF Live, InFlight, Owned
  <2> QED BY <1>1, <1>6, <1>10, <2>1 DEF Owned
<1>12. InFlight(released) = InFlight(s) \ {t}
  <2>1. \A j \in Jobs(s) : t \in s.jobs[j].in_flight => j = job
    BY <1>1 DEF Owned
  <2>2. \A j \in Jobs(s) : f[j].in_flight = s.jobs[j].in_flight \ {t}
    BY <1>7, <1>11, <2>1
  <2> QED BY <1>7, <1>9, <2>2 DEF InFlight, Jobs
<1>13. Live(released) = Live(s) \ {t}
  BY <1>9, <1>10, <1>12 DEF Live
<1>14. \A j \in Jobs(released) : \A v \in released.jobs[j].in_flight : v.job = j
  BY <1>1, <1>7, <1>9 DEF Owned, Jobs
<1>15. InFlight(released) \cap released.cancelling = {}
  BY <1>1, <1>9, <1>12 DEF Owned
<1>16. s.in_flight_owners \in [OwnerId -> Nat] /\ \A v \in Live(s) : v \in Ticket
  BY <1>1, LiveTickets DEF IsState
<1>17. Owned(released)
  BY <1>1, <1>9, <1>10, <1>13, <1>14, <1>15, <1>16, ReleaseOwned DEF os
<1>18. Sound(released)
  BY <1>1, <1>8, <1>9, <1>12, <1>17 DEF Sound, Era, SameEra
<1> QED BY <1>11, <1>18 DEF Released, released, f, os, fp, aw, as

(* finish_job.                                                                *)
LEMMA FinishJobSound ==
  ASSUME NEW s, Sound(s), NEW t \in Ticket, CurrentTicket(s, t),
         NEW completion \in Completions, NEW ready
  PROVE  /\ Sound(Settling(s, t, completion, ready))
         /\ Sound(FinishJob(s, t, completion, ready))
<1> DEFINE released == Released(s, t, completion, ready)
           settled == Settling(s, t, completion, ready)
<1>1. Sound(released)
  BY ReleasedSound
<1>2. settled \in {released, InvalidateHistories(released, t.job)}
  BY DEF Settling
<1> HIDE DEF released, settled
<1>3. Sound(settled)
  BY <1>1, <1>2, InvalidateHistoriesSound DEF Follows
<1>4. Sound(CompleteActivation(CompleteFirstPaint(settled)))
  BY <1>3, CompleteSound DEF Follows
<1>5. FinishJob(s, t, completion, ready) = CompleteActivation(CompleteFirstPaint(settled))
  BY DEF FinishJob, settled, Settling, Released
<1> QED BY <1>3, <1>4, <1>5 DEF settled

(* finish_cancellation.                                                       *)
LEMMA FinishCancellationSound ==
  ASSUME NEW s, Sound(s), NEW t \in s.cancelling
  PROVE  Sound(FinishCancellation(s, t))
<1> DEFINE u == FinishCancellation(s, t)
<1>1. IsState(s) /\ Owned(s) /\ Era(s) /\ IsState(u)
  BY FinishCancellationType DEF Sound
<1>2. t \in Ticket /\ t \in Live(s) /\ s.in_flight_owners \in [OwnerId -> Nat]
  BY <1>1 DEF IsState, Live
<1>3. s.in_flight_owners[OwnerOf[t.job]] = t.run
  BY <1>1, <1>2 DEF Owned
<1>4. /\ u.jobs = s.jobs /\ u.next_run_id = s.next_run_id
      /\ u.cancelling = s.cancelling \ {t} /\ SameEra(s, u)
      /\ u.in_flight_owners = [s.in_flight_owners EXCEPT ![OwnerOf[t.job]] = 0]
  BY <1>1, <1>3 DEF FinishCancellation, IsState, SameEra
<1> HIDE DEF u
<1>5. InFlight(u) = InFlight(s)
  BY <1>4 DEF InFlight, Jobs
<1>6. Live(u) = Live(s) \ {t}
  BY <1>1, <1>4, <1>5 DEF Live, Owned
<1>7. InFlight(u) \cap u.cancelling = {}
  BY <1>1, <1>4, <1>5 DEF Owned
<1>8. \A j \in Jobs(u) : \A v \in u.jobs[j].in_flight : v.job = j
  BY <1>1, <1>4 DEF Owned, Jobs
<1>9. \A v \in Live(s) : v \in Ticket
  BY <1>1, LiveTickets
<1>10. Owned(u)
  BY <1>1, <1>2, <1>4, <1>6, <1>7, <1>8, <1>9, ReleaseOwned
<1>11. Era(u)
  BY <1>1, <1>4, <1>5 DEF Era, SameEra
<1> QED BY <1>1, <1>10, <1>11 DEF Sound, u

(* With nothing in flight the jobs, the generations and the lifecycle may     *)
(* change at will.                                                            *)
LEMMA IdleSound ==
  ASSUME NEW s, Owned(s), InFlight(s) = {}, NEW u, IsState(u),
         \A j \in Jobs(u) : u.jobs[j].in_flight = {},
         u.cancelling = s.cancelling, u.next_run_id = s.next_run_id,
         u.in_flight_owners = s.in_flight_owners
  PROVE  Sound(u)
<1>1. InFlight(u) = {}
  BY DEF InFlight
<1>2. Live(u) = Live(s)
  BY <1>1 DEF Live
<1>3. Owned(u)
  BY <1>1, <1>2 DEF Owned
<1> QED BY <1>1, <1>3 DEF Sound, Era

(* resume finds nothing in flight: suspending cancelled it.                   *)
LEMMA ResumeRunningSound ==
  ASSUME NEW s, Sound(s), s.lifecycle # "Running"
  PROVE  Sound(ResumeRunning(s))
<1> DEFINE display  == s.now + s.display_interval
           running  == [s EXCEPT !.lifecycle = "Running", !.next_display = display]
           anchored == ReanchorFast(running)
           u        == ResumeRunning(s)
<1>1. IsState(s) /\ Owned(s) /\ InFlight(s) = {}
  BY DEF Sound, Era
<1>2. display \in OptTime
  BY <1>1 DEF IsState, OptTime
<1> HIDE DEF display
<1>3. IsState(running)
  BY <1>1, <1>2 DEF IsState, Lifecycle
<1>4. SameRuns(s, running)
  BY <1>1 DEF IsState, SameRuns, Jobs
<1> HIDE DEF running
<1>5. Owned(running) /\ InFlight(running) = {}
  BY <1>1, <1>4, QuietOwned
<1>6. Sound(running)
  BY <1>3, <1>5 DEF Sound, Era
<1>7. Sound(anchored)
  BY <1>6, ReanchorFastSound DEF Follows
<1>8. IsState(anchored) /\ Owned(anchored)
  BY <1>7 DEF Sound
<1>9. InFlight(anchored) = {}
  <2>1. SameRuns(running, anchored)
    <3>1. \A rt \in JobRuntime : \A d : [rt EXCEPT !.nominal_due = d].in_flight = rt.in_flight
      BY DEF JobRuntime
    <3> QED BY <1>3, <3>1, RuntimeOf DEF ReanchorFast, IsState, SameRuns, Jobs
  <2> QED BY <1>5, <2>1, QuietOwned
<1> HIDE DEF anchored
<1>10. IsState(u)
  BY <1>1, ResumeRunningType
<1>11. /\ u.jobs = [j \in DOMAIN anchored.jobs |-> ResumedRuntime(anchored, j, CurrentDemand(s))]
       /\ u.cancelling = anchored.cancelling /\ u.next_run_id = anchored.next_run_id
       /\ u.in_flight_owners = anchored.in_flight_owners
  BY <1>8 DEF ResumeRunning, IsState, anchored, running, display
<1> HIDE DEF u
<1>12. \A j \in Jobs(anchored) :
         ResumedRuntime(anchored, j, CurrentDemand(s)).in_flight = {}
  <2>1. \A j \in Jobs(anchored) :
          anchored.jobs[j] \in JobRuntime /\ anchored.jobs[j].in_flight = {}
    BY <1>8, <1>9, RuntimeOf DEF InFlight
  <2> QED BY <2>1 DEF ResumedRuntime, JobRuntime
<1>13. \A j \in Jobs(u) : u.jobs[j].in_flight = {}
  BY <1>11, <1>12 DEF Jobs
<1>14. Sound(u)
  BY <1>8, <1>9, <1>10, <1>11, <1>13, IdleSound
<1> QED BY <1>14 DEF u

(* stop and suspend cancel everything first.                                  *)
LEMMA HaltSound ==
  ASSUME NEW s, Sound(s), NEW reason \in {"Shutdown", "CriticalFailure"}
  PROVE  /\ Sound(Stop(s, reason))
         /\ Sound([CancelAll(s, "Suspend") EXCEPT !.lifecycle = "Suspended"])
<1>1. IsState(s) /\ Owned(s)
  BY DEF Sound
<1>2. Sound(Stop(s, reason))
  <2> DEFINE c == CancelAll(s, reason)
             u == Stop(s, reason)
  <2>1. IsState(c) /\ Owned(c) /\ InFlight(c) = {}
    BY <1>1, CancelAllOwned DEF CancelReason
  <2>2. IsState(u)
    BY <1>1, StopType
  <2>3. u = [c EXCEPT !.lifecycle = "Stopped", !.actions = @ \cup {[kind |-> "Terminate"]}]
    BY DEF Stop
  <2> HIDE DEF c, u
  <2>4. SameRuns(c, u)
    BY <2>1, <2>3 DEF IsState, SameRuns, Jobs
  <2>5. Sound(u)
    BY <2>1, <2>2, <2>4, QuietOwned DEF Sound, Era
  <2> QED BY <2>5 DEF u
<1>3. Sound([CancelAll(s, "Suspend") EXCEPT !.lifecycle = "Suspended"])
  <2> DEFINE c == CancelAll(s, "Suspend")
             u == [c EXCEPT !.lifecycle = "Suspended"]
  <2>1. IsState(c) /\ Owned(c) /\ InFlight(c) = {}
    BY <1>1, CancelAllOwned DEF CancelReason
  <2> HIDE DEF c
  <2>2. IsState(u)
    BY <2>1 DEF IsState, Lifecycle
  <2>3. SameRuns(c, u)
    BY <2>1 DEF IsState, SameRuns, Jobs
  <2> HIDE DEF u
  <2>4. Sound(u)
    BY <2>1, <2>2, <2>3, QuietOwned DEF Sound, Era
  <2> QED BY <2>4 DEF u, c
<1> QED BY <1>2, <1>3

(* startup.                                                                   *)
LEMMA StartSound ==
  ASSUME NEW s, Sound(s), s.lifecycle = "Unstarted", NEW plan \in Plans
  PROVE  Sound(Start(s, plan))
<1> DEFINE display == s.now + plan.display_interval
           paint   == s.now + FIRST_PAINT_TIMEOUT
           f == [j \in DOMAIN plan.jobs |-> NewRuntime(plan.jobs[j], s.now, display)]
           started == [s EXCEPT
             !.lifecycle = "Running", !.config_generation = 1, !.inventory_generation = 1,
             !.display_interval = plan.display_interval, !.demand = plan.demand,
             !.next_display = display, !.first_paint_deadline = paint, !.jobs = f]
           demanded == {j \in Jobs(started) \cap CurrentDemand(started) :
                          ~IsHistory(started.jobs[j])}
           waiting == {j \in demanded : StartupPanel(started.jobs[j])}
           m == MarkJobs(started, demanded)
           w == [m EXCEPT !.first_paint_waiting = waiting]
<1>1. IsState(s) /\ Owned(s) /\ InFlight(s) = {}
  BY DEF Sound, Era
<1>2. display \in Nat /\ paint \in Nat
  BY <1>1, PlanType, TimesAssumption DEF IsState
<1>3. IsJobMap(f, JobRuntime)
  BY <1>1, <1>2, PlanType, NewRuntimeType DEF IsJobMap, IsState
<1>4. \A j \in DOMAIN f : f[j].in_flight = {}
  BY DEF NewRuntime
<1> HIDE DEF f, display, paint
<1>5. IsState(started)
  BY <1>1, <1>2, <1>3, PlanType DEF IsState, OptTime, Lifecycle
<1>6. /\ started.jobs = f /\ started.cancelling = s.cancelling
      /\ started.next_run_id = s.next_run_id
      /\ started.in_flight_owners = s.in_flight_owners
  BY <1>1 DEF IsState
<1> HIDE DEF started
<1>7. Sound(started)
  BY <1>1, <1>4, <1>5, <1>6, IdleSound DEF Jobs
<1>8. waiting \subseteq JobId
  BY <1>5, RuntimeOf
<1> HIDE DEF demanded, waiting
<1>9. Sound(m)
  BY <1>7, MarkJobsSound DEF Follows
<1> HIDE DEF m
<1>10. IsState(w) /\ SameRuns(m, w) /\ SameEra(m, w)
  BY <1>8, <1>9 DEF Sound, IsState, SameRuns, SameEra, Jobs
<1>11. Sound(w)
  BY <1>9, <1>10, QuietSound DEF Follows
<1> HIDE DEF w
<1>12. Sound(CompleteFirstPaint(w))
  BY <1>11, CompleteSound DEF Follows
<1> QED BY <1>12 DEF Start, w, m, waiting, demanded, started, f, display, paint

(* reconfigure: the new generation begins with nothing in flight.             *)
LEMMA ReconfigureSound ==
  ASSUME NEW s, Sound(s), NEW plan \in Plans
  PROVE  Sound(Reconfigure(s, plan))
<1> DEFINE generation == s.config_generation + 1
           display == s.now + plan.display_interval
           adopted == [s EXCEPT !.config_generation = generation,
                                !.display_interval = plan.display_interval,
                                !.demand = plan.demand, !.next_display = display]
           replaced == ReplaceJobs(adopted, plan.jobs, "ConfigChanged")
           demanded == RefreshDemand(ReanchorFast(replaced), FALSE)
           marked == MarkJobs(demanded, CurrentDemand(demanded) \cap Discovery)
           published == PublishFull(marked, "ConfigChanged", None, 0)
<1>1. IsState(s) /\ Owned(s) /\ generation \in Nat /\ display \in OptTime
  BY PlanType DEF Sound, IsState, OptTime
<1> HIDE DEF generation, display
<1>2. IsState(adopted)
  BY <1>1, PlanType DEF IsState
<1>3. SameRuns(s, adopted)
  BY <1>1 DEF IsState, SameRuns, Jobs
<1> HIDE DEF adopted
<1>4. Owned(adopted)
  BY <1>1, <1>3, QuietOwned
<1>5. Sound(replaced)
  BY <1>2, <1>4, PlanType, ReplaceJobsSound DEF CancelReason
<1> HIDE DEF replaced
<1>6. Sound(demanded)
  BY <1>5, ReanchorFastSound, RefreshDemandSound DEF Follows
<1> HIDE DEF demanded
<1>7. Sound(marked)
  BY <1>6, MarkJobsSound DEF Follows
<1> HIDE DEF marked
<1>8. Sound(published)
  BY <1>7, PublishSound DEF Follows, PublishReason, OptTime
<1> QED BY <1>7, <1>8
        DEF Reconfigure, marked, demanded, replaced, adopted, generation, display

(* change_inventory, likewise.                                                *)
LEMMA ChangeInventorySound ==
  ASSUME NEW s, Sound(s), NEW plan \in Plans, NEW acknowledged
  PROVE  Sound(ChangeInventory(s, plan, acknowledged))
<1> DEFINE resumes  == acknowledged = s.awaiting_resume_inventory /\ acknowledged # 0
           before   == CurrentDemand(s)
           generation == s.inventory_generation + 1
           adopted  == [s EXCEPT !.inventory_generation = generation, !.demand = plan.demand]
           replaced == ReplaceJobs(adopted, plan.jobs, "SourceReplaced")
           freed    == [replaced EXCEPT !.awaiting_resume_inventory = 0]
           released == IF resumes THEN freed ELSE replaced
           active   == ActivateJobs(released, before, CurrentDemand(released),
                                    released.effective_presented)
           activated == RefreshDemand(active, FALSE)
<1>1. IsState(s) /\ Owned(s) /\ generation \in Nat
  BY DEF Sound, IsState
<1> HIDE DEF generation
<1>2. IsState(adopted)
  BY <1>1, PlanType DEF IsState
<1>3. SameRuns(s, adopted)
  BY <1>1 DEF IsState, SameRuns, Jobs
<1> HIDE DEF adopted
<1>4. Owned(adopted)
  BY <1>1, <1>3, QuietOwned
<1>5. Sound(replaced)
  BY <1>2, <1>4, PlanType, ReplaceJobsSound DEF CancelReason
<1> HIDE DEF replaced, resumes
<1>6. IsState(freed) /\ SameRuns(replaced, freed) /\ SameEra(replaced, freed)
  BY <1>5 DEF Sound, IsState, SameRuns, SameEra, Jobs
<1>7. Sound(released) /\ released.effective_presented \in BOOLEAN
  <2>1. Sound(freed)
    BY <1>5, <1>6, QuietSound DEF Follows
  <2>2. Sound(released)
    BY <1>5, <2>1
  <2> QED BY <2>2 DEF Sound, IsState
<1> HIDE DEF released
<1>8. Sound(activated)
  BY <1>7, ActivateJobsSound, RefreshDemandSound DEF Follows
<1> HIDE DEF activated
<1>9. Sound(RefreshAllDemanded(activated))
  BY <1>8, RefreshAllDemandedSound DEF Follows
<1> QED BY <1>8, <1>9
        DEF ChangeInventory, activated, released, replaced, resumes, adopted, generation

(* change_demand.                                                             *)
LEMMA ChangeDemandSound ==
  ASSUME NEW s, Sound(s), NEW demand \in DemandPlan
  PROVE  Sound(ChangeDemand(s, demand))
<1> DEFINE before == CurrentDemand(s)
           moved  == [s EXCEPT !.demand = demand]
           after  == CurrentDemand(moved)
           ended  == CancelDemandEnded(moved, before, after)
           active == ActivateJobs(ended, before, after, s.effective_presented)
<1>1. IsState(s) /\ s.effective_presented \in BOOLEAN
  BY DEF Sound, IsState
<1>2. IsState(moved) /\ SameRuns(s, moved) /\ SameEra(s, moved)
  BY <1>1 DEF IsState, SameRuns, SameEra, Jobs
<1>3. Sound(moved)
  BY <1>2, QuietSound DEF Follows
<1>4. Sound(ended)
  BY <1>3, CancelDemandEndedSound DEF Follows
<1>5. Sound(active)
  BY <1>1, <1>4, ActivateJobsSound DEF Follows
<1>6. Sound(RebuildFirstPaintBlockers(RefreshDemand(active, FALSE)))
  BY <1>5, RefreshDemandSound, RebuildFirstPaintBlockersSound DEF Follows
<1> QED BY <1>6 DEF ChangeDemand

(* refresh_activation.                                                        *)
LEMMA RefreshActivationSound ==
  ASSUME NEW s, Sound(s)
  PROVE  Sound(RefreshActivation(s))
<1> DEFINE amd == {j \in Jobs(s) : s.jobs[j].spec.amd \in WideAmd}
           waiting == s.activation_waiting \cup amd
           deadline == s.now + ACTIVATION_REFRESH_TIMEOUT
           m == MarkJobs(s, amd)
           marked == [m EXCEPT !.activation_waiting = waiting]
           awaited == [marked EXCEPT !.activation_deadline = deadline]
<1>1. waiting \subseteq JobId /\ deadline \in OptTime
  BY RuntimeOf, TimesAssumption DEF Sound, IsState, OptTime
<1>2. Sound(m)
  BY MarkJobsSound DEF Follows
<1> HIDE DEF amd, waiting, deadline, m
<1>3. IsState(marked) /\ SameRuns(m, marked) /\ SameEra(m, marked)
  BY <1>1, <1>2 DEF Sound, IsState, SameRuns, SameEra, Jobs
<1>4. Sound(marked)
  BY <1>2, <1>3, QuietSound DEF Follows
<1> HIDE DEF marked
<1>5. IsState(awaited) /\ SameRuns(marked, awaited) /\ SameEra(marked, awaited)
  BY <1>1, <1>4 DEF Sound, IsState, SameRuns, SameEra, Jobs
<1>6. Sound(awaited)
  BY <1>4, <1>5, QuietSound DEF Follows
<1>7. Sound(PublishTooltip(marked, "TooltipActivated"))
  BY <1>4, PublishSound DEF Follows, PublishReason, OptTime
<1> QED BY <1>4, <1>6, <1>7 DEF RefreshActivation, marked, m, amd, waiting, deadline

(* change_presentation.                                                       *)
LEMMA PresentationSound ==
  ASSUME NEW s, Sound(s)
  PROVE  Sound(Present(s)) /\ Sound(Dismiss(s))
<1>1. IsState(s)
  BY DEF Sound
<1>2. Sound(Present(s))
  <2> DEFINE shown == [s EXCEPT !.presented = TRUE, !.deactivation_deadline = None,
                                !.effective_presented = TRUE]
             hidden == Demanded(s.demand, FALSE, s.selected_page)
             activated == IF s.effective_presented THEN shown
                          ELSE ActivateJobs(shown, hidden, CurrentDemand(shown), TRUE)
  <2>1. IsState(shown) /\ SameRuns(s, shown) /\ SameEra(s, shown)
    BY <1>1 DEF IsState, OptTime, SameRuns, SameEra, Jobs
  <2>2. Sound(shown)
    BY <2>1, QuietSound DEF Follows
  <2>3. Sound(activated)
    BY <2>2, ActivateJobsSound DEF Follows
  <2>4. Sound(RefreshActivation(activated))
    BY <2>3, RefreshActivationSound
  <2> QED BY <2>3, <2>4 DEF Present
<1>3. Sound(Dismiss(s))
  <2> DEFINE u == Dismiss(s)
  <2>1. IsState(u)
    BY <1>1, PresentationTypes
  <2>2. SameRuns(s, u) /\ SameEra(s, u)
    BY <1>1 DEF Dismiss, IsState, SameRuns, SameEra, Jobs
  <2> QED BY <2>1, <2>2, QuietSound DEF Follows
<1> QED BY <1>2, <1>3

(* change_page.                                                               *)
LEMMA ChangePageSound ==
  ASSUME NEW s, Sound(s), NEW page \in PageId
  PROVE  Sound(ChangePage(s, page))
<1> DEFINE before == CurrentDemand(s)
           moved  == [s EXCEPT !.selected_page = page]
           after  == CurrentDemand(moved)
           activated == ActivateJobs(CancelDemandEnded(moved, before, after), before, after,
                                     TRUE)
<1>1. IsState(moved) /\ SameRuns(s, moved) /\ SameEra(s, moved)
  BY DEF Sound, IsState, SameRuns, SameEra, Jobs
<1>2. Sound(moved)
  BY <1>1, QuietSound DEF Follows
<1>3. Sound(activated)
  BY <1>2, CancelDemandEndedSound, ActivateJobsSound DEF Follows
<1>4. Sound(PublishTooltip(activated, "PageChanged"))
  BY <1>3, PublishSound DEF Follows, PublishReason, OptTime
<1> QED BY <1>2, <1>3, <1>4 DEF ChangePage

-----------------------------------------------------------------------------
(* Every step of the machine keeps the invariant.                             *)

(* The inductive invariant, of the variable.                                  *)
OwnershipInv == Sound(sched)

(* An event starts from a sound state, with the runs of the last one.         *)
LEMMA AtSound ==
  ASSUME OwnershipInv, NEW at \in Times
  PROVE  Follows(sched, At(at)) /\ At(at).lifecycle = sched.lifecycle
<1>1. IsState(sched) /\ IsState(At(at))
  BY AtType DEF OwnershipInv, Sound, TypeOK
<1>2. SameRuns(sched, At(at)) /\ SameEra(sched, At(at))
  BY <1>1 DEF At, IsState, SameRuns, SameEra, Jobs
<1> QED BY <1>1, <1>2, QuietSound DEF OwnershipInv, SameEra

(* Nothing runs before startup.                                               *)
LEMMA InitSound == Init => OwnershipInv
<1> SUFFICES ASSUME Init PROVE OwnershipInv
  OBVIOUS
<1>1. IsState(sched)
  BY InitType DEF TypeOK
<1>2. /\ Jobs(sched) = {} /\ sched.cancelling = {} /\ sched.next_run_id = 1
      /\ sched.in_flight_owners = [o \in OwnerId |-> 0]
  BY DEF Init, Jobs
<1>3. InFlight(sched) = {} /\ Live(sched) = {}
  BY <1>2 DEF InFlight, Live
<1>4. Owned(sched) /\ Era(sched)
  BY <1>2, <1>3 DEF Owned, Era
<1> QED BY <1>1, <1>4 DEF OwnershipInv, Sound

(* What a transition may be: a handler and dispatch, or a refusal.            *)
Handled ==
  \/ \E s : Sound(s) /\ Accept(s)
  \/ Sound(sched') /\ ~sched'.accepted
  \/ UNCHANGED sched

(* One step per event.                                                        *)
LEMMA StepHandled ==
  ASSUME OwnershipInv, [Next]_sched
  PROVE  Handled
<1>1. ASSUME NEW s, Sound(s), Accept(s)
      PROVE  Handled
  BY <1>1 DEF Handled
<1>2. \A at \in Times : Sound(At(at)) /\ Sound(Elapse(At(at)))
  BY AtSound, ElapseSound DEF Follows
<1>3. CASE Startup
  <2>1. PICK plan \in Plans : Accept(Start(At(sched.now), plan)) /\ sched.lifecycle = "Unstarted"
    BY <1>3 DEF Startup
  <2>2. IsState(sched) /\ IsState(At(sched.now))
    BY AtNow DEF OwnershipInv, Sound, TypeOK
  <2>3. SameRuns(sched, At(sched.now)) /\ SameEra(sched, At(sched.now))
    BY <2>2 DEF At, IsState, SameRuns, SameEra, Jobs
  <2>4. Sound(At(sched.now)) /\ At(sched.now).lifecycle = "Unstarted"
    BY <2>1, <2>2, <2>3, QuietSound DEF OwnershipInv, Follows, SameEra
  <2> QED BY <1>1, <2>1, <2>4, StartSound
<1>4. CASE TimeAdvanced
  BY <1>1, <1>2, <1>4 DEF TimeAdvanced
<1>5. CASE ConfigChanged
  BY <1>1, <1>2, <1>5, ReconfigureSound DEF ConfigChanged
<1>6. CASE InventoryChanged
  BY <1>1, <1>2, <1>6, ChangeInventorySound DEF InventoryChanged
<1>7. CASE DemandChanged
  BY <1>1, <1>2, <1>7, PlanType, ChangeDemandSound DEF DemandChanged
<1>8. CASE TooltipPresented
  BY <1>1, <1>2, <1>8, PresentationSound DEF TooltipPresented
<1>9. CASE TooltipReactivated
  BY <1>1, <1>2, <1>9, RefreshActivationSound DEF TooltipReactivated
<1>10. CASE SelectedPageChanged
  BY <1>1, <1>2, <1>10, ChangePageSound DEF SelectedPageChanged
<1>11. CASE DisplayRefreshRequested
  BY <1>1, <1>2, <1>11, PublishSound
     DEF DisplayRefreshRequested, Follows, PublishReason, OptTime
<1>12. CASE TooltipRefreshRequested
  BY <1>1, <1>2, <1>12, PublishSound
     DEF TooltipRefreshRequested, Follows, PublishReason, OptTime
<1>13. CASE JobFinished
  <2>1. PICK at \in Times, t \in InFlight(sched), completion \in Outcomes, ready \in BOOLEAN :
          \/ /\ CurrentTicket(Elapse(At(at)), t)
             /\ Accept(FinishJob(Elapse(At(at)), t, completion, ready))
          \/ Reject(Elapse(At(at)))
    BY <1>13 DEF JobFinished
  <2> DEFINE e == Elapse(At(at))
  <2>2. t \in Ticket /\ completion \in Completions
    BY LiveTickets, PlansAssumption DEF Live, OwnershipInv, Sound
  <2>3. Sound(e)
    BY <1>2
  <2> HIDE DEF e
  <2>4. CurrentTicket(e, t) => Sound(FinishJob(e, t, completion, ready))
    BY <2>2, <2>3, FinishJobSound
  <2>5. Sound([e EXCEPT !.accepted = FALSE])
    <3> DEFINE u == [e EXCEPT !.accepted = FALSE]
    <3>1. IsState(u) /\ SameRuns(e, u) /\ SameEra(e, u)
      BY <2>3 DEF Sound, IsState, SameRuns, SameEra, Jobs
    <3> HIDE DEF u
    <3>2. Sound(u)
      BY <2>3, <3>1, QuietSound DEF Follows
    <3> QED BY <3>2 DEF u
  <2>6. ~[e EXCEPT !.accepted = FALSE].accepted
    BY <2>3 DEF Sound, IsState
  <2> QED BY <1>1, <2>1, <2>4, <2>5, <2>6 DEF Reject, Handled, e
<1>14. CASE JobCancelled
  <2>1. PICK at \in Times, t \in sched.cancelling :
          Accept(FinishCancellation(Elapse(At(at)), t))
    BY <1>14 DEF JobCancelled
  <2>2. t \in Elapse(At(at)).cancelling
    BY AtSound, ElapseSound DEF Follows
  <2> QED BY <1>1, <1>2, <2>1, <2>2, FinishCancellationSound
<1>15. CASE RefreshTriggered
  BY <1>1, <1>2, <1>15, MarkJobsSound DEF RefreshTriggered, Follows
<1>16. CASE PanelPublished
  <2>1. PICK at \in Times, publication \in sched.panel_publications :
          Accept([At(at) EXCEPT !.panel_publications = @ \ {publication},
                                !.notifications_armed = TRUE])
    BY <1>16 DEF PanelPublished
  <2> DEFINE s == At(at)
             ps == s.panel_publications \ {publication}
             u == [s EXCEPT !.panel_publications = ps, !.notifications_armed = TRUE]
  <2>2. Sound(s)
    BY <1>2
  <2> HIDE DEF s
  <2>3. IsState(s) /\ ps \subseteq Nat
    BY <2>2 DEF Sound, IsState
  <2> HIDE DEF ps
  <2>4. IsState(u) /\ SameRuns(s, u) /\ SameEra(s, u)
    BY <2>3 DEF IsState, SameRuns, SameEra, Jobs
  <2>5. Sound(u)
    BY <2>2, <2>4, QuietSound DEF Follows
  <2> QED BY <1>1, <2>1, <2>5 DEF u, s, ps
<1>17. CASE Suspend
  <2>1. PICK at \in Times :
          \/ Accept([CancelAll(At(at), "Suspend") EXCEPT !.lifecycle = "Suspended"])
          \/ Accept(At(at))
    BY <1>17 DEF Suspend
  <2>2. Sound([CancelAll(At(at), "Suspend") EXCEPT !.lifecycle = "Suspended"])
    BY <1>2, HaltSound
  <2> QED BY <1>1, <1>2, <2>1, <2>2
<1>18. CASE Resume
  <2>1. PICK at \in Times :
          \/ Accept(ResumeRunning(At(at))) /\ sched.lifecycle = "Suspended"
          \/ Accept(At(at))
    BY <1>18 DEF Resume
  <2>2. sched.lifecycle = "Suspended" => Sound(ResumeRunning(At(at)))
    BY <1>2, AtSound, ResumeRunningSound
  <2> QED BY <1>1, <1>2, <2>1, <2>2
<1>19. CASE Shutdown
  <2>1. PICK at \in Times, reason \in {"Shutdown", "CriticalFailure"} :
          Accept(Stop(At(at), reason))
    BY <1>19 DEF Shutdown
  <2> QED BY <1>1, <1>2, <2>1, HaltSound
<1>20. CASE UNCHANGED sched
  BY <1>20 DEF Handled
<1> QED
  BY <1>3, <1>4, <1>5, <1>6, <1>7, <1>8, <1>9, <1>10, <1>11, <1>12, <1>13, <1>14, <1>15,
     <1>16, <1>17, <1>18, <1>19, <1>20 DEF Next

(* Dispatch keeps what the handler has kept.                                  *)
LEMMA StepSound ==
  ASSUME OwnershipInv, [Next]_sched
  PROVE  OwnershipInv'
  BY StepHandled, DispatchSound DEF Handled, Accept, OwnershipInv

(* The ownership invariant holds at every step, whatever the events.          *)
THEOREM OwnershipHolds == Spec => []OwnershipInv
<1>1. Init => OwnershipInv
  BY InitSound
<1>2. OwnershipInv /\ [Next]_sched => OwnershipInv'
  BY StepSound
<1> QED BY <1>1, <1>2, PTL DEF Spec

(* in_flight_owners is exactly the set of runs handed out and not answered:   *)
(* no owner ever works for two jobs and none stays reserved for nobody.       *)
THEOREM OwnersAreExclusive == Spec => []OwnerExclusive
<1>1. OwnershipInv => OwnerExclusive
  BY DEF OwnershipInv, Sound, Owned, OwnerExclusive
<1> QED BY <1>1, OwnershipHolds, PTL

(* A completion the machine can still accept belongs to the configuration and *)
(* the inventory in force.                                                    *)
THEOREM InFlightRunsAreCurrent == Spec => []InFlightIsCurrent
<1>1. OwnershipInv => InFlightIsCurrent
  <2> SUFFICES ASSUME OwnershipInv, NEW t \in InFlight(sched)
               PROVE  /\ sched.lifecycle = "Running"
                      /\ CurrentTicket(sched, t)
                      /\ sched.jobs[t.job].in_flight = {t}
    BY DEF InFlightIsCurrent
  <2>1. Owned(sched) /\ Era(sched)
    BY DEF OwnershipInv, Sound
  <2>2. PICK j \in Jobs(sched) : t \in sched.jobs[j].in_flight
    BY DEF InFlight
  <2>3. t.job = j
    BY <2>1, <2>2 DEF Owned
  <2>4. \A u \in sched.jobs[j].in_flight : u.job = j /\ u \in Live(sched)
    BY <2>1 DEF Owned, Live, InFlight
  <2>5. sched.jobs[t.job].in_flight = {t}
    BY <2>1, <2>2, <2>3, <2>4 DEF Owned, Live
  <2> QED BY <2>1, <2>2, <2>3, <2>5 DEF Era, CurrentTicket
<1> QED BY <1>1, OwnershipHolds, PTL

-----------------------------------------------------------------------------
(* The machine implements WorkerSlots.  A transition is a handler followed by *)
(* dispatch.  Handlers leave the owners and the numbering alone and forget no *)
(* cancelled run, save for the two that hear a worker, which free its owner;  *)
(* dispatch takes free owners under new numbers.  That gives a step of        *)
(* WorkerSlots, because no two owners have the same run.                      *)

(* The fields the slots are read from.                                        *)
Slotted(s) == {"in_flight_owners", "next_run_id", "cancelling"} \subseteq DOMAIN s

(* From s to u no owner is freed or taken and no cancelled run forgotten.     *)
SlotsStay(s, u) ==
  /\ Slotted(u)
  /\ u.in_flight_owners = s.in_flight_owners /\ u.next_run_id = s.next_run_id
  /\ s.cancelling \subseteq u.cancelling

-----------------------------------------------------------------------------
(* Handlers that hear no worker.                                              *)

(* Publications.                                                              *)
LEMMA PublishKeeps ==
  ASSUME NEW s, Slotted(s), NEW reason, NEW deadline, NEW skipped
  PROVE  /\ SlotsStay(s, PublishTooltip(s, reason))
         /\ SlotsStay(s, PublishFull(s, reason, deadline, skipped))
  BY DEF Slotted, SlotsStay, PublishTooltip, PublishFull, IssuePublish

(* Anchoring fast jobs to the display.                                        *)
LEMMA ReanchorFastKeeps ==
  ASSUME NEW s, Slotted(s)
  PROVE  SlotsStay(s, ReanchorFast(s))
  BY DEF Slotted, SlotsStay, ReanchorFast

(* The first paint.                                                           *)
LEMMA IssueFirstPaintKeeps ==
  ASSUME NEW s, Slotted(s), NEW reason
  PROVE  SlotsStay(s, IssueFirstPaint(s, reason))
<1> DEFINE skipped == IF s.next_display = None THEN 0
                      ELSE DueIntervals(s.next_display, s.display_interval, s.now)
           painted == [s EXCEPT !.first_paint_issued = TRUE, !.first_paint_deadline = None,
                                !.first_paint_waiting = {}]
           shifted == [painted EXCEPT !.next_display =
                         AdvancePast(@, s.display_interval, s.now)]
           moved   == IF Due(s.next_display, s.now) THEN ReanchorFast(shifted) ELSE painted
<1>1. SlotsStay(s, painted) /\ SlotsStay(s, shifted)
  BY DEF Slotted, SlotsStay
<1>2. IssueFirstPaint(s, reason) = IF s.first_paint_issued THEN s
                                   ELSE PublishFull(moved, reason, None, skipped)
  BY DEF IssueFirstPaint
<1> HIDE DEF skipped, painted, shifted
<1>3. SlotsStay(s, moved)
  BY <1>1, ReanchorFastKeeps DEF SlotsStay
<1> HIDE DEF moved
<1>4. SlotsStay(moved, PublishFull(moved, reason, None, skipped))
  BY <1>3, PublishKeeps DEF SlotsStay
<1> QED BY <1>2, <1>3, <1>4 DEF SlotsStay

(* Cancelling.                                                                *)
LEMMA CancelKeeps ==
  ASSUME NEW s, Slotted(s), NEW J, NEW reason
  PROVE  SlotsStay(s, CancelRuns(s, J, reason)) /\ SlotsStay(s, CancelAll(s, reason))
  BY DEF Slotted, SlotsStay, CancelRuns, CancelAll

(* Marking jobs pending.                                                      *)
LEMMA MarkJobsKeeps ==
  ASSUME NEW s, Slotted(s), NEW J
  PROVE  /\ SlotsStay(s, MarkJobs(s, J)) /\ SlotsStay(s, RefreshAllDemanded(s))
         /\ SlotsStay(s, MarkDueJobs(s))
  BY DEF Slotted, SlotsStay, MarkJobs, RefreshAllDemanded, MarkDueJobs

(* replace_jobs.                                                              *)
LEMMA ReplaceJobsKeeps ==
  ASSUME NEW s, Slotted(s), NEW specs, NEW reason
  PROVE  SlotsStay(s, ReplaceJobs(s, specs, reason))
<1> DEFINE c == CancelAll(s, reason)
           display == IF c.next_display = None THEN c.now + c.display_interval
                      ELSE c.next_display
           replaced == [c EXCEPT
             !.jobs = [j \in DOMAIN specs |->
                         IF j \in Jobs(c) THEN ReplacedRuntime(c, c.jobs[j], specs[j], display)
                         ELSE NewRuntime(specs[j], c.now, display)],
             !.actions = @ \cup Invalidated(c, specs),
             !.activation_waiting = @ \cap DOMAIN specs,
             !.first_paint_waiting = {}]
           blockers == FirstPaintBlockers(replaced)
           marked == MarkJobs(replaced, blockers)
           awaited == [marked EXCEPT !.first_paint_waiting = blockers]
<1>1. ReplaceJobs(s, specs, reason) = IF s.first_paint_issued THEN replaced ELSE awaited
  BY DEF ReplaceJobs
<1>2. SlotsStay(s, c)
  BY CancelKeeps
<1> HIDE DEF c, display
<1>3. SlotsStay(s, replaced)
  BY <1>2 DEF Slotted, SlotsStay
<1> HIDE DEF replaced, blockers
<1>4. SlotsStay(replaced, marked)
  BY <1>3, MarkJobsKeeps DEF SlotsStay
<1> HIDE DEF marked
<1>5. SlotsStay(s, awaited)
  BY <1>3, <1>4 DEF Slotted, SlotsStay
<1> QED BY <1>1, <1>3, <1>5

(* activate_jobs.                                                             *)
LEMMA ActivateJobsKeeps ==
  ASSUME NEW s, Slotted(s), NEW before, NEW after, NEW track
  PROVE  SlotsStay(s, ActivateJobs(s, before, after, track))
<1> SUFFICES ASSUME NEW J, NEW w, NEW d
             PROVE  SlotsStay(s, [MarkJobs(s, J) EXCEPT !.activation_waiting = w,
                                                    !.activation_deadline = d])
  BY DEF ActivateJobs
<1> DEFINE m == MarkJobs(s, J)
<1>1. SlotsStay(s, m)
  BY MarkJobsKeeps
<1> HIDE DEF m
<1>2. SlotsStay(s, [m EXCEPT !.activation_waiting = w, !.activation_deadline = d])
  BY <1>1 DEF Slotted, SlotsStay
<1> QED BY <1>2 DEF m

(* activate_jobs, with the wait for what it starts.                           *)
LEMMA ActivateTrackedKeeps ==
  ASSUME NEW s, Slotted(s), NEW before, NEW after
  PROVE  SlotsStay(s, ActivateJobs(s, before, after, TRUE))
<1> DEFINE track == TRUE
<1> HIDE DEF track
<1>1. SlotsStay(s, ActivateJobs(s, before, after, track))
  BY ActivateJobsKeeps
<1> QED BY <1>1 DEF track

(* Demand that ends, and demand that is looked at again.                      *)
LEMMA DemandKeeps ==
  ASSUME NEW s, Slotted(s), NEW before, NEW after, NEW cancelPageJobs
  PROVE  /\ SlotsStay(s, CancelDemandEnded(s, before, after))
         /\ SlotsStay(s, RefreshDemand(s, cancelPageJobs))
<1>1. \A J : SlotsStay(s, CancelRuns(s, J, "DemandEnded"))
  BY CancelKeeps
<1>2. \A u, f : Slotted(u) => SlotsStay(u, [u EXCEPT !.jobs = f])
  BY DEF Slotted, SlotsStay
<1>3. SlotsStay(s, CancelDemandEnded(s, before, after))
  BY <1>1, <1>2 DEF CancelDemandEnded, SlotsStay
<1>4. SlotsStay(s, RefreshDemand(s, cancelPageJobs))
  BY <1>1, <1>2 DEF RefreshDemand, SlotsStay
<1> QED BY <1>3, <1>4

(* The jobs first paint waits for.                                            *)
LEMMA BlockersKeep ==
  ASSUME NEW s, Slotted(s)
  PROVE  SlotsStay(s, RebuildFirstPaintBlockers(s))
<1> DEFINE rebuilt == [s EXCEPT !.first_paint_waiting = FirstPaintBlockers(s)]
<1>1. SlotsStay(s, rebuilt) /\ SlotsStay(s, s)
  BY DEF Slotted, SlotsStay
<1>2. RebuildFirstPaintBlockers(s) \in {s, rebuilt, IssueFirstPaint(rebuilt, "FirstPaintReady")}
  BY DEF RebuildFirstPaintBlockers
<1> HIDE DEF rebuilt
<1>3. SlotsStay(rebuilt, IssueFirstPaint(rebuilt, "FirstPaintReady"))
  BY <1>1, IssueFirstPaintKeeps DEF SlotsStay
<1> QED BY <1>1, <1>2, <1>3 DEF SlotsStay

(* process_time, at any deadline.                                             *)
LEMMA ElapseKeepsSlots ==
  ASSUME NEW s, Slotted(s)
  PROVE  SlotsStay(s, Elapse(s))
<1>1. ASSUME NEW u, Slotted(u)
      PROVE  SlotsStay(u, ExpireDeactivation(u))
  <2> DEFINE cleared == [u EXCEPT !.deactivation_deadline = None]
             ended   == [cleared EXCEPT !.effective_presented = FALSE]
  <2>1. SlotsStay(u, cleared) /\ SlotsStay(u, ended) /\ SlotsStay(u, u)
    BY <1>1 DEF Slotted, SlotsStay
  <2>2. ExpireDeactivation(u) \in {u, cleared, RefreshDemand(ended, TRUE)}
    BY DEF ExpireDeactivation
  <2> HIDE DEF cleared, ended
  <2>3. SlotsStay(ended, RefreshDemand(ended, TRUE))
    BY <2>1, DemandKeeps DEF SlotsStay
  <2> QED BY <2>1, <2>2, <2>3 DEF SlotsStay
<1>2. ASSUME NEW u, Slotted(u)
      PROVE  SlotsStay(u, ExpireFirstPaint(u))
  BY <1>2, IssueFirstPaintKeeps DEF ExpireFirstPaint, SlotsStay
<1>3. ASSUME NEW u, Slotted(u)
      PROVE  SlotsStay(u, ExpireActivation(u))
  <2> DEFINE ended == [u EXCEPT !.activation_deadline = None, !.activation_waiting = {}]
  <2>1. SlotsStay(u, ended) /\ SlotsStay(u, u)
    BY <1>3 DEF Slotted, SlotsStay
  <2>2. ExpireActivation(u) \in {u, PublishTooltip(ended, "TooltipRefresh")}
    BY DEF ExpireActivation
  <2> HIDE DEF ended
  <2>3. SlotsStay(ended, PublishTooltip(ended, "TooltipRefresh"))
    BY <2>1, PublishKeeps DEF SlotsStay
  <2> QED BY <2>1, <2>2, <2>3 DEF SlotsStay
<1>4. ASSUME NEW u, Slotted(u)
      PROVE  SlotsStay(u, ExpireDisplay(u))
  <2> DEFINE p == PublishFull(u, "DisplayDeadline", u.next_display,
                              SkippedIntervals(u.next_display, u.display_interval, u.now))
             moved == [p EXCEPT !.next_display = AdvancePast(@, u.display_interval, u.now)]
  <2>1. SlotsStay(u, p)
    BY <1>4, PublishKeeps
  <2>2. ExpireDisplay(u) \in {u, moved}
    BY DEF ExpireDisplay
  <2> HIDE DEF p
  <2>3. SlotsStay(u, moved)
    BY <2>1 DEF Slotted, SlotsStay
  <2> QED BY <1>4, <2>2, <2>3 DEF SlotsStay
<1> DEFINE a == ExpireDeactivation(s)
           b == ExpireFirstPaint(a)
           c == ExpireActivation(b)
           d == ExpireDisplay(c)
<1>5. SlotsStay(s, a)
  BY <1>1
<1> HIDE DEF a
<1>6. SlotsStay(a, b)
  BY <1>2, <1>5 DEF SlotsStay
<1> HIDE DEF b
<1>7. SlotsStay(b, c)
  BY <1>3, <1>6 DEF SlotsStay
<1> HIDE DEF c
<1>8. SlotsStay(c, d)
  BY <1>4, <1>7 DEF SlotsStay
<1> HIDE DEF d
<1>9. SlotsStay(d, MarkDueJobs(d))
  BY <1>8, MarkJobsKeeps DEF SlotsStay
<1>10. Elapse(s) \in {s, MarkDueJobs(d)}
  BY DEF Elapse, ProcessTime, a, b, c, d
<1> QED BY <1>5, <1>6, <1>7, <1>8, <1>9, <1>10 DEF SlotsStay

-----------------------------------------------------------------------------
(* Events that hear no worker.                                                *)

(* startup.                                                                   *)
LEMMA StartKeeps ==
  ASSUME NEW s, Slotted(s), NEW plan
  PROVE  SlotsStay(s, Start(s, plan))
<1> DEFINE display == s.now + plan.display_interval
           started == [s EXCEPT
             !.lifecycle = "Running", !.config_generation = 1, !.inventory_generation = 1,
             !.display_interval = plan.display_interval, !.demand = plan.demand,
             !.next_display = display, !.first_paint_deadline = s.now + FIRST_PAINT_TIMEOUT,
             !.jobs = [j \in DOMAIN plan.jobs |-> NewRuntime(plan.jobs[j], s.now, display)]]
           demanded == {j \in Jobs(started) \cap CurrentDemand(started) :
                          ~IsHistory(started.jobs[j])}
           waiting == {j \in demanded : StartupPanel(started.jobs[j])}
           marked  == MarkJobs(started, demanded)
           awaited == [marked EXCEPT !.first_paint_waiting = waiting]
<1>1. Start(s, plan) \in {awaited, IssueFirstPaint(awaited, "FirstPaintReady")}
  BY DEF Start, CompleteFirstPaint
<1>2. SlotsStay(s, started)
  BY DEF Slotted, SlotsStay
<1> HIDE DEF started, demanded, waiting
<1>3. SlotsStay(started, marked)
  BY <1>2, MarkJobsKeeps DEF SlotsStay
<1> HIDE DEF marked
<1>4. SlotsStay(s, awaited)
  BY <1>2, <1>3 DEF Slotted, SlotsStay
<1> HIDE DEF awaited
<1>5. SlotsStay(awaited, IssueFirstPaint(awaited, "FirstPaintReady"))
  BY <1>4, IssueFirstPaintKeeps DEF SlotsStay
<1> QED BY <1>1, <1>4, <1>5 DEF SlotsStay

(* reconfigure.                                                               *)
LEMMA ReconfigureKeeps ==
  ASSUME NEW s, Slotted(s), NEW plan
  PROVE  SlotsStay(s, Reconfigure(s, plan))
<1> DEFINE adopted  == [s EXCEPT !.config_generation = @ + 1,
                                 !.display_interval = plan.display_interval,
                                 !.demand = plan.demand,
                                 !.next_display = s.now + plan.display_interval]
           replaced == ReplaceJobs(adopted, plan.jobs, "ConfigChanged")
           anchored == ReanchorFast(replaced)
           demanded == RefreshDemand(anchored, FALSE)
           marked   == MarkJobs(demanded, CurrentDemand(demanded) \cap Discovery)
<1>1. Reconfigure(s, plan) \in {marked, PublishFull(marked, "ConfigChanged", None, 0)}
  BY DEF Reconfigure
<1>2. SlotsStay(s, adopted)
  BY DEF Slotted, SlotsStay
<1> HIDE DEF adopted
<1>3. SlotsStay(adopted, replaced)
  BY <1>2, ReplaceJobsKeeps DEF SlotsStay
<1> HIDE DEF replaced
<1>4. SlotsStay(replaced, anchored)
  BY <1>3, ReanchorFastKeeps DEF SlotsStay
<1> HIDE DEF anchored
<1>5. SlotsStay(anchored, demanded)
  BY <1>4, DemandKeeps DEF SlotsStay
<1> HIDE DEF demanded
<1>6. SlotsStay(demanded, marked)
  BY <1>5, MarkJobsKeeps DEF SlotsStay
<1> HIDE DEF marked
<1>7. SlotsStay(marked, PublishFull(marked, "ConfigChanged", None, 0))
  BY <1>6, PublishKeeps DEF SlotsStay
<1> QED BY <1>1, <1>2, <1>3, <1>4, <1>5, <1>6, <1>7 DEF SlotsStay

(* change_inventory.                                                          *)
LEMMA ChangeInventoryKeeps ==
  ASSUME NEW s, Slotted(s), NEW plan, NEW acknowledged
  PROVE  SlotsStay(s, ChangeInventory(s, plan, acknowledged))
<1> DEFINE adopted  == [s EXCEPT !.inventory_generation = @ + 1, !.demand = plan.demand]
           replaced == ReplaceJobs(adopted, plan.jobs, "SourceReplaced")
           freed    == [replaced EXCEPT !.awaiting_resume_inventory = 0]
           resumes  == acknowledged = s.awaiting_resume_inventory /\ acknowledged # 0
           released == IF resumes THEN freed ELSE replaced
           active   == ActivateJobs(released, CurrentDemand(s), CurrentDemand(released),
                                    released.effective_presented)
           demanded == RefreshDemand(active, FALSE)
<1>1. ChangeInventory(s, plan, acknowledged) \in {demanded, RefreshAllDemanded(demanded)}
  BY DEF ChangeInventory
<1>2. SlotsStay(s, adopted)
  BY DEF Slotted, SlotsStay
<1> HIDE DEF adopted
<1>3. SlotsStay(adopted, replaced)
  BY <1>2, ReplaceJobsKeeps DEF SlotsStay
<1> HIDE DEF replaced
<1>4. SlotsStay(replaced, released)
  BY <1>3 DEF Slotted, SlotsStay
<1> HIDE DEF released
<1>5. SlotsStay(released, active)
  BY <1>4, ActivateJobsKeeps DEF SlotsStay
<1> HIDE DEF active
<1>6. SlotsStay(active, demanded)
  BY <1>5, DemandKeeps DEF SlotsStay
<1> HIDE DEF demanded
<1>7. SlotsStay(demanded, RefreshAllDemanded(demanded))
  BY <1>6, MarkJobsKeeps DEF SlotsStay
<1> QED BY <1>1, <1>2, <1>3, <1>4, <1>5, <1>6, <1>7 DEF SlotsStay

(* change_demand and change_page: what ends is cancelled, what begins starts. *)
LEMMA ChangeDemandKeeps ==
  ASSUME NEW s, Slotted(s), NEW demand, NEW page
  PROVE  SlotsStay(s, ChangeDemand(s, demand)) /\ SlotsStay(s, ChangePage(s, page))
<1>1. ASSUME NEW u, Slotted(u), NEW before, NEW after, NEW track
      PROVE  SlotsStay(u, ActivateJobs(CancelDemandEnded(u, before, after), before, after, track))
  <2> DEFINE ended == CancelDemandEnded(u, before, after)
  <2>1. SlotsStay(u, ended)
    BY <1>1, DemandKeeps
  <2> HIDE DEF ended
  <2>2. SlotsStay(ended, ActivateJobs(ended, before, after, track))
    BY <2>1, ActivateJobsKeeps DEF SlotsStay
  <2>3. SlotsStay(u, ActivateJobs(ended, before, after, track))
    BY <2>1, <2>2 DEF SlotsStay
  <2> QED BY <2>3 DEF ended
<1>2. SlotsStay(s, ChangeDemand(s, demand))
  <2> DEFINE before == CurrentDemand(s)
             moved  == [s EXCEPT !.demand = demand]
             after  == CurrentDemand(moved)
             active == ActivateJobs(CancelDemandEnded(moved, before, after), before, after,
                                    s.effective_presented)
             demanded == RefreshDemand(active, FALSE)
  <2>1. ChangeDemand(s, demand) = RebuildFirstPaintBlockers(demanded)
    BY DEF ChangeDemand
  <2>2. SlotsStay(s, moved)
    BY DEF Slotted, SlotsStay
  <2> HIDE DEF moved, before, after
  <2>3. SlotsStay(moved, active)
    BY <1>1, <2>2 DEF SlotsStay
  <2> HIDE DEF active
  <2>4. SlotsStay(active, demanded)
    BY <2>3, DemandKeeps DEF SlotsStay
  <2> HIDE DEF demanded
  <2>5. SlotsStay(demanded, RebuildFirstPaintBlockers(demanded))
    BY <2>4, BlockersKeep DEF SlotsStay
  <2> QED BY <2>1, <2>2, <2>3, <2>4, <2>5 DEF SlotsStay
<1>3. SlotsStay(s, ChangePage(s, page))
  <2> DEFINE before == CurrentDemand(s)
             moved  == [s EXCEPT !.selected_page = page]
             after  == CurrentDemand(moved)
             active == ActivateJobs(CancelDemandEnded(moved, before, after), before, after, TRUE)
  <2>1. ChangePage(s, page) \in {s, moved, active, PublishTooltip(active, "PageChanged")}
    BY DEF ChangePage
  <2>2. SlotsStay(s, moved) /\ SlotsStay(s, s)
    BY DEF Slotted, SlotsStay
  <2> HIDE DEF moved, before, after
  <2>3. SlotsStay(moved, active)
    BY <1>1, <2>2 DEF SlotsStay
  <2> HIDE DEF active
  <2>4. SlotsStay(active, PublishTooltip(active, "PageChanged"))
    BY <2>3, PublishKeeps DEF SlotsStay
  <2> QED BY <2>1, <2>2, <2>3, <2>4 DEF SlotsStay
<1> QED BY <1>2, <1>3

(* The tooltip is presented, once more, or dismissed.                         *)
LEMMA PresentationKeeps ==
  ASSUME NEW s, Slotted(s)
  PROVE  SlotsStay(s, Present(s)) /\ SlotsStay(s, Dismiss(s)) /\ SlotsStay(s, RefreshActivation(s))
<1>1. ASSUME NEW u, Slotted(u)
      PROVE  SlotsStay(u, RefreshActivation(u))
  <2> DEFINE amd == {j \in Jobs(u) : u.jobs[j].spec.amd \in WideAmd}
             waiting == u.activation_waiting \cup amd
             deadline == u.now + ACTIVATION_REFRESH_TIMEOUT
             m == MarkJobs(u, amd)
             marked == [m EXCEPT !.activation_waiting = waiting]
             awaited == [marked EXCEPT !.activation_deadline = deadline]
  <2>1. RefreshActivation(u) \in {marked, awaited, PublishTooltip(marked, "TooltipActivated")}
    BY DEF RefreshActivation
  <2>2. SlotsStay(u, m)
    BY <1>1, MarkJobsKeeps
  <2> HIDE DEF m, waiting, deadline
  <2>3. SlotsStay(u, marked) /\ SlotsStay(u, awaited)
    BY <2>2 DEF Slotted, SlotsStay
  <2> HIDE DEF marked, awaited
  <2>4. SlotsStay(marked, PublishTooltip(marked, "TooltipActivated"))
    BY <2>3, PublishKeeps DEF SlotsStay
  <2> QED BY <2>1, <2>3, <2>4 DEF SlotsStay
<1>2. SlotsStay(s, Present(s))
  <2> DEFINE shown  == [s EXCEPT !.presented = TRUE, !.deactivation_deadline = None,
                                 !.effective_presented = TRUE]
             hidden == Demanded(s.demand, FALSE, s.selected_page)
             woken  == ActivateJobs(shown, hidden, CurrentDemand(shown), TRUE)
             active == IF s.effective_presented THEN shown ELSE woken
  <2>1. Present(s) \in {active, RefreshActivation(active)}
    BY DEF Present
  <2>2. SlotsStay(s, shown)
    BY DEF Slotted, SlotsStay
  <2> HIDE DEF shown, hidden
  <2>3. Slotted(shown) /\ SlotsStay(shown, shown)
    BY <2>2 DEF SlotsStay
  <2>4. SlotsStay(shown, woken)
    BY <2>3, ActivateTrackedKeeps
  <2> HIDE DEF woken
  <2>5. SlotsStay(shown, active)
    BY <2>3, <2>4
  <2> HIDE DEF active
  <2>6. SlotsStay(active, RefreshActivation(active))
    BY <1>1, <2>5 DEF SlotsStay
  <2> QED BY <2>1, <2>2, <2>5, <2>6 DEF SlotsStay
<1>3. SlotsStay(s, Dismiss(s))
  BY DEF Slotted, SlotsStay, Dismiss
<1> QED BY <1>1, <1>2, <1>3

(* resume, suspend and stop.                                                  *)
LEMMA LifecycleKeeps ==
  ASSUME NEW s, Slotted(s), NEW reason
  PROVE  /\ SlotsStay(s, ResumeRunning(s)) /\ SlotsStay(s, Stop(s, reason))
         /\ SlotsStay(s, [CancelAll(s, reason) EXCEPT !.lifecycle = "Suspended"])
<1>1. SlotsStay(s, ResumeRunning(s))
  <2> DEFINE running  == [s EXCEPT !.lifecycle = "Running",
                                   !.next_display = s.now + s.display_interval]
             anchored == ReanchorFast(running)
  <2>1. SlotsStay(s, running)
    BY DEF Slotted, SlotsStay
  <2>2. Slotted(anchored) => SlotsStay(anchored, ResumeRunning(s))
    BY DEF Slotted, SlotsStay, ResumeRunning
  <2> HIDE DEF running
  <2>3. SlotsStay(running, anchored)
    BY <2>1, ReanchorFastKeeps DEF SlotsStay
  <2> QED BY <2>1, <2>2, <2>3 DEF SlotsStay
<1> DEFINE c == CancelAll(s, reason)
<1>2. SlotsStay(s, c)
  BY CancelKeeps
<1> HIDE DEF c
<1>3. /\ SlotsStay(s, [c EXCEPT !.lifecycle = "Suspended"])
      /\ SlotsStay(s, [c EXCEPT !.lifecycle = "Stopped",
                            !.actions = @ \cup {[kind |-> "Terminate"]}])
  BY <1>2 DEF Slotted, SlotsStay
<1> QED BY <1>1, <1>3 DEF c, Stop

-----------------------------------------------------------------------------
(* Handlers that hear a worker, and dispatch.                                 *)

(* m has freed the owners in F, of which there is one at most, and forgotten  *)
(* no other cancelled run.                                                    *)
Frees(s, m, F) ==
  /\ F \subseteq OwnerId /\ \A o, p \in F : o = p
  /\ m.next_run_id = s.next_run_id
  /\ \A o \in OwnerId : m.in_flight_owners[o] = IF o \in F THEN 0 ELSE s.in_flight_owners[o]
  /\ \A t \in s.cancelling : t \in m.cancelling \/ OwnerOf[t.job] \in F

(* u has taken owners that were free, under new numbers.                      *)
Starts(m, u) ==
  /\ u.cancelling = m.cancelling
  /\ u.next_run_id >= m.next_run_id
  /\ \A o \in OwnerId :
       \/ u.in_flight_owners[o] = m.in_flight_owners[o]
       \/ /\ m.in_flight_owners[o] = 0
          /\ u.in_flight_owners[o] \in m.next_run_id..(u.next_run_id - 1)
  /\ \A o, p \in {q \in OwnerId : u.in_flight_owners[q] # m.in_flight_owners[q]} :
       u.in_flight_owners[o] = u.in_flight_owners[p] => o = p

(* A handler that hears no worker frees nobody.                               *)
LEMMA KeepsFrees ==
  ASSUME NEW s, NEW m, SlotsStay(s, m)
  PROVE  Frees(s, m, {})
  BY DEF SlotsStay, Frees

(* finish_job frees the owner of the job.                                     *)
LEMMA FinishJobFrees ==
  ASSUME NEW s, IsState(s), NEW t \in Ticket, NEW completion, NEW ready
  PROVE  Frees(s, FinishJob(s, t, completion, ready), {OwnerOf[t.job]})
<1> DEFINE job == t.job
           notifies == ready /\ s.notifications_armed /\ ~IsHistory(s.jobs[job])
           os == [s.in_flight_owners EXCEPT ![OwnerOf[job]] = 0]
           released == [s EXCEPT
             !.jobs = [j \in DOMAIN @ |-> IF j = job THEN CompletedRuntime(@[j], completion, s.now)
                                          ELSE @[j]],
             !.in_flight_owners = [@ EXCEPT ![OwnerOf[job]] = 0],
             !.first_paint_waiting = @ \ {job},
             !.activation_waiting = @ \ {job},
             !.actions = @ \cup IF notifies
                                THEN {[kind |-> "EvaluateNotifications", ticket |-> t]} ELSE {}]
           settled == IF completion = "ConfirmedAbsent"
                      THEN InvalidateHistories(released, job) ELSE released
           painted == CompleteFirstPaint(settled)
           ended   == [painted EXCEPT !.activation_deadline = None]
           result  == FinishJob(s, t, completion, ready)
<1>1. Slotted(s) /\ s.in_flight_owners \in [OwnerId -> Nat] /\ OwnerOf[job] \in OwnerId
  BY JobsAssumption DEF IsState, Slotted, Ticket
<1>2. /\ Slotted(released) /\ released.in_flight_owners = os
      /\ released.next_run_id = s.next_run_id /\ released.cancelling = s.cancelling
  BY <1>1 DEF Slotted
<1>3. result \in {painted, PublishTooltip(ended, "TooltipRefresh")}
  BY DEF FinishJob, CompleteActivation
<1> HIDE DEF result, released
<1>4. SlotsStay(released, settled)
  BY <1>2 DEF Slotted, SlotsStay, InvalidateHistories
<1> HIDE DEF settled
<1>5. SlotsStay(settled, painted)
  BY <1>4, IssueFirstPaintKeeps DEF SlotsStay, CompleteFirstPaint
<1> HIDE DEF painted
<1>6. SlotsStay(painted, ended)
  BY <1>5 DEF Slotted, SlotsStay
<1> HIDE DEF ended
<1>7. SlotsStay(ended, PublishTooltip(ended, "TooltipRefresh"))
  BY <1>6, PublishKeeps DEF SlotsStay
<1>8. SlotsStay(released, result)
  BY <1>3, <1>4, <1>5, <1>6, <1>7 DEF SlotsStay
<1>9. Frees(s, result, {OwnerOf[job]})
  BY <1>1, <1>2, <1>8 DEF SlotsStay, Frees
<1> QED BY <1>9 DEF result

(* finish_cancellation frees the owner of the run, which still holds it.      *)
LEMMA FinishCancellationFrees ==
  ASSUME NEW s, Sound(s), NEW t \in s.cancelling
  PROVE  Frees(s, FinishCancellation(s, t), {OwnerOf[t.job]})
<1> DEFINE u == FinishCancellation(s, t)
<1>1. t \in Ticket /\ t \in Live(s) /\ s.in_flight_owners \in [OwnerId -> Nat]
  BY DEF Sound, IsState, Live
<1>2. OwnerOf[t.job] \in OwnerId /\ s.in_flight_owners[OwnerOf[t.job]] = t.run
  BY <1>1, JobsAssumption DEF Sound, Owned, Ticket
<1>3. /\ u.next_run_id = s.next_run_id /\ u.cancelling = s.cancelling \ {t}
      /\ u.in_flight_owners = [s.in_flight_owners EXCEPT ![OwnerOf[t.job]] = 0]
  BY <1>2 DEF FinishCancellation, Sound, IsState
<1> HIDE DEF u
<1>4. Frees(s, u, {OwnerOf[t.job]})
  BY <1>1, <1>2, <1>3 DEF Frees
<1> QED BY <1>4 DEF u

(* The jobs that dispatch starts are in line.                                 *)
LEMMA BeforeOrders ==
  ASSUME NEW s, IsState(s), NEW i \in Chosen(s), NEW j \in Chosen(s), NEW k \in Chosen(s)
  PROVE  /\ ~Before(s, i, i)
         /\ Before(s, i, j) /\ Before(s, j, k) => Before(s, i, k)
         /\ i = j \/ Before(s, i, j) \/ Before(s, j, i)
<1>1. \A l \in Chosen(s) : l \in JobId /\ l \in Candidates(s)
  BY RuntimeOf DEF Chosen, Candidates
<1>2. \A l \in Chosen(s) : s.jobs[l].pending_since \in Int /\ JobRank[l] \in Nat
  BY RuntimeOf, JobsAssumption, <1>1 DEF Candidates, JobRuntime, OptTime, None
<1>3. JobRank[i] = JobRank[j] => i = j
  BY <1>1, JobsAssumption
<1> QED BY <1>2, <1>3 DEF Before

(* So each gets a number of its own.                                          *)
LEMMA RunNumbers ==
  ASSUME NEW s, IsState(s)
  PROVE  /\ \A j \in Chosen(s) :
              /\ RunOf(s, j) \in Nat /\ RunOf(s, j) >= s.next_run_id
              /\ RunOf(s, j) < s.next_run_id + Cardinality(Chosen(s))
         /\ \A i, j \in Chosen(s) : RunOf(s, i) = RunOf(s, j) => i = j
<1> DEFINE chosen == Chosen(s)
           Ahead(j) == {k \in chosen : Before(s, k, j)}
<1>1. IsFiniteSet(chosen) /\ Cardinality(chosen) \in Nat /\ s.next_run_id \in Nat
  BY RunOfType DEF IsState
<1>2. \A S, T : T \subseteq S /\ S \subseteq chosen /\ S # T =>
        Cardinality(T) < Cardinality(S)
  <2> SUFFICES ASSUME NEW S, NEW T, T \subseteq S, S \subseteq chosen, S # T
               PROVE  Cardinality(T) < Cardinality(S)
    OBVIOUS
  <2>1. IsFiniteSet(S) /\ IsFiniteSet(T)
    BY <1>1, FS_Subset
  <2>2. Cardinality(S) \in Nat /\ Cardinality(T) \in Nat
    BY <2>1, FS_CardinalityType
  <2> QED BY <2>1, <2>2, FS_Subset
<1>3. ASSUME NEW j \in chosen
      PROVE  /\ RunOf(s, j) = s.next_run_id + Cardinality(Ahead(j))
             /\ Cardinality(Ahead(j)) \in Nat /\ Cardinality(Ahead(j)) < Cardinality(chosen)
  <2>1. Ahead(j) \subseteq chosen /\ j \notin Ahead(j)
    BY BeforeOrders
  <2>2. Cardinality(Ahead(j)) \in Nat
    BY <1>1, <2>1, FS_Subset, FS_CardinalityType
  <2>3. Cardinality(Ahead(j)) < Cardinality(chosen)
    BY <1>2, <2>1
  <2> QED BY <2>2, <2>3 DEF RunOf
<1>4. ASSUME NEW i \in chosen, NEW j \in chosen, Before(s, i, j)
      PROVE  RunOf(s, i) # RunOf(s, j)
  <2>1. Ahead(i) \subseteq Ahead(j)
    BY <1>4, BeforeOrders
  <2>2. i \in Ahead(j) /\ i \notin Ahead(i)
    BY <1>4, BeforeOrders
  <2>3. Cardinality(Ahead(i)) < Cardinality(Ahead(j))
    BY <1>2, <2>1, <2>2
  <2> QED BY <1>1, <1>3, <2>3
<1>5. ASSUME NEW i \in chosen, NEW j \in chosen, RunOf(s, i) = RunOf(s, j)
      PROVE  i = j
  BY <1>4, <1>5, BeforeOrders
<1>6. ASSUME NEW j \in chosen
      PROVE  /\ RunOf(s, j) \in Nat /\ RunOf(s, j) >= s.next_run_id
             /\ RunOf(s, j) < s.next_run_id + Cardinality(chosen)
  <2> DEFINE n == Cardinality(Ahead(j))
             total == Cardinality(chosen)
  <2>1. n \in Nat /\ total \in Nat /\ n < total /\ RunOf(s, j) = s.next_run_id + n
    BY <1>1, <1>3
  <2> HIDE DEF n, total
  <2>2. /\ s.next_run_id + n \in Nat /\ s.next_run_id + n >= s.next_run_id
        /\ s.next_run_id + n < s.next_run_id + total
    BY <1>1, <2>1
  <2> QED BY <2>1, <2>2 DEF total
<1> QED BY <1>5, <1>6

(* dispatch takes free owners only.                                           *)
LEMMA DispatchStarts ==
  ASSUME NEW s, IsState(s)
  PROVE  Starts(s, Dispatch(s))
<1> DEFINE chosen == Chosen(s)
           Runs(o) == {RunOf(s, j) : j \in {k \in chosen : OwnerOf[k] = o}}
           os == [o \in OwnerId |-> IF Runs(o) = {} THEN s.in_flight_owners[o]
                                    ELSE CHOOSE r \in Runs(o) : TRUE]
           next == s.next_run_id + Cardinality(chosen)
           u == Dispatch(s)
<1>1. s.next_run_id \in Nat /\ Cardinality(chosen) \in Nat
  BY RunOfType DEF IsState
<1>2. \/ u = s
      \/ /\ u.cancelling = s.cancelling /\ u.next_run_id = next
         /\ u.in_flight_owners = os
  BY DEF Dispatch, IsState
<1> HIDE DEF u
<1>3. Starts(s, s)
  BY <1>1 DEF Starts
<1>4. ASSUME NEW o \in OwnerId, os[o] # s.in_flight_owners[o]
      PROVE  \E j \in chosen : OwnerOf[j] = o /\ os[o] = RunOf(s, j)
  BY <1>4
<1>5. ASSUME NEW o \in OwnerId, os[o] # s.in_flight_owners[o]
      PROVE  s.in_flight_owners[o] = 0 /\ os[o] \in s.next_run_id..(next - 1)
  <2>1. PICK j \in chosen : OwnerOf[j] = o /\ os[o] = RunOf(s, j)
    BY <1>4, <1>5
  <2> HIDE DEF os
  <2>2. os[o] \in s.next_run_id..(next - 1)
    <3>1. /\ RunOf(s, j) \in Nat
          /\ RunOf(s, j) >= s.next_run_id /\ RunOf(s, j) < next
      BY RunNumbers
    <3>2. next \in Nat
      BY <1>1
    <3> HIDE DEF next
    <3> QED BY <1>1, <2>1, <3>1, <3>2
  <2>3. s.in_flight_owners[o] = 0
    BY <2>1 DEF Chosen
  <2> QED BY <2>2, <2>3
<1>6. ASSUME NEW o \in OwnerId, NEW p \in OwnerId, os[o] # s.in_flight_owners[o],
             os[p] # s.in_flight_owners[p], os[o] = os[p]
      PROVE  o = p
  BY <1>4, <1>6, RunNumbers
<1>7. next \in Nat /\ next >= s.next_run_id
  BY <1>1
<1> HIDE DEF os, next
<1>8. u # s => Starts(s, u)
  BY <1>2, <1>5, <1>6, <1>7 DEF Starts
<1> QED BY <1>3, <1>8 DEF u

-----------------------------------------------------------------------------
(* Numbering.                                                                 *)

(* Runs are numbered below the next one, and no two owners have the same.     *)
Numbered(s) ==
  /\ \A o \in OwnerId : s.in_flight_owners[o] < s.next_run_id
  /\ \A o, p \in OwnerId :
       s.in_flight_owners[o] = s.in_flight_owners[p] /\ s.in_flight_owners[o] # 0 => o = p

(* The slot of an owner in a state.                                           *)
SlotIn(s, o) ==
  [run |-> s.in_flight_owners[o],
   cancelled |-> \E t \in s.cancelling : t.run = s.in_flight_owners[o]]

(* The owners that lost, and that got, a run.                                 *)
Lost(s, u) == {o \in OwnerId : s.in_flight_owners[o] # 0
                              /\ u.in_flight_owners[o] # s.in_flight_owners[o]}

Got(s, u) == {o \in OwnerId : u.in_flight_owners[o] # 0
                             /\ u.in_flight_owners[o] # s.in_flight_owners[o]}

(* A step of WorkerSlots, of states.                                          *)
SlotStep(s, u) ==
  /\ \A o, p \in Lost(s, u) : o = p
  /\ \A o \in OwnerId \ (Lost(s, u) \cup Got(s, u)) :
       SlotIn(s, o).cancelled => SlotIn(u, o).cancelled
  /\ \A o \in Got(s, u) :
       u.in_flight_owners[o] \in s.next_run_id..(u.next_run_id - 1) /\ ~SlotIn(u, o).cancelled
  /\ \A o, p \in Got(s, u) : u.in_flight_owners[o] = u.in_flight_owners[p] => o = p
  /\ u.next_run_id >= s.next_run_id

(* A cancelled run is that of its owner.                                      *)
LEMMA CancelledRuns ==
  ASSUME NEW s, IsState(s), Owned(s), Numbered(s)
  PROVE  \A o \in OwnerId :
           SlotIn(s, o).cancelled <=> \E t \in s.cancelling : OwnerOf[t.job] = o
<1> SUFFICES ASSUME NEW o \in OwnerId
             PROVE  SlotIn(s, o).cancelled <=> \E t \in s.cancelling : OwnerOf[t.job] = o
  OBVIOUS
<1>1. \A t \in s.cancelling :
        /\ OwnerOf[t.job] \in OwnerId /\ t.run # 0
        /\ s.in_flight_owners[OwnerOf[t.job]] = t.run
  BY JobsAssumption DEF IsState, Ticket, Owned, Live
<1>2. \A t \in s.cancelling : t.run = s.in_flight_owners[o] <=> OwnerOf[t.job] = o
  BY <1>1 DEF Numbered
<1> QED BY <1>2 DEF SlotIn

(* A handler and the dispatch after it are a step of WorkerSlots, and keep    *)
(* the numbering.                                                             *)
LEMMA SlotsMove ==
  ASSUME NEW s, Sound(s), Numbered(s), NEW m, Sound(m), NEW F, Frees(s, m, F),
         NEW u, Sound(u), Starts(m, u)
  PROVE  SlotStep(s, u) /\ Numbered(u)
<1>1. /\ s.next_run_id \in Nat /\ u.next_run_id \in Nat
      /\ \A o \in OwnerId : s.in_flight_owners[o] \in Nat /\ u.in_flight_owners[o] \in Nat
  BY DEF Sound, IsState
<1>2. s.next_run_id >= 1 /\ u.next_run_id >= s.next_run_id
  BY <1>1 DEF Sound, Owned, Frees, Starts
<1>3. ASSUME NEW o \in OwnerId
      PROVE  \/ u.in_flight_owners[o] = 0
             \/ u.in_flight_owners[o] = s.in_flight_owners[o] /\ o \notin F
             \/ /\ s.in_flight_owners[o] = 0 \/ o \in F
                /\ u.in_flight_owners[o] \in s.next_run_id..(u.next_run_id - 1)
  BY <1>3 DEF Frees, Starts
<1>4. Lost(s, u) \subseteq F
  BY <1>1 DEF Frees, Starts, Lost
<1>5. \A o \in Got(s, u) :
        u.in_flight_owners[o] \in s.next_run_id..(u.next_run_id - 1)
  BY <1>3 DEF Got
<1>6. ASSUME NEW o \in Got(s, u), NEW p \in OwnerId,
             u.in_flight_owners[o] = u.in_flight_owners[p]
      PROVE  o = p
  <2>1. m.in_flight_owners[o] # u.in_flight_owners[o]
    BY <1>1, <1>2, <1>5, <1>6 DEF Got, Frees, Numbered
  <2>2. m.in_flight_owners[p] # u.in_flight_owners[p]
    BY <1>1, <1>2, <1>5, <1>6 DEF Got, Frees, Numbered
  <2> QED BY <1>6, <2>1, <2>2 DEF Starts, Got
<1>7. Numbered(u)
  <2>1. \A o \in OwnerId : u.in_flight_owners[o] < u.next_run_id
    BY <1>1, <1>2, <1>3 DEF Numbered
  <2>2. ASSUME NEW o \in OwnerId, NEW p \in OwnerId, u.in_flight_owners[o] # 0,
               u.in_flight_owners[o] = u.in_flight_owners[p]
        PROVE  o = p
    BY <1>6, <2>2 DEF Got, Numbered
  <2> QED BY <2>1, <2>2 DEF Numbered
<1>8. ASSUME NEW o \in Got(s, u)
      PROVE  ~SlotIn(u, o).cancelled
  <2> SUFFICES ASSUME NEW t \in u.cancelling, OwnerOf[t.job] = o
               PROVE  FALSE
    BY <1>7, CancelledRuns DEF Sound, Got
  <2>1. t \in m.cancelling
    BY DEF Starts
  <2>2. m.in_flight_owners[o] # 0
    BY <2>1 DEF Sound, Owned, Live
  <2>3. m.in_flight_owners[o] # u.in_flight_owners[o]
    BY <1>1, <1>2, <1>5 DEF Got, Frees, Numbered
  <2> QED BY <2>2, <2>3 DEF Starts, Got
<1>9. ASSUME NEW o \in OwnerId \ (Lost(s, u) \cup Got(s, u)), SlotIn(s, o).cancelled
      PROVE  SlotIn(u, o).cancelled
  <2>1. PICK t \in s.cancelling : OwnerOf[t.job] = o
    BY <1>9, CancelledRuns DEF Sound
  <2>2. s.in_flight_owners[o] # 0
    BY <2>1 DEF Sound, Owned, Live
  <2>3. o \notin F
    BY <1>1, <1>3, <1>9, <2>2 DEF Lost, Numbered
  <2>4. t \in u.cancelling
    BY <2>1, <2>3 DEF Frees, Starts
  <2> QED BY <1>7, <2>1, <2>4, CancelledRuns DEF Sound
<1> QED BY <1>2, <1>4, <1>5, <1>6, <1>7, <1>8, <1>9 DEF SlotStep, Frees, Got

-----------------------------------------------------------------------------
(* Steps of the machine.                                                      *)

SlotInv == OwnershipInv /\ Numbered(sched)

(* Nobody works before startup.                                               *)
LEMMA InitSlots == Init => SlotInv /\ Slots!SlotsInit
<1> SUFFICES ASSUME Init PROVE SlotInv /\ Slots!SlotsInit
  OBVIOUS
<1>1. OwnershipInv
  BY InitSound
<1>2. /\ sched.cancelling = {} /\ sched.next_run_id = 1
      /\ \A o \in OwnerId : sched.in_flight_owners[o] = 0
  BY DEF Init
<1>3. Numbered(sched)
  BY <1>2 DEF Numbered
<1>4. \A o \in OwnerId : SlotOf(o) = Slots!Free
  BY <1>2 DEF SlotOf, Slots!Free
<1> QED BY <1>1, <1>2, <1>3, <1>4 DEF SlotInv, Slots!SlotsInit

(* An event begins with the owners of the last one.                           *)
LEMMA AtKeeps ==
  ASSUME OwnershipInv, NEW at \in Times
  PROVE  /\ Sound(At(at)) /\ Slotted(At(at)) /\ Frees(sched, At(at), {})
         /\ Sound(Elapse(At(at))) /\ Frees(sched, Elapse(At(at)), {})
         /\ At(at).cancelling = sched.cancelling
<1>1. Sound(At(at)) /\ Sound(Elapse(At(at)))
  BY AtSound, ElapseSound DEF Follows
<1>2. Slotted(sched)
  BY DEF OwnershipInv, Sound, IsState, Slotted
<1>3. SlotsStay(sched, At(at)) /\ At(at).cancelling = sched.cancelling
  BY <1>2 DEF Slotted, SlotsStay, At
<1>4. SlotsStay(At(at), Elapse(At(at)))
  BY <1>3, ElapseKeepsSlots DEF SlotsStay
<1>5. SlotsStay(sched, Elapse(At(at)))
  BY <1>3, <1>4 DEF SlotsStay
<1> QED BY <1>1, <1>3, <1>5, KeepsFrees DEF SlotsStay

(* The step is one of WorkerSlots, and keeps what makes the next one so.      *)
Moves == SlotStep(sched, sched') /\ SlotInv'

(* One step per event: each is a handler and, unless it is refused, dispatch. *)
LEMMA StepMoves ==
  ASSUME SlotInv, [Next]_sched
  PROVE  Moves
<1>1. Sound(sched) /\ Numbered(sched) /\ Sound(sched')
  BY StepSound DEF SlotInv, OwnershipInv
<1>2. ASSUME NEW m, NEW F, Sound(m), Frees(sched, m, F), Accept(m)
      PROVE  Moves
  <2>1. Starts(m, sched')
    BY <1>2, DispatchStarts DEF Accept, Sound
  <2> QED BY <1>1, <1>2, <2>1, SlotsMove DEF Moves, SlotInv, OwnershipInv
<1>3. ASSUME NEW s, Frees(sched, s, {}), NEW m, Sound(m), SlotsStay(s, m), Accept(m)
      PROVE  Moves
  <2>1. Frees(sched, m, {})
    BY <1>3 DEF SlotsStay, Frees
  <2> QED BY <1>2, <1>3, <2>1
<1>4. ASSUME NEW at \in Times
      PROVE  /\ Sound(At(at)) /\ Slotted(At(at)) /\ Frees(sched, At(at), {})
             /\ Sound(Elapse(At(at))) /\ Frees(sched, Elapse(At(at)), {})
             /\ Slotted(Elapse(At(at)))
  BY AtKeeps, ElapseKeepsSlots DEF SlotInv, SlotsStay
<1>5. CASE Startup
  <2>1. PICK plan \in Plans : Accept(Start(At(sched.now), plan)) /\ sched.lifecycle = "Unstarted"
    BY <1>5 DEF Startup
  <2> DEFINE s == At(sched.now)
  <2>2. IsState(sched) /\ IsState(s)
    BY <1>1, AtNow DEF Sound, TypeOK
  <2>3. /\ SameRuns(sched, s) /\ SameEra(sched, s)
        /\ Slotted(s) /\ SlotsStay(sched, s)
    BY <2>2 DEF At, IsState, SameRuns, SameEra, Jobs, Slotted, SlotsStay
  <2>4. Sound(s) /\ s.lifecycle = "Unstarted"
    BY <1>1, <2>1, <2>2, <2>3, QuietSound DEF Follows, SameEra
  <2> HIDE DEF s
  <2>5. Frees(sched, s, {})
    BY <2>3, KeepsFrees
  <2>6. Sound(Start(s, plan)) /\ SlotsStay(s, Start(s, plan))
    BY <2>3, <2>4, StartSound, StartKeeps
  <2> QED BY <1>3, <2>1, <2>5, <2>6 DEF s
<1>6. CASE TimeAdvanced
  BY <1>2, <1>4, <1>6 DEF TimeAdvanced
<1>7. CASE ConfigChanged
  BY <1>3, <1>4, <1>7, ReconfigureSound, ReconfigureKeeps DEF ConfigChanged
<1>8. CASE InventoryChanged
  BY <1>3, <1>4, <1>8, ChangeInventorySound, ChangeInventoryKeeps DEF InventoryChanged
<1>9. CASE DemandChanged
  BY <1>3, <1>4, <1>9, PlanType, ChangeDemandSound, ChangeDemandKeeps DEF DemandChanged
<1>10. CASE TooltipPresented
  BY <1>3, <1>4, <1>10, PresentationSound, PresentationKeeps DEF TooltipPresented
<1>11. CASE TooltipReactivated
  <2>1. PICK at \in Times : Accept(RefreshActivation(At(at))) \/ Accept(At(at))
    BY <1>11 DEF TooltipReactivated
  <2>2. Sound(RefreshActivation(At(at))) /\ SlotsStay(At(at), RefreshActivation(At(at)))
    BY <1>4, RefreshActivationSound, PresentationKeeps
  <2> QED BY <1>2, <1>3, <1>4, <2>1, <2>2
<1>12. CASE SelectedPageChanged
  BY <1>3, <1>4, <1>12, ChangePageSound, ChangeDemandKeeps DEF SelectedPageChanged
<1>13. CASE DisplayRefreshRequested
  BY <1>3, <1>4, <1>13, PublishSound, PublishKeeps
     DEF DisplayRefreshRequested, Follows, PublishReason, OptTime
<1>14. CASE TooltipRefreshRequested
  BY <1>3, <1>4, <1>14, PublishSound, PublishKeeps
     DEF TooltipRefreshRequested, Follows, PublishReason, OptTime
<1>15. CASE JobFinished
  <2>1. PICK at \in Times, t \in InFlight(sched), completion \in Outcomes, ready \in BOOLEAN :
          \/ /\ CurrentTicket(Elapse(At(at)), t)
             /\ Accept(FinishJob(Elapse(At(at)), t, completion, ready))
          \/ Reject(Elapse(At(at)))
    BY <1>15 DEF JobFinished
  <2> DEFINE e == Elapse(At(at))
             m == FinishJob(e, t, completion, ready)
             F == {OwnerOf[t.job]}
  <2>2. t \in Ticket /\ completion \in Completions
    BY <1>1, LiveTickets, PlansAssumption DEF Live, Sound
  <2>3. Sound(e) /\ Frees(sched, e, {}) /\ Slotted(e)
    BY <1>4
  <2> HIDE DEF e
  <2>4. CASE CurrentTicket(e, t) /\ Accept(m)
    <3>1. Sound(m) /\ Frees(e, m, F)
      BY <2>2, <2>3, <2>4, FinishJobSound, FinishJobFrees DEF Sound
    <3> HIDE DEF m, F
    <3>2. Frees(sched, m, F)
      BY <2>3, <3>1 DEF Frees
    <3> QED BY <1>2, <2>4, <3>1, <3>2
  <2>5. CASE Reject(e)
    <3>1. /\ sched'.cancelling = e.cancelling /\ sched'.next_run_id = e.next_run_id
          /\ sched'.in_flight_owners = e.in_flight_owners
      BY <2>3, <2>5 DEF Reject, Slotted
    <3>2. e.next_run_id >= e.next_run_id
      BY <2>3 DEF Sound, IsState
    <3>3. Starts(e, sched')
      BY <3>1, <3>2 DEF Starts
    <3> QED BY <1>1, <2>3, <3>3, SlotsMove DEF Moves, SlotInv, OwnershipInv
  <2> QED BY <2>1, <2>4, <2>5 DEF e
<1>16. CASE JobCancelled
  <2>1. PICK at \in Times, t \in sched.cancelling :
          Accept(FinishCancellation(Elapse(At(at)), t))
    BY <1>16 DEF JobCancelled
  <2> DEFINE e == Elapse(At(at))
             m == FinishCancellation(e, t)
             F == {OwnerOf[t.job]}
  <2>2. Sound(e) /\ Frees(sched, e, {})
    BY <1>4
  <2>3. t \in e.cancelling
    BY <2>2 DEF Frees
  <2> HIDE DEF e
  <2>4. Sound(m) /\ Frees(e, m, F)
    BY <2>2, <2>3, FinishCancellationSound, FinishCancellationFrees
  <2> HIDE DEF m, F
  <2>5. Frees(sched, m, F)
    BY <2>2, <2>4 DEF Frees
  <2> QED BY <1>2, <2>1, <2>4, <2>5 DEF m, e
<1>17. CASE RefreshTriggered
  BY <1>2, <1>3, <1>4, <1>17, MarkJobsSound, MarkJobsKeeps DEF RefreshTriggered, Follows
<1>18. CASE PanelPublished
  <2>1. PICK at \in Times, publication \in sched.panel_publications :
          Accept([At(at) EXCEPT !.panel_publications = @ \ {publication},
                                !.notifications_armed = TRUE])
    BY <1>18 DEF PanelPublished
  <2> DEFINE s == At(at)
             ps == s.panel_publications \ {publication}
             m == [s EXCEPT !.panel_publications = ps, !.notifications_armed = TRUE]
  <2>2. Sound(s) /\ Slotted(s) /\ Frees(sched, s, {})
    BY <1>4
  <2> HIDE DEF s
  <2>3. IsState(s) /\ ps \subseteq Nat
    BY <2>2 DEF Sound, IsState
  <2> HIDE DEF ps
  <2>4. IsState(m) /\ SameRuns(s, m) /\ SameEra(s, m) /\ SlotsStay(s, m)
    BY <2>3 DEF IsState, SameRuns, SameEra, Jobs, Slotted, SlotsStay
  <2>5. Sound(m)
    BY <2>2, <2>4, QuietSound DEF Follows
  <2> QED BY <1>3, <2>1, <2>2, <2>4, <2>5 DEF m, s, ps
<1>19. CASE Suspend
  <2>1. PICK at \in Times :
          \/ Accept([CancelAll(At(at), "Suspend") EXCEPT !.lifecycle = "Suspended"])
          \/ Accept(At(at))
    BY <1>19 DEF Suspend
  <2> DEFINE m == [CancelAll(At(at), "Suspend") EXCEPT !.lifecycle = "Suspended"]
  <2>2. Sound(m) /\ SlotsStay(At(at), m)
    BY <1>4, HaltSound, LifecycleKeeps
  <2> HIDE DEF m
  <2> QED BY <1>2, <1>3, <1>4, <2>1, <2>2 DEF m
<1>20. CASE Resume
  <2>1. PICK at \in Times :
          \/ Accept(ResumeRunning(At(at))) /\ sched.lifecycle = "Suspended"
          \/ Accept(At(at))
    BY <1>20 DEF Resume
  <2>2. SlotsStay(At(at), ResumeRunning(At(at)))
    BY <1>4, LifecycleKeeps
  <2>3. sched.lifecycle = "Suspended" => Sound(ResumeRunning(At(at)))
    BY <1>4, AtSound, ResumeRunningSound DEF SlotInv
  <2> QED BY <1>2, <1>3, <1>4, <2>1, <2>2, <2>3
<1>21. CASE Shutdown
  BY <1>3, <1>4, <1>21, HaltSound, LifecycleKeeps DEF Shutdown
<1>22. CASE UNCHANGED sched
  <2>1. sched.next_run_id >= sched.next_run_id
    BY <1>1 DEF Sound, IsState
  <2>2. Starts(sched, sched') /\ Frees(sched, sched, {})
    BY <1>22, <2>1 DEF Starts, Frees
  <2> QED BY <1>1, <2>2, SlotsMove DEF Moves, SlotInv, OwnershipInv
<1> QED
  BY <1>5, <1>6, <1>7, <1>8, <1>9, <1>10, <1>11, <1>12, <1>13, <1>14, <1>15, <1>16, <1>17,
     <1>18, <1>19, <1>20, <1>21, <1>22 DEF Next

(* Seen through the slots such a step is one of WorkerSlots.                  *)
LEMMA SlotTransition ==
  ASSUME SlotInv, Moves
  PROVE  Slots!Transition
<1> DEFINE u == sched'
<1>1. /\ Sound(sched) /\ Sound(u) /\ Numbered(sched) /\ Numbered(u)
      /\ SlotStep(sched, u)
  BY DEF Moves, SlotInv, OwnershipInv
<1>2. \A o \in OwnerId : SlotOf(o) = SlotIn(sched, o) /\ SlotOf(o)' = SlotIn(u, o)
  BY DEF SlotOf, SlotIn
<1>3. ASSUME NEW o \in OwnerId
      PROVE  /\ SlotOf(o) = Slots!Free <=> sched.in_flight_owners[o] = 0
             /\ SlotOf(o)' = Slots!Free <=> u.in_flight_owners[o] = 0
  BY <1>1, <1>2, CancelledRuns DEF Sound, Owned, Live, SlotIn, Slots!Free
<1>4. u.next_run_id \in Nat
  BY <1>1 DEF Sound, IsState
<1> HIDE DEF u
<1>5. Slots!Left = Lost(sched, u) /\ Slots!Taken = Got(sched, u)
  BY <1>2, <1>3 DEF Slots!Left, Slots!Taken, Lost, Got, SlotIn, u
<1>6. ASSUME NEW o \in OwnerId \ (Lost(sched, u) \cup Got(sched, u))
      PROVE  SlotIn(u, o) \in {SlotIn(sched, o),
                               [SlotIn(sched, o) EXCEPT !.cancelled = SlotOf(o) # Slots!Free]}
  <2>1. u.in_flight_owners[o] = sched.in_flight_owners[o]
    BY <1>6 DEF Lost, Got
  <2>2. SlotIn(sched, o).cancelled => SlotIn(u, o).cancelled
    BY <1>1, <1>6 DEF SlotStep
  <2>3. SlotIn(u, o).cancelled => u.in_flight_owners[o] # 0
    BY <1>1, CancelledRuns DEF Sound, Owned, Live
  <2> DEFINE run == sched.in_flight_owners[o]
             was == SlotIn(sched, o).cancelled
             is  == SlotIn(u, o).cancelled
             busy == SlotOf(o) # Slots!Free
  <2>4. was \in BOOLEAN /\ is \in BOOLEAN /\ busy \in BOOLEAN
    BY DEF SlotIn
  <2>5. /\ SlotIn(sched, o) = [run |-> run, cancelled |-> was]
        /\ SlotIn(u, o) = [run |-> run, cancelled |-> is]
    BY <2>1 DEF SlotIn
  <2>6. (was => is) /\ (is => busy)
    BY <1>3, <2>1, <2>2, <2>3
  <2> HIDE DEF run, was, is, busy
  <2>7. is = was \/ is = busy
    BY <2>4, <2>6
  <2>8. SlotIn(u, o) \in {SlotIn(sched, o), [SlotIn(sched, o) EXCEPT !.cancelled = busy]}
    BY <2>5, <2>7
  <2> QED BY <2>8 DEF busy
<1>7. /\ \A o, p \in Slots!Left : o = p
      /\ \A o, p \in Slots!Taken : SlotOf(o)'.run = SlotOf(p)'.run => o = p
  BY <1>1, <1>2, <1>5 DEF SlotStep, SlotIn, Got
<1>8. \A o \in OwnerId \ (Slots!Left \cup Slots!Taken) :
        SlotOf(o)' \in {SlotOf(o), [SlotOf(o) EXCEPT !.cancelled = SlotOf(o) # Slots!Free]}
  BY <1>2, <1>5, <1>6
<1>9. \A o \in Slots!Taken :
        SlotOf(o)'.run \in sched.next_run_id..(u.next_run_id - 1) /\ ~SlotOf(o)'.cancelled
  BY <1>1, <1>2, <1>5 DEF SlotStep, SlotIn, Got
<1>10. sched'.next_run_id = u.next_run_id /\ u.next_run_id >= sched.next_run_id
  BY <1>1 DEF SlotStep, u
<1> QED BY <1>4, <1>7, <1>8, <1>9, <1>10 DEF Slots!Transition, Slots!Left, Slots!Taken

(* The machine implements WorkerSlots: an owner is freed by the answer of its *)
(* own worker and by nothing else, one at a time, and run numbers are never   *)
(* reused.                                                                    *)
THEOREM SlotsAreKept == Spec => KeepsSlots
<1>1. SlotInv /\ [Next]_sched => SlotInv' /\ Slots!Transition
  BY StepMoves, SlotTransition DEF Moves
<1> QED BY <1>1, InitSlots, PTL DEF Spec, KeepsSlots, Slots!SlotsSpec
=============================================================================
