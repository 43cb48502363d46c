------------------------------ MODULE Scheduler ------------------------------
(* The deterministic scheduler of plasma-top (src/scheduler/machine.rs and    *)
(* its submodules).  The variable sched is the Scheduler struct.  Every       *)
(* handler of the machine is an operator from a state to the next state, as   *)
(* the code composes them: an event first runs its handler (time-driven       *)
(* events run ProcessTime before it) and then, when the machine runs,         *)
(* Dispatch.  sched.actions holds the actions the last event returned;        *)
(* ApplyBackoff and ScheduleDeadline, which the daemon ignores, are left out. *)
(* An event the code rejects without touching the state is not a step.        *)
EXTENDS SchedulerPolicy, FiniteSets

CONSTANTS
  JobId, OwnerId, PageId,      \* identities of jobs, owners and tooltip pages
  OwnerOf,                     \* JobId.owner
  JobRank,                     \* the derived Ord of JobId
  PageWork, Discovery,         \* the jobs of the page kinds, of HardwareDiscovery
  AmdJobs, WideAmd,            \* AmdJob values; those with tooltip-only metrics
  NoJob, NoAmd,                \* absent history_source and amd
  MainPage,                    \* PageId::Main
  Plans,                       \* configurations the daemon can pass in
  FAST_PREFETCH, FIRST_PAINT_TIMEOUT, ACTIVATION_REFRESH_TIMEOUT,
  DEACTIVATION_GRACE, RETRY_BASE,
  Inputs, Outcomes,            \* environment events and completions this instance has
  MaxStep, MaxNow, MaxRuns, MaxPublications, MaxGeneration, MaxResumes  \* bounds

Timing == {"FastDisplay", "Periodic", "History", "Triggered"}

JobSpec == [timing: Timing, freshness: Nat \ {0}, history_source: JobId \cup {NoJob},
            startup_panel: BOOLEAN, counter: BOOLEAN, amd: AmdJobs \cup {NoAmd}]

(* f is a map from some of the jobs to S.                                     *)
IsJobMap(f, S) == DOMAIN f \subseteq JobId /\ f \in [DOMAIN f -> S]

DemandPlan == [hidden: SUBSET JobId, main_tooltip: SUBSET JobId,
               pages: [PageId -> SUBSET JobId]]

IsPlan(p) ==
  /\ p \in [display_interval: Nat \ {0}, jobs: {p.jobs}, demand: DemandPlan]
  /\ IsJobMap(p.jobs, JobSpec)

ASSUME JobsAssumption ==
  /\ IsFiniteSet(JobId)
  /\ OwnerOf \in [JobId -> OwnerId]
  /\ JobRank \in [JobId -> Nat]
  /\ \A i, j \in JobId : JobRank[i] = JobRank[j] => i = j
  /\ PageWork \subseteq JobId /\ Discovery \subseteq JobId
  /\ NoJob \notin JobId /\ NoAmd \notin AmdJobs /\ WideAmd \subseteq AmdJobs
  /\ MainPage \in PageId

Completions == {"Captured", "Baseline", "ConfirmedAbsent", "Failed"}

ASSUME PlansAssumption == (\A p \in Plans : IsPlan(p)) /\ Outcomes \subseteq Completions

(* What the constructors of JobSpec and their callers in the catalogue make   *)
(* of the timings: fast jobs have the cadence of the display; a history has   *)
(* no AMD metrics, is no discovery job, and samples a job of its own owner,   *)
(* which is no history.                                                       *)
IsCatalogued(p) ==
  \A j \in DOMAIN p.jobs :
    LET spec   == p.jobs[j]
        source == spec.history_source
    IN  /\ spec.timing = "FastDisplay" => spec.freshness = p.display_interval
        /\ spec.timing = "History" => spec.amd = NoAmd /\ j \notin Discovery
        /\ source # NoJob => spec.timing = "History" /\ OwnerOf[source] = OwnerOf[j]
        /\ source \in DOMAIN p.jobs => p.jobs[source].timing # "History"

(* The shortest cadence a configuration may have is twice FAST_PREFETCH.      *)
ASSUME CatalogueAssumption ==
  \A p \in Plans : IsCatalogued(p) /\ p.display_interval >= FAST_PREFETCH

ASSUME TimesAssumption ==
  /\ FAST_PREFETCH \in Nat \ {0} /\ FIRST_PAINT_TIMEOUT \in Nat \ {0}
  /\ ACTIVATION_REFRESH_TIMEOUT \in Nat \ {0} /\ DEACTIVATION_GRACE \in Nat \ {0}
  /\ RETRY_BASE \in Nat \ {0}

ASSUME BoundsAssumption ==
  {MaxStep, MaxNow, MaxRuns, MaxPublications, MaxGeneration, MaxResumes} \subseteq Nat

Ticket == [run: Nat, job: JobId, config: Nat, inventory: Nat, history: OptTime, wide: BOOLEAN]

(* An Option<JobTicket> is a set of at most one ticket.                       *)
JobRuntime == [spec: JobSpec, nominal_due: OptTime, retry_due: OptTime,
               pending_since: OptTime, pending_history: OptTime,
               in_flight: SUBSET Ticket, has_sample: BOOLEAN, failure_count: Nat]

Lifecycle == {"Unstarted", "Running", "Suspended", "Stopped"}

VARIABLE sched

NoPlan == [hidden |-> {}, main_tooltip |-> {}, pages |-> [p \in PageId |-> {}]]

(* Run id 0 stands for an owner absent from in_flight_owners, reconciliation  *)
(* id 0 for no awaited inventory: the code's counters start at 1.             *)
Init ==
  sched = [lifecycle |-> "Unstarted", now |-> 0, accepted |-> TRUE, actions |-> {},
           config_generation |-> 0, inventory_generation |-> 0,
           display_interval |-> 1, next_display |-> None,
           jobs |-> [j \in {} |-> NoJob], demand |-> NoPlan,
           presented |-> FALSE, effective_presented |-> FALSE, selected_page |-> MainPage,
           deactivation_deadline |-> None,
           activation_deadline |-> None, activation_waiting |-> {},
           first_paint_deadline |-> None, first_paint_waiting |-> {},
           first_paint_issued |-> FALSE,
           notifications_armed |-> FALSE, panel_publications |-> {},
           in_flight_owners |-> [o \in OwnerId |-> 0], cancelling |-> {},
           awaiting_resume_inventory |-> 0,
           next_run_id |-> 1, next_publication_id |-> 1,
           next_resume_reconciliation_id |-> 1]

-----------------------------------------------------------------------------
(* Jobs and demand.                                                           *)

Jobs(s) == DOMAIN s.jobs

IsHistory(rt) == rt.spec.timing = "History"

FastDue(display) == SatSub(display, FAST_PREFETCH)

NewRuntime(spec, anchor, display) ==
  [spec |-> spec,
   nominal_due |-> CASE spec.timing = "FastDisplay" -> FastDue(display)
                     [] spec.timing \in {"Periodic", "History"} -> anchor + spec.freshness
                     [] spec.timing = "Triggered" -> None,
   retry_due |-> None, pending_since |-> None, pending_history |-> None,
   in_flight |-> {}, has_sample |-> FALSE, failure_count |-> 0]

MarkPending(rt, at) ==
  IF rt.pending_since = None THEN [rt EXCEPT !.pending_since = at] ELSE rt

MarkHistoryPending(rt, deadline) ==
  [MarkPending(rt, deadline) EXCEPT !.pending_history = deadline]

ClearPending(rt) ==
  [rt EXCEPT !.pending_since = None, !.pending_history = None, !.retry_due = None]

Demanded(demand, presented, page) ==
  demand.hidden \cup
    IF presented THEN demand.main_tooltip \cup demand.pages[page] ELSE {}

CurrentDemand(s) == Demanded(s.demand, s.effective_presented, s.selected_page)

(* The jobs first paint waits for, and the mark that makes them start.        *)
StartupPanel(rt) == rt.spec.startup_panel /\ ~IsHistory(rt)

InFlight(s) == UNION {s.jobs[j].in_flight : j \in Jobs(s)}

Live(s) == InFlight(s) \cup s.cancelling

(* A history job runs only once its source has a sample.                      *)
SourceReady(s, rt) ==
  LET source == rt.spec.history_source
  IN  source = NoJob \/ (source \in Jobs(s) /\ s.jobs[source].has_sample)

-----------------------------------------------------------------------------
(* Publications (machine/publication.rs).                                     *)

PublishAction(id, reason, deadline, skipped, panel, tooltip) ==
  [kind |-> "PublishDisplay", publication |-> id, reason |-> reason, deadline |-> deadline,
   skipped |-> skipped, panel |-> panel, tooltip |-> tooltip]

Publications(s) == {a \in s.actions : a.kind = "PublishDisplay"}

(* Fault: every publication is a frame of its own.                            *)
NoneIssued(s) == {}

IssuedTooltips(s) == {a \in Publications(s) : a.tooltip}

(* A tooltip refresh is dropped after another tooltip publication of the same *)
(* transition, and one issued earlier is widened by a later full publication. *)
IssuePublish(s, reason, deadline, skipped, panel, wanted) ==
  LET tooltip == wanted /\ s.presented
      refresh == {a \in IssuedTooltips(s) : a.reason = "TooltipRefresh"}
      widened == CHOOSE a \in refresh : TRUE
      Out(id) == PublishAction(id, reason, deadline, skipped, panel, tooltip)
  IN  IF ~panel /\ ~tooltip THEN s
      ELSE IF reason = "TooltipRefresh" /\ IssuedTooltips(s) # {} THEN s
      ELSE IF panel /\ tooltip /\ refresh # {} THEN
        [s EXCEPT !.actions = (@ \ {widened}) \cup {Out(widened.publication)},
                  !.panel_publications = @ \cup {widened.publication}]
      ELSE
        [s EXCEPT !.actions = @ \cup {Out(s.next_publication_id)},
                  !.panel_publications = IF panel THEN @ \cup {s.next_publication_id} ELSE @,
                  !.next_publication_id = @ + 1]

PublishTooltip(s, reason) == IssuePublish(s, reason, None, 0, FALSE, TRUE)

PublishFull(s, reason, deadline, skipped) ==
  IssuePublish(s, reason, deadline, skipped, TRUE, s.effective_presented)

(* Fault: fast jobs are anchored at the display deadline, not before it.      *)
ReanchorAtDisplay(s) ==
  IF s.next_display = None THEN s
  ELSE [s EXCEPT !.jobs = [j \in DOMAIN @ |->
          IF @[j].spec.timing = "FastDisplay"
          THEN [@[j] EXCEPT !.nominal_due = s.next_display] ELSE @[j]]]

ReanchorFast(s) ==
  IF s.next_display = None THEN s
  ELSE [s EXCEPT !.jobs = [j \in DOMAIN @ |->
          IF @[j].spec.timing = "FastDisplay"
          THEN [@[j] EXCEPT !.nominal_due = FastDue(s.next_display)] ELSE @[j]]]

IssueFirstPaint(s, reason) ==
  LET skipped == IF s.next_display = None THEN 0
                 ELSE DueIntervals(s.next_display, s.display_interval, s.now)
      painted == [s EXCEPT !.first_paint_issued = TRUE, !.first_paint_deadline = None,
                           !.first_paint_waiting = {}]
      moved   == IF Due(s.next_display, s.now)
                 THEN ReanchorFast([painted EXCEPT !.next_display =
                        AdvancePast(@, s.display_interval, s.now)])
                 ELSE painted
  IN  IF s.first_paint_issued THEN s ELSE PublishFull(moved, reason, None, skipped)

-----------------------------------------------------------------------------
(* Cancellation and demand (machine/demand.rs).                               *)

(* The runs of the jobs in J leave in_flight for cancelling, where they keep  *)
(* their owner until the worker acknowledges.                                 *)
CancelRuns(s, J, reason) ==
  LET taken == UNION {s.jobs[j].in_flight : j \in J}
  IN  [s EXCEPT !.jobs = [j \in DOMAIN @ |->
                            IF j \in J THEN [@[j] EXCEPT !.in_flight = {}] ELSE @[j]],
                !.cancelling = @ \cup taken,
                !.actions = @ \cup {[kind |-> "CancelJob", ticket |-> t, reason |-> reason] :
                                      t \in taken}]

(* Fault: histories are left to finish.                                       *)
CancelSamples(s, reason) == CancelRuns(s, {j \in Jobs(s) : ~IsHistory(s.jobs[j])}, reason)

CancelAll(s, reason) == CancelRuns(s, Jobs(s), reason)

MarkJobs(s, J) ==
  [s EXCEPT !.jobs = [j \in DOMAIN @ |-> IF j \in J THEN MarkPending(@[j], s.now) ELSE @[j]]]

(* Demanded startup jobs without a sample.                                    *)
FirstPaintBlockers(s) ==
  {j \in Jobs(s) \cap CurrentDemand(s) : StartupPanel(s.jobs[j]) /\ ~s.jobs[j].has_sample}

SourceChanged(old, spec) ==
  old.spec.history_source # spec.history_source \/ old.spec.amd # spec.amd

(* The runtime that replaces old, if the job existed, under its new spec.     *)
ReplacedRuntime(s, old, spec, display) ==
  IF old.spec = spec THEN old
  ELSE [NewRuntime(spec, s.now, display) EXCEPT
          !.has_sample = old.has_sample /\ ~SourceChanged(old, spec)]

Invalidate(j, whole) == [kind |-> "InvalidateJob", job |-> j, whole |-> whole]

Invalidated(s, specs) ==
  {Invalidate(j, s.jobs[j].spec.amd = NoAmd \/ specs[j].amd = NoAmd) :
     j \in {k \in Jobs(s) \cap DOMAIN specs : SourceChanged(s.jobs[k], specs[k])}}
  \cup {Invalidate(j, TRUE) : j \in Jobs(s) \ DOMAIN specs}

ReplaceJobs(s, specs, reason) ==
  LET c        == CancelAll(s, reason)
      display  == IF c.next_display = None THEN c.now + c.display_interval ELSE c.next_display
      replaced == [c EXCEPT
        !.jobs = [j \in DOMAIN specs |->
                    IF j \in Jobs(c) THEN ReplacedRuntime(c, c.jobs[j], specs[j], display)
                    ELSE NewRuntime(specs[j], c.now, display)],
        !.actions = @ \cup Invalidated(c, specs),
        !.activation_waiting = @ \cap DOMAIN specs,
        !.first_paint_waiting = {}]
      blockers == FirstPaintBlockers(replaced)
  IN  IF s.first_paint_issued THEN replaced
      ELSE [MarkJobs(replaced, blockers) EXCEPT !.first_paint_waiting = blockers]

ActivateJobs(s, before, after, track) ==
  LET fresh    == {j \in (after \ before) \cap Jobs(s) : ~IsHistory(s.jobs[j])}
      waiting  == (s.activation_waiting \cap after) \cup IF track THEN fresh ELSE {}
      deadline == IF waiting = {} THEN None
                  ELSE IF track /\ s.activation_deadline = None
                       THEN s.now + ACTIVATION_REFRESH_TIMEOUT
                       ELSE s.activation_deadline
  IN  [MarkJobs(s, fresh) EXCEPT !.activation_waiting = waiting,
                                 !.activation_deadline = deadline]

CancelDemandEnded(s, before, after) ==
  LET ended == (before \ after) \cap PageWork \cap Jobs(s)
      c     == CancelRuns(s, ended, "DemandEnded")
  IN  [c EXCEPT !.jobs = [j \in DOMAIN @ |->
                            IF j \in ended THEN ClearPending(@[j]) ELSE @[j]]]

RefreshDemand(s, cancelPageJobs) ==
  LET demanded == CurrentDemand(s)
      ended    == IF cancelPageJobs THEN (Jobs(s) \cap PageWork) \ demanded ELSE {}
      c        == CancelRuns(s, ended, "DemandEnded")
      Lacking(rt) == ~IsHistory(rt) /\ rt.in_flight = {} /\ ~rt.has_sample
  IN  [c EXCEPT !.jobs = [j \in DOMAIN @ |->
         IF j \notin demanded THEN ClearPending(@[j])
         ELSE IF Lacking(@[j]) THEN MarkPending(@[j], s.now) ELSE @[j]]]

RefreshAllDemanded(s) ==
  [s EXCEPT !.jobs = [j \in DOMAIN @ |->
     IF j \in CurrentDemand(s) /\ ~IsHistory(@[j])
     THEN [MarkPending(@[j], s.now) EXCEPT !.retry_due = None] ELSE @[j]]]

RebuildFirstPaintBlockers(s) ==
  LET blockers == FirstPaintBlockers(s)
      rebuilt  == [s EXCEPT !.first_paint_waiting = blockers]
  IN  IF s.first_paint_issued THEN s
      ELSE IF blockers = {} THEN IssueFirstPaint(rebuilt, "FirstPaintReady")
      ELSE rebuilt

-----------------------------------------------------------------------------
(* Time (machine.rs, process_time).                                           *)

(* Fault: the end of the grace only forgets pending page work.                *)
ExpireWithoutCancelling(s) ==
  LET cleared == [s EXCEPT !.deactivation_deadline = None]
  IN  IF ~Due(s.deactivation_deadline, s.now) THEN s
      ELSE IF s.presented THEN cleared
      ELSE RefreshDemand([cleared EXCEPT !.effective_presented = FALSE], FALSE)

ExpireDeactivation(s) ==
  LET cleared == [s EXCEPT !.deactivation_deadline = None]
  IN  IF ~Due(s.deactivation_deadline, s.now) THEN s
      ELSE IF s.presented THEN cleared
      ELSE RefreshDemand([cleared EXCEPT !.effective_presented = FALSE], TRUE)

(* Fault: the first paint waits for its jobs alone.                           *)
NeverExpire(s) == s

ExpireFirstPaint(s) ==
  IF Due(s.first_paint_deadline, s.now) THEN IssueFirstPaint(s, "FirstPaintTimeout") ELSE s

(* Fault: the wait is given up in silence.                                    *)
ForgetActivation(s) ==
  IF Due(s.activation_deadline, s.now)
  THEN [s EXCEPT !.activation_deadline = None, !.activation_waiting = {}] ELSE s

ExpireActivation(s) ==
  IF Due(s.activation_deadline, s.now)
  THEN PublishTooltip([s EXCEPT !.activation_deadline = None, !.activation_waiting = {}],
                      "TooltipRefresh")
  ELSE s

ExpireDisplay(s) ==
  IF s.first_paint_issued /\ Due(s.next_display, s.now)
  THEN [PublishFull(s, "DisplayDeadline", s.next_display,
                    SkippedIntervals(s.next_display, s.display_interval, s.now))
          EXCEPT !.next_display = AdvancePast(@, s.display_interval, s.now)]
  ELSE s

RetriedRuntime(rt, now) ==
  IF Due(rt.retry_due, now) THEN MarkPending([rt EXCEPT !.retry_due = None], now) ELSE rt

(* A due history deadline is dropped, not kept, while its source has nothing. *)
DueRuntime(rt, ready, now) ==
  LET marked == IF ~IsHistory(rt) THEN MarkPending(rt, now)
                ELSE IF ready THEN
                  MarkHistoryPending(rt, LatestDueAtOrBefore(rt.nominal_due,
                                                             rt.spec.freshness, now))
                ELSE rt
  IN  IF Due(rt.nominal_due, now)
      THEN [marked EXCEPT !.nominal_due = AdvancePast(@, rt.spec.freshness, now)]
      ELSE rt

MarkDueJobs(s) ==
  [s EXCEPT !.jobs = [j \in DOMAIN @ |->
     IF j \in CurrentDemand(s)
     THEN DueRuntime(RetriedRuntime(@[j], s.now), SourceReady(s, @[j]), s.now)
     ELSE @[j]]]

ProcessTime(s) ==
  MarkDueJobs(ExpireDisplay(ExpireActivation(ExpireFirstPaint(ExpireDeactivation(s)))))

(* The handlers of time, completions and triggers look at the clock first.    *)
Elapse(s) == IF s.lifecycle = "Running" THEN ProcessTime(s) ELSE s

-----------------------------------------------------------------------------
(* Dispatch: each free owner starts its first candidate; startup jobs go      *)
(* first until the first paint, then the longest pending, then identity order.*)

Candidates(s) ==
  {j \in Jobs(s) \cap CurrentDemand(s) :
     LET rt == s.jobs[j]
     IN  /\ rt.pending_since # None /\ rt.in_flight = {}
         /\ rt.retry_due = None \/ rt.retry_due <= s.now
         /\ IsHistory(rt) => SourceReady(s, rt)}

Before(s, i, j) ==
  LET urgent(k) == ~s.first_paint_issued /\ s.jobs[k].spec.startup_panel
      since(k)  == s.jobs[k].pending_since
  IN  \/ urgent(i) /\ ~urgent(j)
      \/ /\ urgent(i) <=> urgent(j)
         /\ \/ since(i) < since(j)
            \/ since(i) = since(j) /\ JobRank[i] < JobRank[j]

Chosen(s) ==
  {j \in Candidates(s) :
     /\ s.in_flight_owners[OwnerOf[j]] = 0
     /\ \A k \in Candidates(s) : OwnerOf[k] = OwnerOf[j] => ~Before(s, k, j)}

(* Fault: the runs of one dispatch share a number.                            *)
SameRun(s, j) == s.next_run_id

RunOf(s, j) == s.next_run_id + Cardinality({k \in Chosen(s) : Before(s, k, j)})

NewTicket(s, j) ==
  [run |-> RunOf(s, j), job |-> j, config |-> s.config_generation,
   inventory |-> s.inventory_generation, history |-> s.jobs[j].pending_history,
   wide |-> s.presented /\ s.jobs[j].spec.amd \in WideAmd]

Dispatch(s) ==
  LET chosen == Chosen(s)
      Runs(o) == {RunOf(s, j) : j \in {k \in chosen : OwnerOf[k] = o}}
      started == [s EXCEPT
        !.jobs = [j \in DOMAIN @ |->
          IF j \in chosen
          THEN [@[j] EXCEPT !.pending_since = None, !.pending_history = None,
                            !.in_flight = {NewTicket(s, j)}]
          ELSE @[j]],
        !.in_flight_owners = [o \in OwnerId |->
          IF Runs(o) = {} THEN @[o] ELSE CHOOSE r \in Runs(o) : TRUE],
        !.next_run_id = @ + Cardinality(chosen),
        !.actions = @ \cup {[kind |-> "StartJob", ticket |-> NewTicket(s, j)] : j \in chosen}]
  IN  IF s.lifecycle # "Running" \/ s.awaiting_resume_inventory # 0 THEN s ELSE started

(* Fault: retries are left to the cadence.                                    *)
DeadlinesWithoutRetry(s) ==
  {s.jobs[j].nominal_due : j \in Jobs(s) \cap CurrentDemand(s)} \cup
  {s.next_display, s.first_paint_deadline, s.deactivation_deadline, s.activation_deadline}

Deadlines(s) ==
  {Earlier(s.jobs[j].retry_due, s.jobs[j].nominal_due) : j \in Jobs(s) \cap CurrentDemand(s)}
  \cup {s.next_display, s.first_paint_deadline, s.deactivation_deadline, s.activation_deadline}

NextWake(s) ==
  LET all == Deadlines(s) \ {None}
  IN  IF s.lifecycle # "Running" \/ s.awaiting_resume_inventory # 0 \/ all = {} THEN None
      ELSE CHOOSE t \in all : \A u \in all : t <= u

-----------------------------------------------------------------------------
(* Completions and lifecycle (machine.rs).                                    *)

CurrentTicket(s, t) ==
  /\ t.config = s.config_generation /\ t.inventory = s.inventory_generation
  /\ t.job \in Jobs(s) /\ t \in s.jobs[t.job].in_flight

(* Fault: a success takes back one failure instead of forgetting them.        *)
Recovering(rt, completion, now) ==
  LET free == [rt EXCEPT !.in_flight = {}]
  IN  CASE completion = "Captured" ->
             [free EXCEPT !.has_sample = TRUE, !.failure_count = @ - 1, !.retry_due = None]
        [] completion \in {"Baseline", "ConfirmedAbsent"} ->
             [free EXCEPT !.failure_count = 0, !.retry_due = None]
        [] completion = "Failed" -> [free EXCEPT !.failure_count = @ + 1]

CompletedRuntime(rt, completion, now) ==
  LET failures == rt.failure_count + 1
      retry(delay) == IF IsHistory(rt) THEN rt.retry_due ELSE now + delay
      free == [rt EXCEPT !.in_flight = {}]
  IN  CASE completion = "Captured" ->
             [free EXCEPT !.has_sample = TRUE, !.failure_count = 0, !.retry_due = None]
        [] completion = "Baseline" ->
             [free EXCEPT !.failure_count = 0,
                          !.retry_due = IF IsHistory(rt) THEN None ELSE now + RETRY_BASE]
        [] completion = "ConfirmedAbsent" ->
             [free EXCEPT !.has_sample = FALSE, !.failure_count = 0, !.retry_due = None]
        [] completion = "Failed" ->
             [free EXCEPT !.failure_count = failures,
                          !.retry_due = retry(RetryDelay(RETRY_BASE, failures,
                                                         rt.spec.freshness))]

(* Histories of a source that is gone lose their sample and pending point.    *)
InvalidateHistories(s, source) ==
  LET dependent == {j \in Jobs(s) : s.jobs[j].spec.history_source = source}
  IN  [s EXCEPT
        !.jobs = [j \in DOMAIN @ |->
          IF j \in dependent
          THEN [@[j] EXCEPT !.has_sample = FALSE, !.pending_since = None,
                            !.pending_history = None]
          ELSE @[j]],
        !.actions = @ \cup {Invalidate(j, TRUE) : j \in dependent}]

CompleteFirstPaint(s) ==
  IF s.first_paint_waiting = {} THEN IssueFirstPaint(s, "FirstPaintReady") ELSE s

CompleteActivation(s) ==
  IF s.activation_deadline # None /\ s.activation_waiting = {}
  THEN PublishTooltip([s EXCEPT !.activation_deadline = None], "TooltipRefresh")
  ELSE s

FinishJob(s, t, completion, ready) ==
  LET job      == t.job
      notifies == ready /\ s.notifications_armed /\ ~IsHistory(s.jobs[job])
      released == [s EXCEPT
        !.jobs = [j \in DOMAIN @ |-> IF j = job THEN CompletedRuntime(@[j], completion, s.now)
                                     ELSE @[j]],
        !.in_flight_owners = [@ EXCEPT ![OwnerOf[job]] = 0],
        !.first_paint_waiting = @ \ {job},
        !.activation_waiting = @ \ {job},
        !.actions = @ \cup IF notifies THEN {[kind |-> "EvaluateNotifications", ticket |-> t]}
                           ELSE {}]
      settled  == IF completion = "ConfirmedAbsent" THEN InvalidateHistories(released, job)
                  ELSE released
  IN  CompleteActivation(CompleteFirstPaint(settled))

(* Fault: the acknowledgement of a cancelled run is not awaited by its owner. *)
ReleaseLater(s, t) == [s EXCEPT !.cancelling = @ \ {t}]

(* The owner is freed only if the acknowledged run still holds it.            *)
FinishCancellation(s, t) ==
  LET o == OwnerOf[t.job]
  IN  [s EXCEPT !.cancelling = @ \ {t},
                !.in_flight_owners = IF @[o] = t.run THEN [@ EXCEPT ![o] = 0] ELSE @]

ResumedRuntime(s, j, demanded) ==
  LET rt == s.jobs[j]
  IN  [rt EXCEPT
        !.nominal_due = IF rt.spec.timing \in {"Periodic", "History"} /\ Due(@, s.now)
                        THEN AdvancePast(@, rt.spec.freshness, s.now) ELSE @,
        !.pending_since = IF j \in demanded /\ ~IsHistory(rt) THEN s.now ELSE None,
        !.pending_history = None, !.retry_due = None]

ResumeRunning(s) ==
  LET anchored == ReanchorFast([s EXCEPT !.lifecycle = "Running",
                                         !.next_display = s.now + s.display_interval])
      id       == s.next_resume_reconciliation_id
  IN  [anchored EXCEPT
        !.jobs = [j \in DOMAIN @ |-> ResumedRuntime(anchored, j, CurrentDemand(s))],
        !.awaiting_resume_inventory = id,
        !.next_resume_reconciliation_id = id + 1,
        !.actions = @ \cup {[kind |-> "RescanHardware", reconciliation |-> id]}
                      \cup {[kind |-> "ResetCounterBaseline", job |-> j] :
                              j \in {k \in Jobs(s) : s.jobs[k].spec.counter}}]

Stop(s, reason) ==
  LET c == CancelAll(s, reason)
  IN  [c EXCEPT !.lifecycle = "Stopped", !.actions = @ \cup {[kind |-> "Terminate"]}]

Start(s, plan) ==
  LET display  == s.now + plan.display_interval
      started  == [s EXCEPT
        !.lifecycle = "Running", !.config_generation = 1, !.inventory_generation = 1,
        !.display_interval = plan.display_interval, !.demand = plan.demand,
        !.next_display = display, !.first_paint_deadline = s.now + FIRST_PAINT_TIMEOUT,
        !.jobs = [j \in DOMAIN plan.jobs |-> NewRuntime(plan.jobs[j], s.now, display)]]
      demanded == {j \in Jobs(started) \cap CurrentDemand(started) :
                     ~IsHistory(started.jobs[j])}
      waiting  == {j \in demanded : StartupPanel(started.jobs[j])}
  IN  CompleteFirstPaint([MarkJobs(started, demanded) EXCEPT !.first_paint_waiting = waiting])

Reconfigure(s, plan) ==
  LET adopted  == [s EXCEPT !.config_generation = @ + 1,
                            !.display_interval = plan.display_interval,
                            !.demand = plan.demand,
                            !.next_display = s.now + plan.display_interval]
      demanded == RefreshDemand(ReanchorFast(ReplaceJobs(adopted, plan.jobs, "ConfigChanged")),
                                FALSE)
      marked   == MarkJobs(demanded, CurrentDemand(demanded) \cap Discovery)
  IN  IF marked.first_paint_issued THEN PublishFull(marked, "ConfigChanged", None, 0) ELSE marked

(* acknowledged is the reconciliation an inventory answers, 0 for none.       *)
ChangeInventory(s, plan, acknowledged) ==
  LET resumes  == acknowledged = s.awaiting_resume_inventory /\ acknowledged # 0
      before   == CurrentDemand(s)
      replaced == ReplaceJobs([s EXCEPT !.inventory_generation = @ + 1,
                                        !.demand = plan.demand],
                              plan.jobs, "SourceReplaced")
      released == IF resumes THEN [replaced EXCEPT !.awaiting_resume_inventory = 0]
                  ELSE replaced
      activated == RefreshDemand(ActivateJobs(released, before, CurrentDemand(released),
                                              released.effective_presented), FALSE)
  IN  IF resumes THEN RefreshAllDemanded(activated) ELSE activated

ChangeDemand(s, demand) ==
  LET before == CurrentDemand(s)
      moved  == [s EXCEPT !.demand = demand]
      after  == CurrentDemand(moved)
  IN  RebuildFirstPaintBlockers(RefreshDemand(
        ActivateJobs(CancelDemandEnded(moved, before, after), before, after,
                     s.effective_presented), FALSE))

-----------------------------------------------------------------------------
(* Presentation and pages (machine/demand.rs).                                *)

RefreshActivation(s) ==
  LET amd     == {j \in Jobs(s) : s.jobs[j].spec.amd \in WideAmd}
      waiting == s.activation_waiting \cup amd
      marked  == [MarkJobs(s, amd) EXCEPT !.activation_waiting = waiting]
  IN  IF waiting = {} THEN PublishTooltip(marked, "TooltipActivated")
      ELSE IF s.activation_deadline # None THEN marked
      ELSE [marked EXCEPT !.activation_deadline = s.now + ACTIVATION_REFRESH_TIMEOUT]

Present(s) ==
  LET shown     == [s EXCEPT !.presented = TRUE, !.deactivation_deadline = None,
                             !.effective_presented = TRUE]
      hidden    == Demanded(s.demand, FALSE, s.selected_page)
      activated == IF s.effective_presented THEN shown
                   ELSE ActivateJobs(shown, hidden, CurrentDemand(shown), TRUE)
  IN  IF s.presented THEN activated ELSE RefreshActivation(activated)

Dismiss(s) ==
  [s EXCEPT !.presented = FALSE,
            !.deactivation_deadline = IF s.presented /\ s.effective_presented
                                      THEN s.now + DEACTIVATION_GRACE ELSE @]

ChangePage(s, page) ==
  LET before    == CurrentDemand(s)
      moved     == [s EXCEPT !.selected_page = page]
      after     == CurrentDemand(moved)
      activated == ActivateJobs(CancelDemandEnded(moved, before, after), before, after, TRUE)
  IN  IF page = s.selected_page THEN s
      ELSE IF ~s.effective_presented THEN moved
      ELSE IF s.presented /\ activated.activation_waiting = {}
           THEN PublishTooltip(activated, "PageChanged")
           ELSE activated

-----------------------------------------------------------------------------
(* Events.  Each one happens at an instant no earlier than the last.          *)

Active == sched.lifecycle \in {"Running", "Suspended"}

(* The environment raises an event of this instance, within its bounds.       *)
Raised(event) ==
  /\ Active /\ event \in Inputs
  /\ sched.next_run_id <= MaxRuns /\ sched.next_publication_id <= MaxPublications

(* Startup begins with generation 1 of both.                                  *)
Renewable == sched.config_generation + sched.inventory_generation < MaxGeneration + 2

Times == {t \in sched.now..(sched.now + MaxStep) : t <= MaxNow}

At(t) == [sched EXCEPT !.now = t, !.actions = {}, !.accepted = TRUE]

Accept(s) == sched' = Dispatch(s)

(* Rejected after the clock was looked at: no dispatch.                       *)
Reject(s) == sched' = [s EXCEPT !.accepted = FALSE]

Startup ==
  \E plan \in Plans :
    sched.lifecycle = "Unstarted" /\ Accept(Start(At(sched.now), plan))

TimeAdvanced == \E at \in Times : Active /\ Accept(Elapse(At(at)))

ConfigChanged ==
  \E at \in Times, plan \in Plans :
    Raised("Config") /\ Renewable /\ Accept(Reconfigure(At(at), plan))

(* The daemon derives the jobs of an inventory from the current config.       *)
InventoryChanged ==
  \E at \in Times, plan \in Plans, acknowledged \in 0..MaxResumes :
    /\ Raised("Inventory") /\ Renewable
    /\ plan.display_interval = sched.display_interval
    /\ acknowledged < sched.next_resume_reconciliation_id
    /\ Accept(ChangeInventory(At(at), plan, acknowledged))

DemandChanged ==
  \E at \in Times, plan \in Plans :
    /\ Raised("Demand")
    /\ plan.jobs = [j \in Jobs(sched) |-> sched.jobs[j].spec]
    /\ Accept(ChangeDemand(At(at), plan.demand))

TooltipPresented ==
  \E at \in Times, presented \in BOOLEAN :
    Raised("Presentation") /\ Accept(IF presented THEN Present(At(at)) ELSE Dismiss(At(at)))

TooltipReactivated ==
  \E at \in Times :
    Raised("Presentation") /\ Accept(IF sched.presented THEN RefreshActivation(At(at)) ELSE At(at))

SelectedPageChanged ==
  \E at \in Times, page \in PageId : Raised("Page") /\ Accept(ChangePage(At(at), page))

DisplayRefreshRequested ==
  \E at \in Times : Raised("Refresh") /\ Accept(PublishFull(At(at), "ConfigChanged", None, 0))

TooltipRefreshRequested ==
  \E at \in Times : Raised("Refresh") /\ Accept(PublishTooltip(At(at), "TooltipRefresh"))

JobFinished ==
  \E at \in Times, t \in InFlight(sched), completion \in Outcomes, ready \in BOOLEAN :
    LET elapsed == Elapse(At(at))
    IN  /\ sched.lifecycle = "Running"
        /\ CurrentTicket(sched, t)
        /\ IF CurrentTicket(elapsed, t) THEN Accept(FinishJob(elapsed, t, completion, ready))
           ELSE Reject(elapsed)

(* JobCancelled, or JobFinished of a run that was cancelled meanwhile.        *)
JobCancelled ==
  \E at \in Times, t \in sched.cancelling :
    Active /\ Accept(FinishCancellation(Elapse(At(at)), t))

RefreshTriggered ==
  \E at \in Times, job \in Jobs(sched) :
    LET elapsed == Elapse(At(at))
        wanted  == {job} \cap CurrentDemand(elapsed)
    IN  /\ Raised("Trigger")
        /\ Accept(IF IsHistory(elapsed.jobs[job]) THEN elapsed ELSE MarkJobs(elapsed, wanted))

PanelPublished ==
  \E at \in Times, publication \in sched.panel_publications :
    /\ Raised("Panel")
    /\ Accept([At(at) EXCEPT !.panel_publications = @ \ {publication},
                             !.notifications_armed = TRUE])

Suspend ==
  \E at \in Times :
    /\ Raised("Sleep")
    /\ Accept(IF sched.lifecycle = "Running"
              THEN [CancelAll(At(at), "Suspend") EXCEPT !.lifecycle = "Suspended"]
              ELSE At(at))

Resume ==
  \E at \in Times :
    /\ Raised("Sleep") /\ sched.next_resume_reconciliation_id <= MaxResumes
    /\ Accept(IF sched.lifecycle = "Suspended" THEN ResumeRunning(At(at)) ELSE At(at))

(* Shutdown and CriticalFailure differ in the reason they report.             *)
Shutdown ==
  \E at \in Times, reason \in {"Shutdown", "CriticalFailure"} :
    Raised("Stop") /\ Accept(Stop(At(at), reason))

Next ==
  \/ Startup \/ TimeAdvanced \/ ConfigChanged \/ InventoryChanged \/ DemandChanged
  \/ TooltipPresented \/ TooltipReactivated \/ SelectedPageChanged
  \/ DisplayRefreshRequested \/ TooltipRefreshRequested
  \/ JobFinished \/ JobCancelled \/ RefreshTriggered \/ PanelPublished
  \/ Suspend \/ Resume \/ Shutdown

Spec == Init /\ [][Next]_sched
=============================================================================
