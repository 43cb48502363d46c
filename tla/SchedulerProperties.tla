------------------------- MODULE SchedulerProperties -------------------------
(* What the scheduler promises.                                               *)
EXTENDS Scheduler

-----------------------------------------------------------------------------
(* Types.                                                                     *)

PublishReason == {"FirstPaintReady", "FirstPaintTimeout", "DisplayDeadline",
                  "TooltipActivated", "TooltipRefresh", "PageChanged", "ConfigChanged"}

CancelReason == {"ConfigChanged", "SourceReplaced", "DemandEnded", "Suspend", "Shutdown",
                 "CriticalFailure"}

Action ==
  [kind: {"PublishDisplay"}, publication: Nat, reason: PublishReason, deadline: OptTime,
   skipped: Nat, panel: BOOLEAN, tooltip: BOOLEAN]
  \cup [kind: {"CancelJob"}, ticket: Ticket, reason: CancelReason]
  \cup [kind: {"StartJob", "EvaluateNotifications"}, ticket: Ticket]
  \cup [kind: {"InvalidateJob"}, job: JobId, whole: BOOLEAN]
  \cup [kind: {"ResetCounterBaseline"}, job: JobId]
  \cup [kind: {"RescanHardware"}, reconciliation: Nat]
  \cup [kind: {"Terminate"}]

IsState(s) ==
  /\ IsJobMap(s.jobs, JobRuntime)
  /\ s \in
      [lifecycle: Lifecycle, now: Nat, accepted: BOOLEAN, actions: SUBSET Action,
       config_generation: Nat, inventory_generation: Nat,
       display_interval: Nat \ {0}, next_display: OptTime,
       jobs: {s.jobs}, demand: DemandPlan,
       presented: BOOLEAN, effective_presented: BOOLEAN, selected_page: PageId,
       deactivation_deadline: OptTime,
       activation_deadline: OptTime, activation_waiting: SUBSET JobId,
       first_paint_deadline: OptTime, first_paint_waiting: SUBSET JobId,
       first_paint_issued: BOOLEAN,
       notifications_armed: BOOLEAN, panel_publications: SUBSET Nat,
       in_flight_owners: [OwnerId -> Nat], cancelling: SUBSET Ticket,
       awaiting_resume_inventory: Nat,
       next_run_id: Nat, next_publication_id: Nat, next_resume_reconciliation_id: Nat]

(* Every field of the Scheduler struct, and every action of the last          *)
(* transition, has the type the code declares.                                *)
TypeOK == IsState(sched)

-----------------------------------------------------------------------------
(* Ownership of workers.                                                      *)

(* in_flight_owners is exactly the set of runs handed to workers and not yet  *)
(* answered, cancelled ones included: an owner never has two of them, and no  *)
(* owner stays reserved for a run nobody will answer.                         *)
OwnerExclusive ==
  /\ \A t \in Live(sched) : sched.in_flight_owners[OwnerOf[t.job]] = t.run
  /\ \A t, u \in Live(sched) : OwnerOf[t.job] = OwnerOf[u.job] => t = u
  /\ \A o \in OwnerId : sched.in_flight_owners[o] # 0 =>
       \E t \in Live(sched) : OwnerOf[t.job] = o

(* A run that can still commit was started under the generations in force     *)
(* (obsolete work is cancelled, never merely ignored), and only while the     *)
(* machine runs.                                                              *)
InFlightIsCurrent ==
  \A t \in InFlight(sched) :
    /\ sched.lifecycle = "Running"
    /\ CurrentTicket(sched, t)
    /\ sched.jobs[t.job].in_flight = {t}

(* Disposable page work runs only while something demands it: a page change,  *)
(* the end of the grace after dismissal and a change of demand all cancel it. *)
PageWorkIsDemanded ==
  \A j \in Jobs(sched) \cap PageWork :
    sched.jobs[j].in_flight # {} => j \in CurrentDemand(sched)

SlotOf(o) ==
  LET run == sched.in_flight_owners[o]
  IN  [run |-> run, cancelled |-> \E t \in sched.cancelling : t.run = run]

Slots == INSTANCE WorkerSlots
           WITH slot <- [o \in OwnerId |-> SlotOf(o)], fresh <- sched.next_run_id

(* The machine keeps the discipline of WorkerSlots: an owner is freed by the  *)
(* answer of its own worker and by nothing else, one at a time, whatever      *)
(* reconfigurations, page changes and sleeps cancel in between, and run       *)
(* numbers are never reused, so a late answer cannot be taken for another's.  *)
KeepsSlots == Slots!SlotsSpec

-----------------------------------------------------------------------------
(* The timer: the daemon sleeps until NextWake.                               *)

(* Sleeping is safe: an accepted event leaves nothing for the clock to do     *)
(* before the next wake.                                                      *)
SleepIsSafe ==
  LET wake == NextWake(sched)
  IN  sched.accepted /\ sched.lifecycle = "Running" /\ sched.awaiting_resume_inventory = 0 =>
        \A t \in sched.now..MaxNow :
          wake = None \/ t < wake => Dispatch(ProcessTime(At(t))) = At(t)

(* A display deadline does nothing before the first paint is issued, and is a *)
(* wake all the same.  The first paint is issued by its own deadline, which   *)
(* comes first unless the display interval is the shorter of the two.         *)
PaintAwaited(s) ==
  /\ ~s.first_paint_issued /\ s.display_interval < FIRST_PAINT_TIMEOUT
  /\ s.now < s.first_paint_deadline /\ s.first_paint_deadline <= s.now + FIRST_PAINT_TIMEOUT

(* Waking is useful: after a timer event the next wake is in the future, so   *)
(* the loop does not spin, but for a display deadline that has passed while   *)
(* the first paint is awaited: until the deadline of that, still ahead, the   *)
(* loop does (next_wake and process_time of machine.rs).                      *)
WakeAdvances ==
  [][TimeAdvanced =>
       LET wake == NextWake(sched')
       IN  \/ wake = None \/ wake > sched'.now
           \/ wake = sched'.next_display /\ PaintAwaited(sched')]_sched

(* Fast jobs keep their phase: due FAST_PREFETCH before a display deadline,   *)
(* through reconfiguration, late first paint, skipped intervals and resume.   *)
FastPhase ==
  \A j \in Jobs(sched) :
    LET rt == sched.jobs[j]
    IN  rt.spec.timing = "FastDisplay" =>
          (sched.next_display - FAST_PREFETCH - rt.nominal_due) % sched.display_interval = 0

(* The deadlines a publication accounts for.                                  *)
Counted(a) == a.skipped + IF a.deadline = None THEN 0 ELSE 1

Counting(s) == {a \in Publications(s) : Counted(a) # 0}

(* Each display deadline is published or counted as skipped, exactly once:    *)
(* while the cadence is not restarted, the distance next_display moves is the *)
(* number of deadlines that the publications of the step account for, and     *)
(* when it moves one publication accounts for all of it.                      *)
DeadlinesAccounted ==
  LET restarted == \/ sched'.config_generation # sched.config_generation
                   \/ sched.lifecycle # "Running"
      moved(k)  == sched'.next_display = sched.next_display + sched.display_interval * k
  IN  \/ restarted
      \/ Counting(sched') = {} /\ moved(0)
      \/ \E a \in Counting(sched') : Counting(sched') = {a} /\ moved(Counted(a))

DisplayDeadlinesAccounted == [][DeadlinesAccounted]_sched

-----------------------------------------------------------------------------
(* Histories.                                                                 *)

(* A history point is sampled for its nominal deadline: a pending point or a  *)
(* running one lies before the next due one, and never at or before a point   *)
(* already handed out, so no point is replayed or invented.                   *)
HistoryPointsAdvance ==
  \A j \in Jobs(sched) :
    LET rt == sched.jobs[j]
        points == {t.history : t \in rt.in_flight}
    IN  IF IsHistory(rt)
        THEN /\ rt.pending_since = None <=> rt.pending_history = None
             /\ \A p \in points \cup {rt.pending_history} : p < rt.nominal_due
             /\ \A p \in points : p # None /\ (rt.pending_history # None => p < rt.pending_history)
        ELSE rt.pending_history = None /\ points \subseteq {None}

(* A history never samples a source that has nothing: the source may be found *)
(* absent, or replaced, only when no run of its history is in flight.         *)
HistoryHasSource ==
  \A j \in Jobs(sched) : sched.jobs[j].in_flight # {} => SourceReady(sched, sched.jobs[j])

(* A history records each of its deadlines at most once, in order, and only   *)
(* of a source that was read.                                                 *)
HistoriesHold == HistoryPointsAdvance /\ HistoryHasSource

-----------------------------------------------------------------------------
(* Presentation.                                                              *)

(* Coincident deadlines and completions coalesce: one transition renders the  *)
(* tooltip at most once, and the panel at most once.                          *)
RendersOnce ==
  /\ Cardinality({a \in Publications(sched) : a.tooltip}) <= 1
  /\ Cardinality({a \in Publications(sched) : a.panel}) <= 1

Replanned ==
  sched'.inventory_generation # sched.inventory_generation \/ sched'.demand # sched.demand

(* The wait of a presented tooltip ends with a tooltip publication, unless    *)
(* the plan of jobs changed under it.                                         *)
ActivationAnswered ==
  [][ sched.presented /\ sched'.presented /\ ~Replanned
        /\ sched.activation_deadline # None /\ sched'.activation_deadline = None
      => \E a \in Publications(sched') : a.tooltip ]_sched

-----------------------------------------------------------------------------
(* Claims of the documentation that the machine does not keep.                *)

(* docs/DESIGN.md: while the activation refresh is pending, no tooltip is     *)
(* published; its completion or its timeout publishes it.  A display deadline *)
(* or a requested refresh in that window publishes one all the same.          *)
NoTooltipWhilePending ==
  [][ sched.activation_waiting # {} /\ sched'.activation_waiting # {}
      => \A a \in Publications(sched') : ~a.tooltip ]_sched

-----------------------------------------------------------------------------
(* Liveness, when the loop's timer is the only thing assumed fair.            *)

Woken(at) == Active /\ NextWake(sched) # None /\ NextWake(sched) <= at

Wake == \E at \in Times : Woken(at) /\ Accept(Elapse(At(at)))

WakeDue == \E at \in Times : Woken(at) /\ Dispatch(Elapse(At(at))) # sched

(* Weak fairness of Wake, its enabling condition written out: the loop never  *)
(* sleeps past the next wake (sleep_duration).                                *)
TimerIsFair == []<>~WakeDue \/ []<><<Wake>>_sched

FairSpec == Spec /\ TimerIsFair

(* After a resume the machine waits for the inventory, not for its timer.     *)
Running == sched.lifecycle = "Running" /\ sched.awaiting_resume_inventory = 0

(* The first panel is painted although no worker ever answers.                *)
FirstPaintHappens == Running ~> (sched.first_paint_issued \/ ~Running)

(* A tooltip never waits forever for a worker.                                *)
ActivationEnds ==
  (Running /\ sched.activation_deadline \in 0..MaxNow)
    ~> (sched.activation_deadline = None \/ ~Running)
=============================================================================
