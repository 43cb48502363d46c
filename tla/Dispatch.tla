------------------------------- MODULE Dispatch -------------------------------
(* The daemon loop around the scheduler: the actions a transition returns are *)
(* drained (dispatch.rs), runs go to the workers of their owners through      *)
(* bounded channels (worker.rs), and what the workers answer is committed or  *)
(* refused (completion.rs, state.rs).  The machine itself is Scheduler.tla;   *)
(* sched is its state between two events, with no action outstanding.         *)
(*                                                                            *)
(* The runtime has one thread and the loop awaits only where it sleeps, so an *)
(* iteration, from its wake to its next sleep, is one step; the workers move  *)
(* between iterations.  A reading is the number of the run that measured it,  *)
(* 0 when there is none.  Sleep and rescans are in SleepCycle.tla.            *)
EXTENDS SchedulerProperties, Sequences, SequencesExt

CONSTANTS
  Config,               \* configurations
  Reloads,              \* those that can replace each of them
  Stimuli,              \* the environment events each of them is exercised with
  SchedulerConfig,      \* scheduler_config: the plan of <<configuration, hardware>>
  Scan,                 \* the discovery job, which finds the hardware or not
  Nvml, Fallback,       \* a failure of the first triggers the second
  Render, GraphPage,    \* the PageRender job and its page
  PagesOf, PageOwners,  \* the pages of a configuration; the owners told of them
  GraphInputs,          \* jobs whose readings the graphs show
  LaneJobs,             \* uses_blocking_lane
  OutcomesOf,           \* what each job can end in, of Outcomes
  FIRST_PAINT_DEADLINE, OWNER_CHANNEL_CAPACITY,
  MaxStyles             \* bound of style changes

ASSUME DispatchAssumption ==
  /\ GraphInputs \cup LaneJobs \cup Nvml \cup Fallback \subseteq JobId
  /\ Scan \cup Render \subseteq LaneJobs /\ GraphPage \subseteq PageId
  /\ {SchedulerConfig[c] : c \in Config \X BOOLEAN} = Plans
  /\ {FIRST_PAINT_DEADLINE, OWNER_CHANNEL_CAPACITY} \subseteq Nat \ {0}

VARIABLES
  loop,         \* RuntimeState, owner_messages and the owners' channels
  workers,      \* what each worker does, remembers, and would go back to
  lane,         \* the owners at the blocking lane, the first one inside
  completions   \* answers not yet received

vars == <<sched, loop, workers, lane, completions>>

NoReadings == [j \in JobId |-> 0]

IdleWorker == [phase |-> "Idle", work |-> {}, memory |-> NoReadings, checkpoint |-> NoReadings]

(* The loop with its machine, as one state an iteration works on, with what   *)
(* is left of the iteration and its verdict on the run it was woken for.      *)
Daemon == [s |-> sched, stages |-> <<>>, keep |-> TRUE] @@ loop

Become(d) ==
  /\ sched' = d.s
  /\ loop' = [f \in DOMAIN loop |-> d[f]]

-----------------------------------------------------------------------------
(* Transitions of the machine.                                                *)

Priority ==
  [kind \in {"InvalidateJob", "CancelJob", "PublishDisplay", "EvaluateNotifications", "StartJob"} |->
     CASE kind = "InvalidateJob" -> 0 [] kind = "CancelJob" -> 1
       [] kind = "PublishDisplay" -> 3 [] kind = "EvaluateNotifications" -> 4
       [] kind = "StartJob" -> 7]

(* Actions of one priority keep the order in which they were issued.          *)
Issued(a) ==
  CASE a.kind = "InvalidateJob" -> JobRank[a.job]
    [] a.kind = "PublishDisplay" -> a.publication
    [] OTHER -> a.ticket.run

Sorted(A) ==
  SetToSortSeq(A, LAMBDA a, b : \/ Priority[a.kind] < Priority[b.kind]
                                \/ Priority[a.kind] = Priority[b.kind] /\ Issued(a) < Issued(b))

Transition(s, accepted) ==
  [s |-> [s EXCEPT !.actions = {}], out |-> Sorted(s.actions), accepted |-> accepted]

Handle(s) == Transition(Dispatch(s), TRUE)

Enqueue(d, transition) == [d EXCEPT !.s = transition.s, !.actions = @ \o transition.out]

Prepend(d, transition) == [d EXCEPT !.s = transition.s, !.actions = transition.out \o @]

Marked(d, elapsed, J) == Enqueue(d, Handle(MarkJobs(elapsed, J \cap CurrentDemand(elapsed))))

Trigger(d, J) == IF J \cap Jobs(d.s) = {} THEN d ELSE Marked(d, Elapse(d.s), J)

Plan(d) == SchedulerConfig[<<d.cfg, d.hw>>]

(* request_selected_graph.                                                    *)
RequestSelectedGraph(d) ==
  IF d.s.selected_page \in GraphPage THEN Trigger(d, Render) ELSE d

IsPublication(a) == a.kind = "PublishDisplay"

-----------------------------------------------------------------------------
(* drain_actions.                                                             *)

Run(d, t) ==
  [kind |-> "Run", owner |-> OwnerOf[t.job], ticket |-> t, hw |-> d.hw,
   readings |-> [j \in JobId |-> IF OwnerOf[j] = OwnerOf[t.job] THEN d.readings[j] ELSE 0],
   generation |-> IF t.job \in Render THEN d.render_generation ELSE 0]

InvalidateMessage(j) == [kind |-> "Invalidate", owner |-> OwnerOf[j], job |-> j]

PagesChanged(o) == [kind |-> "PagesChanged", owner |-> o]

(* queue_owner_message: a message replaces a pending one it makes obsolete.   *)
Queue(d, m) == [d EXCEPT !.messages = Append(SelectSeq(@, LAMBDA p : p # m), m)]

(* A ticket cancelled between its transition and the drain never starts.      *)
StartRun(d, t) ==
  IF ~CurrentTicket(d.s, t) THEN d
  ELSE Queue([d EXCEPT !.valid = @ \cup {t.run},
                       !.requested = IF t.job \in Render
                                     THEN {[run |-> t.run, generation |-> d.render_generation]}
                                     ELSE @], Run(d, t))

CarriesRun(m, run) == m.kind = "Run" /\ m.ticket.run = run

AnswerCancelled(s, t) == Handle(FinishCancellation(Elapse(s), t))

(* Fault: whoever had the run answers for it.                                 *)
CancelAndWait(d, t) ==
  [d EXCEPT !.valid = @ \ {t.run},
            !.requested = {r \in @ : r.run # t.run},
            !.messages = SelectSeq(@, LAMBDA m : ~CarriesRun(m, t.run))]

(* A run no worker will see is answered here: one not sent yet, and one that  *)
(* was never dispatched or whose completion is being handled.                 *)
CancelRun(d, t) ==
  LET queued    == \E i \in DOMAIN d.messages : CarriesRun(d.messages[i], t.run)
      cancelled == [d EXCEPT !.valid = @ \ {t.run},
                             !.requested = {r \in @ : r.run # t.run},
                             !.samples = @ \ {t.run},
                             !.messages = SelectSeq(@, LAMBDA m : ~CarriesRun(m, t.run))]
  IN  IF (queued \/ t.run \notin d.valid) /\ t \in d.s.cancelling
      THEN Prepend(cancelled, AnswerCancelled(d.s, t)) ELSE cancelled

(* Graphs drawn from a reading that is forgotten are void.                    *)
InvalidateJobReadings(d, j) ==
  [d EXCEPT !.readings[j] = 0,
            !.render_generation = IF j \in GraphInputs /\ d.readings[j] # 0 THEN @ + 1 ELSE @]

(* Fault: the worker is not told.                                             *)
ForgetReadings(d, j) ==
  [InvalidateJobReadings(d, j) EXCEPT !.completed = @ \ {j}, !.deferred_jobs = @ \ {j}]

InvalidateReadings(d, j) ==
  Queue([InvalidateJobReadings(d, j) EXCEPT !.completed = @ \ {j}, !.deferred_jobs = @ \ {j}],
        InvalidateMessage(j))

(* publish: the width of the panel follows the configuration and hardware it  *)
(* shows, and a graph drawn for another width is useless.                     *)
Resized(d) ==
  LET width == <<d.cfg, d.hw>>
  IN  IF d.width = width THEN d
      ELSE [d EXCEPT !.width = width, !.rendered = 0, !.render_generation = @ + 1]

PublishPanel(d, a) ==
  Prepend(Resized(d), Handle([d.s EXCEPT !.panel_publications = @ \ {a.publication},
                                         !.notifications_armed = TRUE]))

(* publish_tooltip: the graphs of the present generation, on activation also  *)
(* older ones, else a placeholder.                                            *)
PublishTooltipHtml(d, reason) ==
  [d EXCEPT !.tooltip =
     IF d.s.selected_page \notin GraphPage THEN "Page"
     ELSE IF d.rendered = d.render_generation \/ (reason = "TooltipActivated" /\ d.rendered # 0)
          THEN "Graph" ELSE "Placeholder"]

SelectedGraphNeedsRender(d) ==
  /\ d.s.selected_page \in GraphPage
  /\ \A r \in d.requested : r.generation # d.render_generation
  /\ d.rendered # d.render_generation

Painted(d, a) ==
  IF a.reason \in {"FirstPaintReady", "FirstPaintTimeout"}
  THEN [d EXCEPT !.first_paint_published = TRUE] ELSE d

Panelled(d, a) == IF a.panel THEN PublishPanel(d, a) ELSE d

Tooltipped(d, a) == IF a.tooltip THEN PublishTooltipHtml(d, a.reason) ELSE d

Published(d, a) == Tooltipped(Panelled(Painted(d, a), a), a)

(* Fault: a placeholder is shown and nobody asks for the graphs.              *)
PublishOnly(d, a) == IF a.panel /\ d.deferred # {} THEN d ELSE Published(d, a)

(* While the first panel is held back no other is published, and the          *)
(* deadlines of the others count as skipped.                                  *)
SuppressPanel(d, a) ==
  [d EXCEPT !.deferred = {[b EXCEPT !.skipped = @ + (IF a.reason = "DisplayDeadline"
                                                     THEN 1 + a.skipped ELSE 0)] : b \in @}]

RenderStarting(d) ==
  \E i \in DOMAIN d.actions :
    d.actions[i].kind = "StartJob" /\ d.actions[i].ticket.job \in Render

DrawGraph(d, a) ==
  IF a.tooltip /\ ~RenderStarting(d) /\ SelectedGraphNeedsRender(d) THEN RequestSelectedGraph(d) ELSE d

Publish(d, a) ==
  IF a.panel /\ d.deferred # {} THEN SuppressPanel(d, a) ELSE DrawGraph(Published(d, a), a)

Perform(d, a) ==
  CASE a.kind = "StartJob" -> StartRun(d, a.ticket)
    [] a.kind = "CancelJob" -> CancelRun(d, a.ticket)
    [] a.kind = "InvalidateJob" -> InvalidateReadings(d, a.job)
    [] a.kind = "PublishDisplay" -> Publish(d, a)
    [] a.kind = "EvaluateNotifications" -> [d EXCEPT !.samples = @ \ {a.ticket.run}]

(* flush_owner_messages: what a full channel refuses stays pending.           *)
Flush(d) ==
  LET Send(e, m) == IF Len(e.channel[m.owner]) < OWNER_CHANNEL_CAPACITY
                    THEN [e EXCEPT !.channel[m.owner] = Append(@, m)]
                    ELSE [e EXCEPT !.messages = Append(@, m)]
  IN  FoldLeft(Send, [d EXCEPT !.messages = <<>>], d.messages)

-----------------------------------------------------------------------------
(* handle_completion.                                                         *)

Rejected(s) == Transition(s, FALSE)

FinishedAt(s, elapsed, c, ready) ==
  IF c.ticket \in s.cancelling THEN Handle(FinishCancellation(elapsed, c.ticket))
  ELSE IF ~CurrentTicket(s, c.ticket) THEN Rejected(s)
  ELSE IF CurrentTicket(elapsed, c.ticket)
  THEN Handle(FinishJob(elapsed, c.ticket, c.completion, ready /\ c.completion = "Captured"))
  ELSE Rejected(elapsed)

Finished(s, c, ready) == FinishedAt(s, Elapse(s), c, ready)

Own(c) == {j \in JobId : OwnerOf[j] = OwnerOf[c.ticket.job]}

GraphInputChanged(d, c) == \E j \in Own(c) \cap GraphInputs : d.readings[j] # c.readings[j]

(* commit: the owner's part of the readings, the hardware a scan found, the   *)
(* page a render drew.                                                        *)
Commit(d, c) ==
  LET job == c.ticket.job
  IN  [d EXCEPT !.readings = [j \in JobId |-> IF j \in Own(c) THEN c.readings[j] ELSE @[j]],
                !.hw = IF job \in Scan THEN c.hw ELSE @,
                !.inventory_generation = IF job \in Scan /\ c.hw # d.hw THEN @ + 1 ELSE @,
                !.rendered = IF job \in Render THEN c.generation ELSE @,
                !.render_generation = IF GraphInputChanged(d, c) THEN @ + 1 ELSE @,
                !.last_committed[OwnerOf[job]] = c.ticket.run,
                !.completed = @ \cup {job},
                !.deferred_jobs = @ \ {job}]

StartupJobs(d) == {j \in DOMAIN Plan(d).jobs : Plan(d).jobs[j].startup_panel}

RefreshDeferred(d) ==
  IF d.deferred = {} THEN d
  ELSE [d EXCEPT !.deferred_jobs = StartupJobs(d) \ d.completed]

DeadlineAware(d, a) ==
  IF d.s.now < FIRST_PAINT_DEADLINE THEN a ELSE [a EXCEPT !.reason = "FirstPaintTimeout"]

(* Fault: the panel that was held back is painted at the next answer.         *)
ReleaseAtOnce(d) ==
  [d EXCEPT !.actions = @ \o SetToSeq({DeadlineAware(d, a) : a \in d.deferred}), !.deferred = {}]

(* release_deferred_first_paint.                                              *)
Release(d) ==
  IF d.deferred_jobs # {} THEN d
  ELSE [d EXCEPT !.actions = @ \o SetToSeq({DeadlineAware(d, a) : a \in d.deferred}),
                 !.deferred = {}]

WithoutTooltips(actions) ==
  SelectSeq(actions, LAMBDA a : ~(IsPublication(a) /\ a.tooltip /\ ~a.panel))

(* reconcile_inventory_publication: an inventory that introduces no job shows *)
(* at once, in one panel, whatever else the answer publishes.                 *)
WithPanel(d, panels, complete) ==
  LET alone == [d EXCEPT !.actions = WithoutTooltips(@)]
  IN  IF \E a \in panels : a.tooltip THEN alone
      ELSE IF panels # {} \/ ~complete THEN d
      ELSE Enqueue(alone, Handle(PublishFull(d.s, "ConfigChanged", None, 0)))

Reconcile(d, complete) ==
  LET released == Release(d)
  IN  IF released.deferred = d.deferred /\ ~complete THEN d
      ELSE WithPanel(released, {a \in Range(released.actions) : IsPublication(a) /\ a.panel}, complete)

Introduced(d, before) ==
  {j \in (DOMAIN Plan(d).jobs \cap Demanded(Plan(d).demand, TRUE, d.s.selected_page)) \ before :
     Plan(d).jobs[j].timing # "History"}

StartsJob(out, J) == \E i \in DOMAIN out : out[i].kind = "StartJob" /\ out[i].ticket.job \in J

TooltipQueued(d) == \E i \in DOMAIN d.actions : IsPublication(d.actions[i]) /\ d.actions[i].tooltip

RenderInputCurrent(d, c) == c.ticket.job \in Render => c.generation = d.render_generation

CanCommit(d, c) ==
  /\ CurrentTicket(d.s, c.ticket) /\ RenderInputCurrent(d, c)
  /\ d.last_committed[OwnerOf[c.ticket.job]] < c.ticket.run

(* The loop's reaction to the answer c of a run, one step after the other: x  *)
(* is the loop, the transition of the machine, and what the steps are about.  *)
Answered(d, c, finished, eligible) ==
  [loop |-> d, c |-> c, out |-> finished.out, s |-> finished.s,
   accepted |-> eligible /\ finished.accepted,
   stale |-> CurrentTicket(d.s, c.ticket) /\ ~RenderInputCurrent(d, c),
   hw |-> d.hw, before |-> DOMAIN Plan(d).jobs, complete |-> FALSE, redrawn |-> FALSE]

AnsweredNow(d, c, eligible) == Answered(d, c, Finished(d.s, c, eligible), eligible)

Committed(x) ==
  LET run      == x.c.ticket.run
      notifies == \E i \in DOMAIN x.out :
                    x.out[i].kind = "EvaluateNotifications" /\ x.out[i].ticket = x.c.ticket
      taken    == [x.loop EXCEPT !.s = x.s, !.valid = @ \ {run},
                                 !.samples = IF notifies THEN @ \cup {run} ELSE @ \ {run}]
  IN  [x EXCEPT !.loop = IF x.accepted THEN Commit(taken, x.c) ELSE taken]

FallenBack(x) ==
  IF x.accepted /\ x.c.ticket.job \in Nvml /\ x.c.completion = "Failed" /\ ~StartsJob(x.out, Fallback)
  THEN [x EXCEPT !.loop = Trigger(@, Fallback)] ELSE x

HeldBack(x) == {a \in Range(x.out) : IsPublication(a) /\ a.reason = "FirstPaintReady"}

(* A commit that changed the inventory: a first panel that is ready waits for *)
(* the jobs the inventory introduces, and the machine learns of it before the *)
(* actions of the completion are queued.                                      *)
ToldOfInventory(x, held, fresh) ==
  LET dropped == held \cup {a \in Range(x.out) :
                             IsPublication(a) /\ a.reason = "TooltipRefresh" /\ fresh # {}}
      defers  == IF held = {} THEN x.loop ELSE RefreshDeferred([x.loop EXCEPT !.deferred = held])
  IN  [x EXCEPT !.loop = Enqueue(defers, Handle(ChangeInventory(x.loop.s, Plan(x.loop), 0))),
                !.out = SelectSeq(@, LAMBDA a : a \notin dropped),
                !.complete = fresh = {}]

NewInventory(x) ==
  IF x.accepted /\ x.loop.hw # x.hw THEN ToldOfInventory(x, HeldBack(x), Introduced(x.loop, x.before))
  ELSE x

Redraws(x) ==
  \E i \in DOMAIN x.out : /\ x.out[i].kind = "StartJob" /\ x.out[i].ticket.job \in Render
                          /\ CurrentTicket(x.loop.s, x.out[i].ticket)

Queued(x) == [x EXCEPT !.redrawn = Redraws(x), !.loop.actions = @ \o x.out]

Reconciled(x) == [x EXCEPT !.loop = Reconcile(@, x.complete)]

(* A page drawn from old inputs is drawn again, a new one is shown.           *)
Rerendered(x) ==
  IF x.stale /\ ~x.redrawn /\ ~TooltipQueued(x.loop) THEN [x EXCEPT !.loop = Trigger(@, Render)] ELSE x

Shown(x) ==
  IF x.accepted /\ x.c.ticket.job \in Render /\ ~TooltipQueued(x.loop)
  THEN [x EXCEPT !.loop = Enqueue(@, Handle(PublishTooltip(x.loop.s, "TooltipRefresh")))] ELSE x

(* The worker learns whether to keep what the run did.                        *)
Decided(x) == [x.loop EXCEPT !.keep = x.accepted]

JobAnswered(d, c) ==
  Decided(Shown(Rerendered(Reconciled(Queued(NewInventory(FallenBack(Committed(
    AnsweredNow(d, c, CanCommit(d, c))))))))))

(* The worker refused to start a run that was cancelled.                      *)
CancelledAnswered(d, c) ==
  LET taken == [d EXCEPT !.valid = @ \ {c.ticket.run},
                         !.requested = {r \in @ : r.run # c.ticket.run}]
  IN  IF c.ticket \in d.s.cancelling THEN Enqueue(taken, AnswerCancelled(d.s, c.ticket)) ELSE taken

HandleCompletion(d, c) ==
  IF c.kind = "Cancelled" THEN CancelledAnswered(d, c) ELSE JobAnswered(d, c)

-----------------------------------------------------------------------------
(* An iteration of the loop.                                                  *)

AtTime(d, at) == [d EXCEPT !.s.now = at]

AdvanceTime(d) == Enqueue(d, Handle(Elapse(d.s)))

(* Fault: the held back panel waits for its jobs, however long they take.     *)
PaintInTime(d) == d

(* The held back panel is painted at the deadline at the latest.              *)
PaintOverdue(d) ==
  IF d.deferred # {} /\ d.s.now >= FIRST_PAINT_DEADLINE THEN Release([d EXCEPT !.deferred_jobs = {}])
  ELSE d

(* The stages of an iteration, between which the actions are drained.  The    *)
(* answer that woke the loop is handled after the actions of the time that    *)
(* passed; draining them took time as well.                                   *)
Stage(d, stage) ==
  CASE stage.kind = "Advance" -> AdvanceTime(d)
    [] stage.kind = "Completion" -> HandleCompletion(AtTime(d, stage.at), stage.completion)
    [] stage.kind = "Paint" -> PaintOverdue(d)

RECURSIVE Drain(_)
Drain(d) ==
  IF d.actions # <<>> THEN Drain(Perform([d EXCEPT !.actions = Tail(@)], Head(d.actions)))
  ELSE IF d.stages = <<>> THEN Flush(d)
  ELSE Drain(Stage([Flush(d) EXCEPT !.stages = Tail(@)], Head(d.stages)))

ToSleep == <<[kind |-> "Paint"], [kind |-> "Advance"]>>

(* From the wake, whose actions are queued, to the next sleep.                *)
Iterate(d) ==
  /\ Become(Drain([d EXCEPT !.stages = ToSleep]))
  /\ UNCHANGED <<workers, lane, completions>>

(* sleep_duration: how long the loop sleeps if nothing else wakes it; without *)
(* a deadline, a day.                                                         *)
SleepUntil ==
  Earlier(NextWake(sched), IF loop.deferred = {} THEN None ELSE FIRST_PAINT_DEADLINE)

(* The timer may be late.                                                     *)
WakeOnTime ==
  \E late \in 0..MaxStep :
    LET at == late + IF SleepUntil > sched.now THEN SleepUntil ELSE sched.now
    IN  SleepUntil # None /\ at <= MaxNow /\ Iterate(AtTime(Daemon, at))

(* A request that changes nothing, a day without any.                         *)
WakeIdle == Active /\ Iterate(Daemon)

TakesCompletion == completions # <<>> /\ completions' = Tail(completions)

WakeForCompletion ==
  \E at \in Times, later \in Times :
    LET c   == Head(completions)
        o   == OwnerOf[c.ticket.job]
        due == <<[kind |-> "Advance"], [kind |-> "Completion", at |-> later, completion |-> c]>>
    IN  /\ TakesCompletion /\ at <= later
        /\ \E d \in {Drain([AtTime(Daemon, at) EXCEPT !.stages = due \o ToSleep])} :
             /\ Become(d)
             /\ workers' = IF c.kind = "Cancelled" THEN workers
                           ELSE [workers EXCEPT ![o] =
                                  [IdleWorker EXCEPT !.memory = IF d.keep THEN workers[o].memory
                                                                ELSE workers[o].checkpoint]]
        /\ UNCHANGED lane

(* The daemon starts: Startup, then the selected page.                        *)
StartDaemon ==
  \E c \in Config :
    /\ sched.lifecycle = "Unstarted"
    /\ LET configured == [Daemon EXCEPT !.cfg = c, !.width = <<c, FALSE>>]
       IN  Iterate(Enqueue(configured, Handle(Start(sched, Plan(configured)))))

Wakes(event) == Raised(event) /\ event \in Stimuli[loop.cfg]

(* A reload: the jobs are replaced, what was drawn is void, the page may be   *)
(* gone (replace_pages keeps the index within the pages there are).           *)
WakeForReload ==
  \E c \in Reloads[loop.cfg], at \in Times :
    LET told     == FoldLeft(LAMBDA d, o : Queue(d, PagesChanged(o)), AtTime(Daemon, at),
                             SetToSeq(PageOwners))
        adopted  == [told EXCEPT !.cfg = c, !.rendered = 0, !.render_generation = @ + 1]
        replaced == Enqueue(adopted, Handle(Reconfigure(adopted.s, Plan(adopted))))
        page     == IF sched.selected_page \in PagesOf[c] THEN sched.selected_page ELSE MainPage
        selected == Enqueue(replaced, Handle(ChangePage(replaced.s, page)))
    IN  /\ Wakes("Config") /\ Renewable
        /\ Iterate(RequestSelectedGraph(RefreshDeferred(selected)))

(* The style files, or the theme a worker determined, changed.                *)
WakeForStyle ==
  \E at \in Times :
    LET restyled == [AtTime(Daemon, at) EXCEPT !.rendered = 0, !.render_generation = @ + 1,
                                               !.styles = @ + 1]
        shown    == Enqueue(restyled, Handle(PublishFull(restyled.s, "ConfigChanged", None, 0)))
    IN  /\ Wakes("Style") /\ loop.styles < MaxStyles
        /\ Iterate(IF loop.first_paint_published THEN RequestSelectedGraph(shown) ELSE restyled)

(* Requests of the applet (applet.rs).                                        *)
WakeForPresentation ==
  \E at \in Times :
    LET d == AtTime(Daemon, at)
    IN  /\ Wakes("Presentation")
        /\ Iterate(Enqueue(d, Handle(IF sched.presented THEN Dismiss(d.s) ELSE Present(d.s))))

WakeForPage ==
  \E at \in Times, page \in PagesOf[loop.cfg] :
    LET d == AtTime(Daemon, at)
    IN  /\ Wakes("Page") /\ page # sched.selected_page
        /\ Iterate(Enqueue(d, Handle(ChangePage(d.s, page))))

-----------------------------------------------------------------------------
(* The workers (owner_loop).                                                  *)

Uses(o, w) == workers' = [workers EXCEPT ![o] = w]

(* A run's own reading: measured, found to be absent, or left as it was.      *)
Measured(readings, c) ==
  CASE c.completion = "Captured" -> [readings EXCEPT ![c.ticket.job] = c.ticket.run]
    [] c.completion = "ConfirmedAbsent" -> [readings EXCEPT ![c.ticket.job] = 0]
    [] OTHER -> readings

(* What executing a run may yield; only a scan looks at the hardware.         *)
Yields(input) ==
  {[kind |-> "Job", ticket |-> input.ticket, completion |-> outcome, readings |-> input.readings,
    generation |-> input.generation, hw |-> hw] :
     outcome \in OutcomesOf[input.ticket.job],
     hw \in IF input.ticket.job \in Scan THEN BOOLEAN ELSE {input.hw}}

(* The worker executes the run, reports it, and waits for the verdict.        *)
Report(o, input) ==
  \E c \in Yields(input) :
    /\ completions' = Append(completions, [c EXCEPT !.readings = Measured(@, c)])
    /\ Uses(o, [phase |-> "Reported", work |-> {},
                memory |-> Measured(workers[o].memory, c), checkpoint |-> workers[o].memory])

(* Fault: a run that was cancelled is dropped without an answer.              *)
DropRefused(o, input) ==
  /\ Uses(o, [workers[o] EXCEPT !.phase = "Idle", !.work = {}])
  /\ UNCHANGED completions

Refuse(o, input) ==
  /\ completions' = Append(completions, [kind |-> "Cancelled", ticket |-> input.ticket])
  /\ Uses(o, [workers[o] EXCEPT !.phase = "Idle", !.work = {}])

Valid(input) == input.ticket.run \in loop.valid

(* One message at a time: a run not cancelled meanwhile is executed on the    *)
(* spot or queues for the blocking lane.                                      *)
Receive(o) ==
  LET m == Head(loop.channel[o])
  IN  /\ workers[o].phase = "Idle" /\ loop.channel[o] # <<>>
      /\ CASE m.kind = "Invalidate" ->
                Uses(o, [workers[o] EXCEPT !.memory[m.job] = 0]) /\ UNCHANGED <<lane, completions>>
           [] m.kind = "PagesChanged" -> UNCHANGED <<workers, lane, completions>>
           [] m.kind = "Run" ->
                IF ~Valid(m) THEN Refuse(o, m) /\ UNCHANGED lane
                ELSE IF m.ticket.job \in LaneJobs
                THEN /\ Uses(o, [workers[o] EXCEPT !.phase = "Lane", !.work = {m}])
                     /\ lane' = Append(lane, o) /\ UNCHANGED completions
                ELSE Report(o, m) /\ UNCHANGED lane
      /\ loop' = [loop EXCEPT !.channel[o] = Tail(@)]
      /\ UNCHANGED sched

(* The wait may have outlasted the run.                                       *)
EnterLane(o) ==
  /\ workers[o].phase = "Lane" /\ Head(lane) = o
  /\ \E input \in workers[o].work :
       IF Valid(input)
       THEN Uses(o, [workers[o] EXCEPT !.phase = "Work"]) /\ UNCHANGED <<lane, completions>>
       ELSE Refuse(o, input) /\ lane' = Tail(lane)
  /\ UNCHANGED <<sched, loop>>

(* Blocking work ends, if it ever does, on a thread of its own.               *)
Finish(o) ==
  /\ workers[o].phase = "Work"
  /\ \E input \in workers[o].work : Report(o, input)
  /\ lane' = Tail(lane)
  /\ UNCHANGED <<sched, loop>>

-----------------------------------------------------------------------------

DispatchInit ==
  /\ Init
  /\ loop = [cfg |-> CHOOSE c \in Config : TRUE, hw |-> FALSE, width |-> <<>>,
             inventory_generation |-> 0,
             readings |-> NoReadings, render_generation |-> 1, styles |-> 0,
             rendered |-> 0, requested |-> {}, tooltip |-> "None",
             first_paint_published |-> FALSE, deferred |-> {}, deferred_jobs |-> {},
             completed |-> {}, samples |-> {}, last_committed |-> [o \in OwnerId |-> 0],
             valid |-> {}, actions |-> <<>>, messages |-> <<>>,
             channel |-> [o \in OwnerId |-> <<>>]]
  /\ workers = [o \in OwnerId |-> IdleWorker]
  /\ lane = <<>> /\ completions = <<>>

DispatchNext ==
  \/ StartDaemon \/ WakeOnTime \/ WakeIdle \/ WakeForCompletion
  \/ WakeForReload \/ WakeForStyle \/ WakeForPresentation \/ WakeForPage
  \/ \E o \in OwnerId : Receive(o) \/ EnterLane(o) \/ Finish(o)

(* The runtime polls what is ready, and the timer wakes the loop, beyond the  *)
(* bound of the clock too; a blocking thread may work forever.                *)
Starts == <>(sched.lifecycle # "Unstarted")

Undelivered == {m \in Range(loop.messages) : Len(loop.channel[m.owner]) < OWNER_CHANNEL_CAPACITY}

TimePasses == []<>(SleepUntil \notin (sched.now + 1)..MaxNow /\ Undelivered = {})

DispatchSpec ==
  /\ DispatchInit /\ [][DispatchNext]_vars
  /\ Starts /\ TimePasses /\ WF_completions(TakesCompletion)
  /\ \A o \in OwnerId : WF_vars(Receive(o)) /\ WF_vars(EnterLane(o))

-----------------------------------------------------------------------------
(* Properties.                                                                *)

(* The messages on their way to an owner.                                     *)
Pipeline(o) ==
  {m \in Range(loop.messages) : m.owner = o} \cup Range(loop.channel[o])

(* What will bring the answer of a run: its message, its worker, or the       *)
(* answer itself.                                                             *)
Carriers(run) ==
  {m \in UNION {Pipeline(o) : o \in OwnerId} : CarriesRun(m, run)}
  \cup {w \in UNION {workers[o].work : o \in OwnerId} : w.ticket.run = run}
  \cup {c \in Range(completions) : c.ticket.run = run}

(* Every run that holds its owner has exactly one answer on its way, through  *)
(* full channels, cancellations before, during and after its execution, and   *)
(* answers overtaken by the clock; nothing else is on its way.                *)
AnswerOnTheWay ==
  /\ \A t \in Live(sched) : Cardinality(Carriers(t.run)) = 1
  /\ \A o \in OwnerId :
       \A m \in Pipeline(o) : m.kind = "Run" => m.ticket \in Live(sched)
  /\ \A c \in Range(completions) : c.ticket \in Live(sched)

(* When the loop sleeps its tables agree with the machine: a run is valid     *)
(* exactly while the machine would take its answer, no notification sample is *)
(* left behind, and a requested graph is being drawn or was drawn.            *)
TablesAgree ==
  /\ loop.valid = {t.run : t \in InFlight(sched)}
  /\ loop.samples = {}
  /\ \A r \in loop.requested :
       r.generation = loop.render_generation =>
         r.run \in loop.valid \/ loop.rendered = loop.render_generation

(* Machine, loop, channels and workers mean the same runs.                    *)
RunsAreAccounted == AnswerOnTheWay /\ TablesAgree

(* An idle worker remembers exactly what is displayed of its owner, except    *)
(* what it is about to be told to forget: a refused run leaves no trace in    *)
(* it, an accepted one in both, and nothing forgotten comes back.             *)
MemoryAgrees ==
  \A j \in JobId :
    LET o == OwnerOf[j]
    IN  IF workers[o].phase # "Idle" THEN TRUE
        ELSE IF InvalidateMessage(j) \in Pipeline(o) THEN loop.readings[j] = 0
        ELSE loop.readings[j] = workers[o].memory[j]

(* The first panel waits for the first answer of every startup job, those the *)
(* inventory that held it back introduced included, or for the deadline.      *)
FirstPanelComplete ==
  [][ ~loop.first_paint_published /\ loop'.first_paint_published /\ loop'.inventory_generation <= 1
      => \/ sched'.now >= FIRST_PAINT_DEADLINE
         \/ \A j \in Jobs(sched') \cap CurrentDemand(sched') :
              StartupPanel(sched'.jobs[j]) => j \in loop'.completed ]_vars

(* A presented placeholder is temporary: the page is being drawn for what     *)
(* there is to show now, will be, or has been.                                *)
GraphIsOnItsWay ==
  sched.presented /\ sched.selected_page \in GraphPage /\ loop.tooltip = "Placeholder" =>
    \/ loop.rendered = loop.render_generation
    \/ \E j \in Render \cap Jobs(sched) :
         sched.jobs[j].pending_since # None \/ sched.jobs[j].in_flight # {}

(* The first panel is painted although discovery, or a job it introduced,     *)
(* never answers.                                                             *)
FirstPanelPublished == <>loop.first_paint_published

(* The owners whose jobs run on the spot are freed, whatever is stuck in the  *)
(* blocking lane.                                                             *)
PromptOwners == {o \in OwnerId : \A j \in JobId : OwnerOf[j] = o => j \notin LaneJobs}

OwnersAreFreed ==
  []<>(\A o \in PromptOwners : sched.in_flight_owners[o] = 0)
=============================================================================
