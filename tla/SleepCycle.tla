------------------------------ MODULE SleepCycle ------------------------------
(* Sleep and resume of the daemon: the signals of logind are coalesced in     *)
(* SleepEvents (adapters/shell.rs), read by the daemon loop when it wakes     *)
(* (daemon/async_loop.rs, control.rs), turned into Suspend and Resume of the  *)
(* scheduler, and answered by the rescan of the discovery worker (worker.rs), *)
(* whose result the loop takes or sends back (completion.rs).                 *)
(*                                                                            *)
(* Everything runs on one thread and the loop awaits only where it sleeps, so *)
(* an iteration, from its wake to its next sleep, is one step; the worker     *)
(* moves between iterations.  Of the scheduler only what sleeping concerns is *)
(* kept: its lifecycle and the one run an owner has at a time (Scheduler.tla  *)
(* has the rest); of the owners only Discovery.                               *)
EXTENDS Integers, Sequences, SequencesExt, FiniteSets

CONSTANTS
  DiscoveryJob,            \* discovery jobs a change of configuration can drop
  OWNER_CHANNEL_CAPACITY,
  MaxLifecycle, MaxConfig  \* bounds of sleep signals and of configurations

ASSUME CapacityAssumption ==
  /\ IsFiniteSet(DiscoveryJob) /\ OWNER_CHANNEL_CAPACITY \in Nat \ {0}
  /\ MaxLifecycle \in Nat /\ MaxConfig \in Nat

VARIABLES
  signals,      \* SleepEvents
  said,         \* what logind signalled since the loop last looked
  loop,         \* the scheduler, the generations, owner_messages and the channel
  worker,       \* what the discovery worker is doing
  completions   \* rescans done and not yet received

vars == <<signals, said, loop, worker, completions>>

Signals == {"Sleep", "Wake"}

(* id 0 is no reconciliation.                                                 *)
Rescan == [kind: {"Rescan"}, id: Nat \ {0}, config: Nat, inventory: Nat, lifecycle: Nat]

(* A run of a discovery job; which one does not matter here.                  *)
Run == [kind |-> "Run"]

Message == Rescan \cup {Run} \cup [kind: {"Invalidate"}, job: DiscoveryJob]

Idle == [phase |-> "Idle", work |-> {}]

Init ==
  /\ signals = [latest |-> "None", dirty |-> FALSE, resume_pending |-> FALSE]
  /\ said = <<>>
  /\ loop = [lifecycle |-> "Running", awaiting |-> 0, next_id |-> 1,
             config |-> 1, inventory |-> 1, lifecycle_generation |-> 0,
             run |-> "None", requested |-> {}, owner_messages |-> <<>>, channel |-> <<>>]
  /\ worker = Idle
  /\ completions = <<>>

-----------------------------------------------------------------------------
(* SleepEvents.                                                               *)

(* Fault: a resume is remembered only while its suspend is.                   *)
PushLatest(s, signal) ==
  IF s.latest = signal THEN s
  ELSE [s EXCEPT !.resume_pending = s.dirty /\ s.latest = "Sleep" /\ signal = "Wake",
                 !.latest = signal, !.dirty = TRUE]

Push(s, signal) ==
  IF s.latest = signal THEN s
  ELSE [s EXCEPT !.resume_pending = @ \/ (s.latest = "Sleep" /\ signal = "Wake"),
                 !.latest = signal, !.dirty = TRUE]

(* The PrepareForSleep events a drain returns.                                *)
Events(s) ==
  IF ~s.dirty THEN <<>>
  ELSE IF s.resume_pending
       THEN IF s.latest = "Sleep" THEN <<"Sleep", "Wake", "Sleep">> ELSE <<"Sleep", "Wake">>
       ELSE <<s.latest>>

Drained(s) == [s EXCEPT !.dirty = FALSE, !.resume_pending = @ /\ ~s.dirty]

-----------------------------------------------------------------------------
(* The scheduler, as far as it sleeps, and the loop's reaction.               *)

(* A message replaces the pending ones it makes obsolete.                     *)
Superseded(m) == IF m.kind = "Rescan" THEN Rescan ELSE {m}

(* Of some messages those that are not in M, in their order.                  *)
Without(messages, M) ==
  LET kept[n \in 0..Len(messages)] ==
        IF n = 0 THEN <<>>
        ELSE IF messages[n] \in M THEN kept[n - 1] ELSE Append(kept[n - 1], messages[n])
  IN  kept[Len(messages)]

Queue(l, m) == [l EXCEPT !.owner_messages = Append(Without(@, Superseded(m)), m)]

(* The jobs that are dropped, in some order: each replaces its own pending    *)
(* invalidation.                                                              *)
Invalidated(l, jobs) ==
  LET obsolete == {[kind |-> "Invalidate", job |-> j] : j \in jobs}
  IN  [l EXCEPT !.owner_messages = Without(@, obsolete) \o SetToSeq(obsolete)]

(* A run not yet sent is answered at once, one that was sent by its worker.   *)
CancelRun(l) ==
  IF l.run # "Live" THEN l
  ELSE IF Contains(l.owner_messages, Run)
       THEN [l EXCEPT !.run = "None", !.owner_messages = Without(@, {Run})]
       ELSE [l EXCEPT !.run = "Cancelled"]

Suspended(l) == [CancelRun(l) EXCEPT !.lifecycle = "Suspended"]

(* The owner is free, and no inventory awaited.                               *)
MayStart(l) == l.lifecycle = "Running" /\ l.awaiting = 0 /\ l.run = "None"

Started(l, start) ==
  IF start /\ MayStart(l) THEN Queue([l EXCEPT !.run = "Live"], Run) ELSE l

Resumed(l) ==
  IF l.lifecycle # "Suspended" THEN l
  ELSE [l EXCEPT !.lifecycle = "Running", !.awaiting = l.next_id, !.next_id = @ + 1,
                 !.requested = @ \cup {l.next_id}]

(* A suspend makes every rescan begun before it stale, and forgets the ones   *)
(* requested in the same batch of events.                                     *)
PrepareForSleep(l, signal) ==
  IF signal = "Sleep"
  THEN Suspended([l EXCEPT !.lifecycle_generation = @ + 1, !.requested = {}])
  ELSE Resumed(l)

RescanFor(l, id) ==
  [kind |-> "Rescan", id |-> id, config |-> l.config, inventory |-> l.inventory,
   lifecycle |-> l.lifecycle_generation]

Lesser(a, b) == IF a <= b THEN a ELSE b

(* What the full channel refuses stays for the next iteration.                *)
Flush(l) ==
  LET sent == Lesser(OWNER_CHANNEL_CAPACITY - Len(l.channel), Len(l.owner_messages))
  IN  [l EXCEPT !.channel = @ \o SubSeq(l.owner_messages, 1, sent),
                !.owner_messages = SubSeq(@, sent + 1, Len(@))]

(* drain_actions, for RescanHardware.                                         *)
QueueRequested(l) ==
  IF l.requested = {} THEN l
  ELSE [Queue(l, RescanFor(l, CHOOSE id \in l.requested : TRUE)) EXCEPT !.requested = {}]

Handled(l, events) ==
  LET after[n \in 0..Len(events)] ==
        IF n = 0 THEN l ELSE PrepareForSleep(after[n - 1], events[n])
  IN  after[Len(events)]

(* Fault: an inventory computed for an old configuration is just dropped.     *)
TakeOrDrop(l, c) ==
  IF c.config = l.config /\ c.inventory = l.inventory /\ c.lifecycle = l.lifecycle_generation
  THEN [l EXCEPT !.inventory = @ + 1, !.awaiting = IF c.id = @ THEN 0 ELSE @]
  ELSE l

(* Fault: an inventory begun before the last sleep is good enough.            *)
TakeAcrossSleep(l, c) ==
  IF c.config = l.config /\ c.inventory = l.inventory
  THEN [l EXCEPT !.inventory = @ + 1, !.awaiting = IF c.id = @ THEN 0 ELSE @]
  ELSE Queue(l, RescanFor(l, c.id))

(* Fault: the inventory is asked for again as it was the first time.          *)
TakeOrRepeat(l, c) ==
  IF c.config = l.config /\ c.inventory = l.inventory /\ c.lifecycle = l.lifecycle_generation
  THEN [l EXCEPT !.inventory = @ + 1, !.awaiting = IF c.id = @ THEN 0 ELSE @]
  ELSE IF c.lifecycle = l.lifecycle_generation THEN Queue(l, c)
  ELSE l

(* A rescan is taken, repeated for what changed meanwhile, or, once the       *)
(* daemon has slept again, ignored.                                           *)
HandleRescan(l, c) ==
  LET current == c.lifecycle = l.lifecycle_generation
  IN  IF current /\ c.config = l.config /\ c.inventory = l.inventory
      THEN [l EXCEPT !.inventory = @ + 1, !.awaiting = IF c.id = @ THEN 0 ELSE @]
      ELSE IF current THEN Queue(l, RescanFor(l, c.id))
      ELSE l

(* What the worker finished: a rescan, or a run, whose owner is free again.   *)
HandleCompletion(l, c) ==
  IF c.kind = "Rescan" THEN HandleRescan(l, c) ELSE [l EXCEPT !.run = "None"]

(* An iteration of the loop, up to its next sleep: the messages left over are *)
(* sent, the signals read, the rescan they ask for is sent, and a run may     *)
(* start.                                                                     *)
Iterate(l, start) ==
  /\ \E begun \in {Flush(l)} :
       \E told \in {Handled(begun, Events(signals))} :
         \E asked \in {Flush(QueueRequested(told))} :
           loop' = Flush(Started(asked, start))
  /\ signals' = Drained(signals)
  /\ said' = <<>>

-----------------------------------------------------------------------------
(* What happens while the loop sleeps, and what ends its sleep.               *)

(* logind may repeat itself.                                                  *)
Signal ==
  \E signal \in Signals :
    /\ loop.lifecycle_generation + Len(said) < MaxLifecycle
    /\ signals' = Push(signals, signal)
    /\ said' = Append(said, signal)
    /\ UNCHANGED <<loop, worker, completions>>

(* The worker waits for the verdict on the run it reported.                   *)
WakeForCompletion ==
  \E start \in BOOLEAN :
    /\ completions # <<>>
    /\ \E begun \in {Flush(loop)} :
         Iterate(HandleCompletion(begun, Head(completions)), start)
    /\ completions' = Tail(completions)
    /\ worker' = IF worker.phase = "Reported" THEN Idle ELSE worker

(* The timer of the scheduler; it has none while suspended or awaiting.       *)
WakeForDeadline ==
  \E start \in BOOLEAN :
    /\ loop.lifecycle = "Running" /\ loop.awaiting = 0
    /\ Iterate(loop, start)
    /\ UNCHANGED <<worker, completions>>

(* An applet request or a worker of another owner; a day without any.         *)
WakeOtherwise ==
  \E start \in BOOLEAN :
    /\ Iterate(loop, start)
    /\ UNCHANGED <<worker, completions>>

(* A new configuration cancels the run, drops discovery jobs and may find     *)
(* other hardware.                                                            *)
WakeForFiles ==
  \E dropped \in SUBSET DiscoveryJob, hardware_changed, start \in BOOLEAN :
    /\ loop.config < MaxConfig
    /\ LET changed == [CancelRun(loop) EXCEPT
                         !.config = @ + 1,
                         !.inventory = IF hardware_changed THEN @ + 1 ELSE @]
       IN  Iterate(Invalidated(changed, dropped), start)
    /\ UNCHANGED <<worker, completions>>

(* The worker takes one message at a time; a rescan or a run waits for the    *)
(* blocking lane.  It gives up the rescan if the daemon slept before or       *)
(* meanwhile, and answers the run at once if it was cancelled.                *)
Stale(m) ==
  IF m.kind = "Rescan" THEN m.lifecycle # loop.lifecycle_generation
  ELSE loop.run # "Live"

GiveUp(m) ==
  /\ worker' = Idle
  /\ completions' = IF m.kind = "Run" THEN Append(completions, m) ELSE completions

Receive ==
  /\ worker = Idle /\ loop.channel # <<>>
  /\ LET m == Head(loop.channel)
     IN  IF m.kind = "Invalidate" THEN UNCHANGED <<worker, completions>>
         ELSE IF Stale(m) THEN GiveUp(m)
         ELSE worker' = [phase |-> "Lane", work |-> {m}] /\ UNCHANGED completions
  /\ loop' = [loop EXCEPT !.channel = Tail(@)]
  /\ UNCHANGED <<signals, said>>

EnterLane ==
  /\ worker.phase = "Lane"
  /\ \E m \in worker.work :
       IF Stale(m) THEN GiveUp(m)
       ELSE worker' = [worker EXCEPT !.phase = "Work"] /\ UNCHANGED completions
  /\ UNCHANGED <<signals, said, loop>>

Finish ==
  /\ worker.phase = "Work"
  /\ \E m \in worker.work :
       /\ completions' = Append(completions, m)
       /\ worker' = IF m.kind = "Run" THEN [phase |-> "Reported", work |-> {}] ELSE Idle
  /\ UNCHANGED <<signals, said, loop>>

Next ==
  \/ Signal
  \/ WakeForCompletion \/ WakeForDeadline \/ WakeForFiles \/ WakeOtherwise
  \/ Receive \/ EnterLane \/ Finish

Spec == Init /\ [][Next]_vars

(* The runtime polls what is ready: the worker moves on, a completion and a   *)
(* deadline wake the loop.                                                    *)
PromptSpec ==
  /\ Spec
  /\ WF_vars(Receive) /\ WF_vars(EnterLane) /\ WF_vars(Finish)
  /\ WF_vars(WakeForCompletion) /\ WF_vars(WakeForDeadline)

(* Failing all else the loop wakes after a day (sleep_duration).              *)
FairSpec == PromptSpec /\ WF_vars(WakeOtherwise)

-----------------------------------------------------------------------------
(* Properties.                                                                *)

Outstanding ==
  {m \in Range(loop.owner_messages) \cup Range(loop.channel) \cup worker.work
         \cup Range(completions) : m.kind = "Rescan" /\ ~Stale(m)}

(* The machine never waits for an inventory nobody collects, nor for two:     *)
(* after a resume exactly one rescan that will not be given up is on its way, *)
(* and it carries the awaited id, through reloads, full channels and further  *)
(* sleeps.                                                                    *)
RescanOutstanding ==
  IF loop.lifecycle = "Running" /\ loop.awaiting # 0
  THEN Cardinality(Outstanding) = 1 /\ \A m \in Outstanding : m.id = loop.awaiting
  ELSE Outstanding = {}

(* An inventory begun before a sleep is never committed after it: what is     *)
(* taken answers the reconciliation the machine awaits.                       *)
StaleInventoryIgnored ==
  [][ completions # <<>> /\ completions' = Tail(completions)
        /\ loop'.inventory # loop.inventory
      => loop.awaiting # 0 /\ Head(completions).id = loop.awaiting ]_vars

(* What the machine does with a sequence of signals: its last state, and      *)
(* whether it resumed.                                                        *)
Outcome(events) ==
  LET end == Handled(loop, events)
  IN  <<end.lifecycle, end.next_id # loop.next_id, end.requested # {}>>

(* Coalescing loses nothing: the drained events have the effect every single  *)
(* signal, in its order, would have had; a sleep over before the loop looked  *)
(* still resets the counters and reconciles.                                  *)
CoalescingIsFaithful == Outcome(Events(signals)) = Outcome(said)

(* A resume is reconciled, or overtaken by the next sleep.                    *)
ResumeReconciled ==
  \A id \in 1..MaxLifecycle :
    loop.awaiting = id ~> (loop.awaiting # id \/ loop.lifecycle = "Suspended")

(* docs/DESIGN.md: the loop sleeps until a deadline, an applet request, an    *)
(* inotify event, an I/O completion or a lifecycle signal.  A signal is only  *)
(* stored: nothing wakes the loop for it.                                     *)
LifecycleSignalWakes == signals.dirty ~> ~signals.dirty
=============================================================================
