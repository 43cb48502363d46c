# A verification model of PlasmaTop

PlasmaTop is a system monitor for the KDE Plasma panel. A daemon (`src/src`) samples
sensors through a pool of *owners*, renders a panel and a tooltip, and publishes them over
D-Bus to a plasmoid. This directory models the part of it that decides *what runs when, and
what may be shown*: the scheduler's state machine, the daemon loop and its services, the
plasmoid's leases, what the owners keep of their readings, and the catalogue of jobs.

## Inventory

| Component | State | Operations | Talks to |
|---|---|---|---|
| Scheduler (`scheduler/machine*.rs`, `model.rs`) | jobs and their deadlines, generations, presentation, one slot per owner, cadence of the display, publications awaiting acknowledgement, resume reconciliation | `Scheduler::handle`, one arm per `SchedulerEvent`; `next_wake` | returns actions to the loop |
| Daemon loop (`daemon/async_loop.rs`, `control.rs`, `dispatch.rs`, `completion.rs`) | action queue, pending owner messages, a pending completion, valid runs, lifecycle generation | drain, flush, handle a completion, read I/O events, sleep | scheduler (calls), owners (channels of 2), completions (a channel of 16) |
| Owners (`worker.rs`, `worker/*.rs`) | counters and histories of their sensors, a checkpoint | run, reset, invalidate, rescan; wait for the loop's verdict | one blocking lane shared by all |
| Sleep signals (`adapters/shell.rs`) | the coalesced queue `SleepEvents` | push (from logind), drain (by the loop) | mutex |
| Reload (`reload.rs`, `files.rs`, `file_watch.rs`) | watched targets, pending and debounced changes | reload, re-arm, stabilise | inotify, scheduler, owners |
| Publication (`async_loop/state.rs`) | readings, generations, what was published, the deferred first paint | commit, invalidate, publish | publisher |
| Applet (`adapters/applet.rs`, `async_loop/applet.rs`) | leases, dead clients, dirty properties, retired connections | present, dismiss, step page, disconnect, reconnect | D-Bus, loop |
| Notifications (`notify.rs`, `async_loop/notifications.rs`) | latches | check, enqueue | D-Bus |
| Command and D-Bus services (`adapters/command.rs`, `dbus.rs`) | queues of 2, two slots, backoff | call, time out, kill and reap, reconnect | child processes, buses |
| Samples (`sensors/scheduled*.rs`, `attempts*.rs` and the readers) | per metric the last two samples, counters with the time they were read, sources, histories | run a job, reconcile sources, reset a baseline, invalidate | owners (inside), `/proc`, `/sys`, UPower, hidraw, commands |
| Catalogue (`catalog*.rs`, `domain/registry.rs`, `metric.rs`) | none: a function of configuration and hardware | `scheduler_config` | scheduler, through the loop |
| Discovery (`discovery.rs`, `state/merge.rs`) | the known hardware, the mounts | local attempt, inventory family, identity, rescan | loop, discovery owner, machine |

What is hard here is mostly ordering. Runs are cancelled but their workers cannot be
interrupted, so answers arrive after the world has changed; configuration, inventory,
sleep and presentation each invalidate something else; several deadlines compete for one
timer, and several reasons to publish for one frame; and signals are coalesced. Nothing
is persisted but caches, so a crash only loses them: there is no recovery protocol.

What makes each part correct:

- *scheduler*: an owner is busy exactly while a worker owes an answer; obsolete work is
  cancelled; histories stay on their grid; no deadline is forgotten, none fires twice; every
  wait is bounded;
- *loop and owners*: messages of an owner stay in order, rejected results leave no trace,
  a resume is always reconciled, a rescan from before a sleep is never committed;
- *applet*: a lease dies with its client, in the order of the bus; a change is announced;
- *notifications*: one alert for each excursion;
- *services*: a call is answered once, in bounded time, and its slot is freed;
- *samples*: what is shown was measured of the hardware it stands beside, over an interval
  that nothing interrupted;
- *catalogue and discovery*: every job that is demanded can come into being, because its
  inventory is demanded with it, and can show something, because its capability is configured.

`PROJECT.json` lists every component and, under "hazards", where each of these bites.

## Modules

| Module | Models | Status |
|---|---|---|
| `SchedulerPolicy` | the arithmetic of `policy.rs`: retry delays, deadlines on a grid | done |
| `Scheduler` | the machine: one action for each event | done |
| `WorkerSlots` | abstract: what owners may rely on | done |
| `SchedulerProperties` | what the machine promises, and the refinement of `WorkerSlots` | done |
| `SchedulerOwnerProofs` | proof that every reachable state is well typed, owners are exclusive, runs in flight current, and that the machine implements `WorkerSlots` | done |
| `SchedulerWakeProofs` | proof that sleeping until the next wake is safe, that the timer does not spin, that a transition renders once, that display deadlines are counted and that waits are answered | done |
| `SchedulerJobProofs` | proof of the invariants of histories, fast jobs and page work | done |
| `MCScheduler` | instances for TLC | done |
| `SleepCycle`, `MCSleepCycle` | sleep signals, loop and discovery owner | done |
| `SleepCycleProofs` | proof that a resume waits for exactly one rescan, that no stale inventory is taken and that coalescing is exact | done |
| `Dispatch`, `MCDispatch` | composes the machine with the loop's action queue, the owners' channels, workers, blocking lane, commits, the deferred first panel and publication | done |
| `Applet`, `MCApplet` | plasmoid, bus, applet service and the loop's leases | done |
| `AppletProofs` | proof of the types, of the order of a connection's events, of the shell's view and of the daemon's leases | done |
| `Notify` | sustained and edge alerts, the bounded queue, the delivery task | done |
| `CommandService` | queue, slots, deadline, drains, process groups, shutdown | done |
| `BusService` | D-Bus connections, generations of calls, backoff, readiness | done |
| `FileWatch` | directories, inotify, debouncing, re-arming, stabilisation | done |
| `ServiceProofs` | proof that only a lost connection is given up, every change of a watched file is noticed but what a re-arming closes away, every alert has its reason and a daemon that ends leaves no process of a command behind | done |
| `MCServices` | the four services above, side by side | done |
| `RetainedSamples` | `MetricSamples`: what one attempt leaves of a metric | done |
| `NetworkSamples`, `CpuSamples`, `MemorySamples`, `DiskSamples`, `GpuSamples`, `ProcessSamples`, `PowerSamples`, `ExternalSamples`, `NpuSamples` | an owner each: what it keeps and what is on display | done |
| `BoltQuery` | the HID++ dialogue with a Bolt receiver | done |
| `Catalogue` | the jobs a configuration demands of the known hardware, as operators | done |
| `Discovery` | how the hardware becomes known, over `Catalogue` | done |
| `SensorProofs` | proof that what is kept and shown of the network is of one interface, of the graphics cards of one card | done |
| `SourceProofs` | proof that what is shown of disks, files, the NPU and batteries was read of the source in force, that of the processor, processes and memory measured of what is there, and that the demanded inventory suffices for the jobs | done |
| `MCSensors` | the owners, the catalogue and the discovery, side by side | done |

### Scheduler

`Scheduler::handle` is a pure function of the state and an event, so the whole machine is
one variable `sched`, a record with the fields of `struct Scheduler` and the actions the last
transition returned. Each event is an action of `Next`; the private methods it calls
(`process_time`, `dispatch`, `refresh_demand`, `replace_jobs`, ...) are operators from state to
state, in the order of the code. `At(t)` is the clock moving forward, `Accept` the trailing
sort and dispatch of an accepted event, `Reject` the one event that may be refused after the
clock was processed. Actions are a set, because the code sorts them by a key that does not
depend on their order of creation. Times are natural numbers in units of the instance.

Jobs are data (`Plans`): what the catalogue computes from a configuration is a constant. A job
has a timing class, a freshness, perhaps a history source, and flags. The metrics an AMD job is
asked for are only told apart as "also those of the tooltip" or not (`WideAmd`). An
attempt's outcome is one of the code's `CompletionKind`s, chosen freely.

Faults: operators whose comment starts with `Fault:` are never used by the specification;
each is what the operator next to it would be with a plausible mistake, and the mutants of
`PROJECT.json` put one in its place to show that the property notices.

### WorkerSlots

The abstract view of the owners: a slot is taken by a fresh run, may be cancelled, and is
left when its worker answers, in no other way. `KeepsSlots` says `Scheduler` implements it under
the mapping `slot[o] = (in_flight_owners[o], whether it is in cancelling)` and
`fresh = next_run_id`.

### SleepCycle

The loop, the owners and the services are tasks of one single-threaded Tokio runtime
(`daemon.rs` spawns the loop on it), and the loop awaits only in `wait_for_wake_with_files`. So an
iteration is one step (`Iterate`), and the worker and logind move between iterations. What ended
the sleep is a step of its own: a completion, the scheduler's deadline, watched files with a
reload, or anything else. Of the scheduler only lifecycle, `awaiting_resume_inventory` and the run
of the discovery owner are kept; of the owners only Discovery, the one that rescans.
`said` is a history variable: the raw signals since the loop last looked. The blocking lane is
the step between `Lane` and `Work`: other owners may hold it for any time.
The inventory generation also moves when a discovery run or another owner commits; that cannot
happen while an inventory is awaited, when no run is current, and is left out.

### Dispatch

`Dispatch` extends `SchedulerProperties`: `sched` is the machine between two events, and every
call the loop makes of it (`Handle`, `Finished`, ...) is the operator of `Scheduler`, so the two
are composed and not merely alike. `loop` is `RuntimeState` with the queue of actions and the
owners' messages; `workers`, `lane` and `completions` are the other tasks. An iteration is one step
(`Iterate`): wake, drain the actions, flush the messages, paint if the deadline is over, advance
the time. An action of the machine is a record of a kind, performed by one operator
(`StartRun`, `CancelRun`, `InvalidateReadings`, `Publish`); a completion goes through
`HandleCompletion`, whose operators follow `handle_completion` in its order: eligibility,
the machine's verdict, the commit, what an inventory introduced, the held-back panel, the
redrawn graph.

A reading is the number of the run that measured it. That is enough to tell an old value from a
new one, one owner's from another's, and what a checkpoint goes back to. A worker keeps what it
remembers and its checkpoint; `Uses` gives them back when the loop refuses a run. Jobs of the
blocking lane wait for one another; the others run as they please.
The instance has five configurations, each with the environment events it is for (`Stimuli`): a
counter with its history, a counter alone, a discovery that may find a graphics card
(whose failing query has a fallback), the page of graphs, and a plain one without.

`FirstPanelComplete` claims nothing after the second change of inventory: a second one while the
panel is held back leaves the awaited set alone. The pending queue (1024 in the code, with 14
owners and coalesced kinds) is unbounded here.

### Applet

Widgets with their lease state machine (`PresentationLease.qml`), the shell that hosts
them, the bus with its name owner, one serving task per connection, the event channel with its
reserved permits, the loop's leases and the emitter of changed properties. The bus delivers
messages in order and answers the calls of a lost connection with an error; zbus dispatches
the calls of a connection in order, and `GetAll` is answered in one step. The user acts
at any time, also while the news of a registration is unread: then a call may reach the new daemon before
`restart()` forgets it, which is finding 3. `shell.overtaken` is a history variable: the widgets last used so early on
the present connection. `LeasesFollowIntent` excepts a lease too many of these widgets and nothing else: a lease
that is wanted is there even then. `LeasesAreExact` is without the exception, and violated.
What a lease makes the scheduler do is `WakeForPresentation` of `Dispatch`.
Left out: a name that is taken, failing acquisitions and their backoff, `SetGeometry`, a restart
of the daemon's process (it starts empty, as after a lost connection), and the tooltip's HTML.

### Notify

`Pass` is `check`: one latch for each sustained alert (over a threshold for `hold`) and each edge alert.
`past` is a history variable that remembers what the readings were, without regard to latches, and
`AlertsAreRight` compares the two. A charging battery is a reading above its threshold,
and `<` against `<=` a shifted one; the hysteresis is not negative (`cool`). A missing reading and a check
switched off leave `since` alone, so "for `hold`" speaks of the readings seen. A full queue
loses an alert whose latch stays set.

### Command service

Callers, the queue of 2, the slots, and for each command its process group, the helpers it left
behind, who holds its pipes, and the phases of `execute`: wait for the child or the deadline,
kill and reap, await the drains, answer. Shutdown is the thread of `adapters/shell.rs` with its
budgets, which drops tasks in any phase (`kill_on_drop` and the group's guard). A process that
leaves its group and keeps the pipes blocks the answer after a timeout until the shutdown
(`command.rs` 217-218 and 240-245, where the drains are awaited without a deadline);
`EveryCallReturns` excludes exactly that. What a panic does is modelled for a bus service only.

### D-Bus services

`serve_bus` for the system bus (with its signals) and `serve_session`, by the kind of `peer`: a
queue, bounded calls with the generation of their connection, the signal task, readiness and
backoff. The session bus notices a loss at the next call only. A failing match rule ends the
signal task (`MonitorFails`). A call ends within its timeout of 5 s, in any way.

### File watch

A tree of three levels whose directories come and go, the watches on it, inotify's queue with its
overflow, and `FileWatcher`: what it has read, the debounce, the recovery after an overflow or an
ignored watch. `select!` drops its future between any two awaits, and the next `changed` goes on
from the fields. Files are written and directories moved at any time, also between the last read of the old
descriptor and the installation of the new watches. The branch for `needs_rearm` (`file_watch.rs`
143-145) moves the watches and does not look at the files, so what is queued then goes with the old descriptor
(see the observation on files). `unheard` is a history variable: the sources of those events (`Untold`), until they are read again for
another reason. `NothingMissed` excepts these sources and nothing else.
Creating the watcher is one step. Invalid configurations, failing installations, targets that are
directories or symbolic links, and files changed while they are read are left out.

### The owners of the sensors

`RetainedSamples` is the vocabulary of `attempts.rs`: an attempt ends with a value, a confirmed
absence or a failure; a failure keeps the last sample, an absence forgets it. A value is never
a number: it is *what was measured*, such as the interface and the instant of the counter a rate was
compared with. That is what the properties are about, and it makes a value of the wrong device or
interval visible wherever it ends up. Each module holds an owner's state, what the loop has on display
of it (the ranges `apply_owner_readings` copies and `invalidate_readings` clears) and the hardware,
the demand and the configuration its jobs depend on. Its actions are the owner's jobs (`execute_scheduled_job`), the
invalidations that a discovery, a reload or a change of demand causes (`invalidate_scheduled_job`,
by `replace_jobs`), and the reset after a sleep (`reset_counter_baseline`).

- `NetworkSamples`: two jobs write one reading (the rate and the identity), each can notice
  another route first; Wi-Fi is read with it. `NetworkSamplesHold`: nothing of a former interface
  stands beside the new one, a rate spans one counter and no sleep.
- `CpuSamples`: usage of the machine and of each core, whose number may change; the temperature, whose
  sensor may be exchanged; four series. Frequency and turbo follow the temperature's rule.
- `MemorySamples`: the arithmetic itself, over all small `/proc/meminfo`s: fields that are absent,
  differences that go negative, halves and `round_half_even_ratio`. The estimate of what is available
  is compared with a reference definition (`PsutilAvailable`: psutil's formula).
- `ProcessSamples`: the panel and the page, which starts from the panel's scan when it has none.
- `DiskSamples`: the rate with its series, and values under a label (temperature, fan, SMART), whose file
  or drive may be exchanged. `ExternalSamples`: two status files and the brightness. `NpuSamples`: one table
  of the driver, which may change its layout, and a history.
- `GpuSamples`: three vendors with an owner each, the loop's points of a deadline (`gpu_history_point_for`)
  and the one series of the selected card.
- `PowerSamples`: batteries from sysfs or UPower and a peripheral from UPower or Bolt, by configuration
  or discovery, with the names and caches of each.
- `BoltQuery`: up to four requests over a file that also carries the reports of other devices and
  programs. The property claims nothing while another program asks the same device for the index of
  a feature: `transfer` does not look at the software id.

### Catalogue and Discovery

`Catalogue` is `scheduler_config` with the operators it is made of, under their names. A job is its
kind and its source. Metrics the code lists in one arm everywhere are one (`gpu_nvidia` stands for five);
a source that is there or not is a set of at most one. Cadences are not part of it: the scheduler's modules vary them.
`Discovery` has the machine as it is (`machine`) and as it is known (`known`), and everything that
makes one the other: the local attempt of a start and a reload, a run of each demanded inventory family
on a copy of what was known when it started, the identity of the network, the rescan. A probe can fail and then
leaves its part. `captured` is a history variable: the families whose last run was captured of the
machine there is. `CatalogueFits` says that when every demanded family has been captured, the
demand is that of the machine, although nothing else of it is known: the
metric's jobs and its inventory family are written down in different tables of the code, once more for
alerts, graphs and the tooltip. It also says that a demanded job's capability is configured
(else its owner drops what it reads), and that an AMD job is demanded where its metrics are.

## Runs

Distinct states are in the order of 10^4 to 6*10^5; each run takes at most two to four minutes.

| Run | Question | Bounds that matter |
|---|---|---|
| `ownership` | Do owners, generations and histories survive reconfiguration, rediscovery, sleep, stop and late answers? | 3 jobs on 2 owners (two share one), 3 plans, 1 reconfiguration and 1 rediscovery, 1 sleep, 3 runs, clock to 3 in steps of 1 and 2 |
| `display` | Is the cadence exact? | 1 fast job, cadences 1 (below the first-paint timeout of 2), 2 and 3, clock to 6 in steps up to 4, so that deadlines are missed |
| `tooltip` | Presentation, grace, pages, activation | a tooltip job and a page job, 2 plans, 2 pages, clock to 4 by 1 |
| `requests` | Are the first paint and the activation answered in the end? | 2 jobs, all requests, workers that need not answer |
| `sleep_cycle` | Is every sleep read faithfully and every resume reconciled? | 2 droppable discovery jobs, so that they fill the channel of 2, 3 lifecycle signals pending or generations, 2 reloads |
| `dispatch` | Is every run answered once, does a worker remember what is shown, is the first panel complete or late and never lost? | 7 jobs on 5 owners in 5 configurations, 3 runs, channels of 2, 2 publications, clock to 3 |
| `applet` | Do leases follow what is presented, and does the shell show what was published last? | 2 widgets, a channel of 1, 2 connections, 5 scenarios that bound what the user, the crashes and the panels may do |
| `services` | Alerts, commands, buses and files: see the modules | readings 0 to 3 under 3 rules; 3 callers on a queue and a slot of 1, budgets of 1 and 2; 2 clients, 2 troubles, backoff 1 and 2; 3 targets written and deleted, directories there or not at the start and 2 moves of them, a kernel queue of 2, so that it overflows |
| `sensors` | Is what is shown measured of what it stands for, and is it demanded with its inventory? | 2 interfaces, sensors, devices, batteries, NPUs and sources; 5 sets of cards; 1 or 2 changes of hardware, demand or configuration and a clock to 1, 2 or 3 in each part; 51 `meminfo`s; 2 devices and 2 reports of others; 2 machines, a configuration for each metric on panel and tooltip, for each alert, and the graphs |
| `applet_overtake` | violated: a comment says that a newly registered daemon holds no lease | 1 widget, hovered at most twice |
| `pending_tooltip` | violated: docs say no tooltip is published while its refresh is pending | as `tooltip` |
| `lifecycle_signal` | violated: docs say a lifecycle signal wakes the loop | as `sleep_cycle` |

The bounds are small, but each lets the case it is for happen more than once: a run can be
cancelled and superseded while its worker is still busy, a second run can be superseded too, a
deadline can be missed by more than one interval, and the daemon can sleep again while it is
still reconciling the previous sleep. `MaxNow`, `MaxRuns`, `MaxPublications`,
`MaxGeneration`, `MaxResumes`, `MaxLifecycle` and `MaxConfig` bound counters in the guards and
nothing else; `MaxStyles`, `MaxEpoch`, `MaxTime`, `MaxTrouble`, `MaxVersion` and `MaxMoves` do so in the
other modules, and the scenarios of `MCApplet` in that one. At its bounds a model has no step left,
so all runs but the sleep cycle's switch the deadlock check off; there the loop may always wake.
No symmetry is used: jobs are ordered by `JobRank`, and most runs check liveness.
The four services share no state and never wait for one another, so `MCServices` explores the
sum of their states and not the product (`part`); the others stay where they began. `MCSensors` does
the same with the owners, which run on threads of their own; where two owners do meet (an AMD card's temperature in
the CPU series, the loop's points of the cards) the module that needs both has both.
`MaxRoutes`, `MaxCpuMoves`, ... bound the changes of hardware, demand and configuration, `MaxNetTime`, ... the
clocks. In `Discovery` four of the probes may fail (`FailingProbes`; the others are alike, of one enumeration or of
two), and in a run of all probes one enumeration fails at most: that of hwmon takes
temperatures and fans along (`HwmonProbes`).
The display cadences of `display` are shorter and longer than the first-paint timeout: with a poll interval of 100 to
200 ms (`domain/cadence.rs:9`, `machine.rs:25`) a display deadline that has passed stays in `next_wake` until the first
paint, and the timer spins. `WakeAdvances` excepts exactly this (`PaintAwaited`), while the deadline of
the first paint is still ahead.

### Fairness

`FairSpec` of the scheduler assumes only the timer: the loop does not sleep past `next_wake`
(`sleep_duration`). Nothing is assumed of workers, the applet or the clock's steps, and still the
first panel is painted and a tooltip's wait ends. It is written as a formula because the
enabling condition, spelled out, is much cheaper than `ENABLED` of the action.

`PromptSpec` of the sleep cycle assumes that the runtime polls what is ready: the worker takes
and finishes its work, a completion and a deadline wake the loop. `FairSpec` adds that the loop
wakes anyhow, at the latest when the 86400 s of `sleep_duration` are over. `ResumeReconciled` needs it
for two reasons: a signal wakes nothing (finding below), and neither does room in a
full channel.

`DispatchSpec` assumes that the daemon is started, that time passes as long as the loop has a
deadline within the bound (`TimePasses`, a formula, for the reason above), and that completions are
taken, channels read and the lane entered. That a worker finishes is never assumed, so
`FirstPanelPublished` holds with sensors that hang; `OwnersAreFreed` speaks of owners
whose work is not in the lane, which another owner's hanging sensor may hold for ever.

`Spec` of the applet is fair to `System`: the bus, the tasks of the daemon and the shell do what they
can. The user and the disturbances need not do anything. In the services it is the runtimes that
poll what is ready; `Tick` is taken only when they have nothing to do, as timers of seconds
are late by microseconds. Processes need not end, buses need not come back by themselves
(`BusConnects` is the attempt of a service on a bus that is up).

## Findings

1. *A tooltip is published while its refresh is pending* (`docs/DESIGN.md`, publication of
   tooltips). A display deadline in that window publishes panel and tooltip.
2. *A lifecycle signal does not wake the loop* (`docs/DESIGN.md`, step 6 of the loop). It is read
   at the next wake for another reason; a suspended scheduler has none of its own.
3. *A lease may outlive its tooltip* (comments of `PresentationLease.qml`). A widget hovered after the
   daemon has registered anew and before the shell has read so sends `Present` to the new
   daemon; `restart()` then forgets that call, and nothing is dismissed when the widget is left.

## Observations

What the models made visible besides, without a run of its own; each is what the code
does, is modelled so, and is why a property is stated as it is.

- *Activation.* A tooltip's wait for an AMD sample ends with a run that was in flight before the
  presentation (`demand.rs`, `refresh_activation`).
- *Failed inventories.* `apply_inventory_completion` commits the copy a run took along whatever the run
  came to, and `can_commit` does not look at the inventory's generation. A failed run so undoes what
  a rescan or an identity run found in between, until its family is captured again. `discovery.rs:29-30` calls for an
  inventory that "must not be changed" of the run's own copy only. The same holds for the route of a failed
  identity run. `CatalogueFits` claims nothing while a wanted family's last run has failed.
- *GPU series.* An NVIDIA or Intel decoder value may be younger than the deadline of its point
  (`execution.rs`, `gpu_decoder_outcome`); `GpuSeriesAgree` bounds the AMD ones. The Intel
  series is filed under `intel:<pci>`, its job under the bare address, so only the series' own job forgets it.
- *Cores.* The first point after the number of cores changed may fill the common ones only.
- *Processes.* A panel scan overwrites the full rows of the page; an absent one keeps the old rows on display.
- *Batteries.* The order on display is that of completion; labels go by position (`docs/ITEMS.md:90`). A configured
  Bolt name stays in the cache when the override is removed.
- *Peripherals.* A device whose properties cannot be read does not count, so of two mice the second may take the
  place of the first. `RescanKind::Peripherals` and `needs_periph_rescan` are not used by the daemon.
- *Mounts.* `MountInventory` is demanded only beside a job of some mount; it suffices because the
  root is always one (`Found`).
- *Pending queue.* The daemon ends when 1024 messages are pending; `Dispatch` leaves that queue unbounded.
- *Alerts.* A full notification queue drops an alert whose latch stays set: it is not repeated.
- *Files.* Targets that change with each of eight reloads end the daemon (`files.rs`). After an overflow or an ignored watch
  the watcher arms anew and reads everything; when the watched directories only move (`needs_rearm`) it arms anew and
  reads what its events named, although `docs/DESIGN.md:45` says that it rescans "after overflow, ignored watches, or directory
  recreation" alike. A file of another source that is written between the last read of the old descriptor and the new
  watches keeps its former contents in the daemon until that source changes again: without its last disjunct `NothingMissed` is
  violated, in a behaviour that makes `style` and then writes `config` in that window.

## Proofs

`SchedulerOwnerProofs` proves `TypeCorrect == Spec => []TypeOK` with TLAPS, for every value of the
constants that satisfies their assumptions (finite sets of jobs and owners, positive intervals,
well-formed plans: `Scheduler`'s `ASSUME`s, which TLC evaluates for each instance). `TypeOK` is
inductive: it holds the ranges of all fields of the machine, the shape of each job's runtime and
of each action. The argument follows the code. There is a lemma for each operator, saying it
takes well-typed states to well-typed states (`RetriedRuntimeType`, `DispatchType`, ...), with
`RuntimeOf` to update one job of the map; `StepType` then takes the events one by one, and the
last theorem is the usual temporal induction.

It proves `OwnersAreExclusive == Spec => []OwnerExclusive` and
`InFlightRunsAreCurrent == Spec => []InFlightIsCurrent` from the same assumptions. Neither
invariant is inductive. That an owner is freed by the right answer needs two facts more: a
ticket is filed under its own job (else a job that ends would take away another owner's run),
and `in_flight` and `cancelling` are disjoint (else the answer to a run would leave a trace of it
that holds an owner now free). That dispatch finds no live run behind a free owner needs run
numbers to differ from 0. `Owned` is the conjunction; it does not mention generations, because
`reconfigure` and `change_inventory` move to the next generation before they cancel, so that
between the two assignments the runs in flight are obsolete. `Era` says that they are current;
`ReplaceJobsSound` needs only `Owned` before and gives `Sound == IsState /\ Owned /\ Era` after,
since nothing is in flight then. The lemmas again follow the code, an operator each:
`QuietSound` covers the operators that leave runs alone, `CancelRunsOwned` the move from
`in_flight` to `cancelling`, `ReleaseOwned` the end of a run, `DispatchSound` the new ones
(`ChosenAlone`: the order of dispatch is total, so each owner has one first candidate).
`Follows` carries along that no operator but an acknowledgement forgets a cancelled run, which
is why the acknowledgement, handled after `process_time`, still finds its ticket.

The last part of `SchedulerOwnerProofs` proves `SlotsAreKept == Spec => KeepsSlots`: the machine implements
`WorkerSlots` for every value of the constants, under the refinement mapping that reads the slot of
an owner off `in_flight_owners` and `cancelling`. A transition of the machine is a handler followed
by dispatch, and the proof is cut there. `SlotsStay(s, u)` says that no owner is freed or taken between
two states and no cancelled run forgotten; it holds of every operator but two, a lemma each.
`Frees` is the end of a run, the one answer a transition hears; `Starts` is dispatch, which fills
free slots under numbers from `next_run_id` on. `BeforeOrders` and `RunNumbers` show that dispatch
numbers the chosen jobs by their rank, without a gap or a repetition. The inductive invariant adds
`Numbered` to `OwnershipInv`: runs are below `next_run_id` and no two owners share
one, without which the answer to one run could empty two slots.

`AppletProofs` proves `AppletTypeCorrect` and `NothingAfterTheLoss`: `TypeOK` (with the bound of the
event channel) and `LostIsLast` for any finite set of widgets and any capacities. They are inductive
together, once `Shape` says that the queue is a sequence and the records have their fields: `LostIsLast`
needs that only the newest connection, retired once, puts a `ConnectionLost`, and that `Outbox::send`
drops what comes after. There is a step for each action, and under it the parts of the invariant
the action can disturb.

`ViewsAreCurrent` is `ViewCatchesUp` in the same module. Nothing of it survives a step by itself, for
what is published reaches the shell in several hands: `Current`, the core of `ViewInv`, says
where it is while it travels. Either the shell will ask for everything (the news of a
registration is in its inbox, or its `GetAll` waits at the connection that owns the name), or each
property is dirty, or in the emitter's batch, or the last message about it in the inbox, or else the view,
has its newest value (`Shows`). `Outlet` adds that a dirty property has its permit and that
a batch is out of date only where the property is dirty again. The shell's reactions are followed call by
call (`Reacts`): whatever `drain` sends, a waiting `GetAll` is not lost and the inbox is left alone.
`daemonRegistered` and the loss of a connection go along a sequence, as recursive functions, and are
shown by induction on positions (`EveryPosition`).

`LeasesAreIntended` is `LeasesFollowIntent`, the promise of the whole protocol, for a shell that acts at any
time: finding 3 is an exception in the property (a widget last used while the registration was unread), not an assumption. A lease is settled only when everything
has arrived, so `LeaseInv` speaks of what *will* be held. `Holds(q, held, n, w)` says whether caller `n` has a lease
of widget `w` once the messages of `q` are handled; `Lease` applies it to the events before the loop's table, and
`Predict` to the calls of the connection before that. Four things are invariant.
`Table`: no lease is held for a client that is gone, and after the loss of a connection nothing will be left of it.
`Tracks`, of the connection that owns the name: names are those the bus gave, none to be given later; who has or will
have a lease is known or reported; who is known and is not the shell has a departure waiting, will be asked for
(`confirming`, or the `first` of a begun call) or is reported; and nothing says of the shell that it has left. A caller
whose departure is taken before its call is begun is caught by being asked for.
`News`: a loss is followed by a registration in the inbox.
`Intents`: if a registration is still to be read, a lease that will be held is wanted or was asked for too early
(`Wanted`); if not, every widget is `Fine`: one that waits has exactly one call or reply of the current registration on its way, of the kind that
`Predict` says, and one that does not wait knows what it presents to be what will be held, or holds a lease too many
because it was used too early (`Granted`). A later use ends the exception, for its call is the last the daemon handles. The lifetime in
the calls is what makes this inductive: a reply of an earlier registration is about nothing. The reactions are followed through
`drain`, `settled` and `restart`, each with a lemma that says which widgets stay fine; a step of the connection
moves a message from one queue to the next (`HoldsTail`, `AboutTail`, `ServedIntents`). When all is idle the predictions
are the table, no widget can wait, and who is known can only be the shell.

`ServiceProofs` proves `ConnectionsAreKept == BusSpec => LiveConnectionKept` for any clients,
capacities and backoff. A step that gives a connection up may follow the report of a call, which may
be old: `Dated`, the inductive invariant, says that connections are numbered up to the generation
and that a call reporting a disconnect was made on a connection that does not live any more, also
after the service has connected anew. `GivenUp` lists the steps that end a connection.

`ServiceProofs` also proves `ChangesAreNoticed`: `NothingMissed` for any contents, any order of
writes and moves, any limits and any size of the kernel's queue. Nothing is assumed of when files are written: what falls into the window at
`file_watch.rs:143` is named by `unheard`, which grows in that branch only and by no more than the closed
descriptor would have told. `WatchInv` has four parts:
`Tree` (a file exists only in directories that do), `Stage` (where the future of the watcher stands:
one that reads has nothing pending),
`Watched` (unless a recovery is on its way each watch is of the directory that has the name now,
and the style directory is watched only below its parent) and `Attended` (of each target the last
change has been read, or its source is pending, named by an unread event or `unheard`, or a recovery is on its
way; and the next change will be heard of, or the watcher already knows). The second half is what makes it
inductive: a directory that goes away takes its watch along, and the next write to a file would be silent.

Its third theorem is `AlertsHaveReasons == NotifySpec => AlertsAreRight` for any alerts, thresholds
and capacity of the queue: nothing is told without its reason, and no episode is missed. The code
knows latches only, the property speaks of the readings there have been (`past`), so the
invariant, `Remembered`, relates the two: while a sustained latch is not active its `since` is the
time since which readings were over and its alert may be told again, and while an edge is not
tripped its alert may be. A reload changes the rules under latches that stay, a reading that is
missing and an alert that is switched off leave both its latch and its history as they are.

Its fourth is `NothingIsOrphaned == CommandSpec => []NoOrphans`, for any callers, commands and budgets.
The shutdown does not kill: `Runtime::shutdown_timeout` drops the tasks, and dropping a task leaves its child
alone. So the groups must be dead before, and what sees to it is only that the
clock of the budget passes while the tasks are polled. The invariant is `EndInv`: a command that is not
running or draining has no process of its group (`Groupless`), and once the tasks have been polled after the
stop (`Polled`: the budget's clock has moved, or the runtime is being torn down) the service takes no request
and every command that ever started has been killed. The step that matters is the first `Tick` of the
shutdown: no task is ready then, and `Queueing` (the queue holds waiting callers, each once and without a
command) says that a service that still served would have been. `Tick` waits on `Runnable`, which spells out what `Runtime`
can do, because the prover does not expand `ENABLED`.

`SchedulerWakeProofs` proves five things about the timer and the transitions it causes.
`SleepingIsSafe` is `SleepIsSafe` for any constants, from `SleepInv == OwnershipInv /\ Settled`:
after an accepted event no candidate stands beside a free owner. `DispatchSettles` shows it of
dispatch: if one did, the first of its owner's candidates (`FirstCandidate`, for which a set of
numbers must have a least one) would have been chosen. Then nothing that `NextWake` counts is due
before it (`NothingDue`), `process_time` changes nothing (`NothingElapses`) and no retry becomes
possible (`SettledUntilWake`). `RendersAtMostOnce` is `RendersOnce`: `Once` is inductive only
with `Paced`, which follows a transition from operator to operator: so far it has published refreshes
of the tooltip alone, or the panel is out and the display deadline lies in the future, so that
the display will not publish it again. `Mute` holds of the operators that publish nothing.
`WakingAdvances` is `WakeAdvances` for any plans and every display interval: whatever of the clock a timer
event finds it moves past the present (`OnTime`), but for the display deadline, which `process_time` leaves alone
until the first paint is issued. `Prompt` tells how long that can be: until the first paint its deadline is at most
`FIRST_PAINT_TIMEOUT` away, and comes no later than the display deadline unless the display
interval is the shorter of the two. So a past wake is that display deadline, under such an interval, and the deadline that
ends it is ahead (`PaintAwaited`).

`DeadlinesAreCounted` is `DisplayDeadlinesAccounted`. It follows the same path from operator to
operator as `Paced`: until a handler has passed the display deadline only
refreshes of the tooltip are published, which count no deadline (`Clear`), and the one publication that passes it
counts as many intervals as it moves the deadline (`Booked`); `PassedIntervals` is the arithmetic.
A refresh that is already out and is taken along by the full publication is no second count.

`WaitsAreAnswered` is `ActivationAnswered`, for constants whose `Inputs` lack `"Demand"`. Each operator
from s to u that ends the wait must publish the tooltip, and none may take a published
tooltip back (`Answers`); the operators that publish nothing leave the wait alone (`Still`). The
strengthening is `Looked`: a presented tooltip is effectively presented, else a page change would drop
the wait unseen. The assumption is not for convenience. A reconfiguration may drop from the demand the jobs
the tooltip awaits and keep the wait; a `DemandChanged` with the very same demand then finds
nothing to wait for and clears the deadline without a publication (`change_demand`). TLC shows it with `Inputs`
`{"Presentation", "Config", "Demand"}`. No part of the daemon sends that event, only tests of
the machine do, so the wait of the running program is answered.

`SchedulerJobProofs` proves `HistoriesAreKept`, `FastJobsKeepPhase` and `PageWorkStaysDemanded`
from `JobsInv == OwnershipInv /\ Kept`. `Kept` has three parts. `HistoriesKept` adds to
`HistoriesHold` what the plans say of histories (`Catalogued`) and that a history is never
retried (`Punctual`), so that only its own grid, which moves past every point handed out, makes it
due. `InPhase` is the
distance of a fast job to the display grid, with `AdvancePastGrid` (moving past the present keeps
the grid, the one place that needs division). `Wanted` is the demand of page work: it breaks inside a
handler, between the change of demand and `cancel_demand_ended`, which is why that lemma is stated
from the demand before. They need one assumption on the plans more than the other theorems,
`CatalogueAssumption`: a fast job has the cadence of the display, a history has no AMD metrics, is no discovery
job and samples a job of its own owner that is no history, and a display interval is at least
`FAST_PREFETCH`. It is what the constructors of `JobSpec` (`scheduler/model.rs`) and their callers in the
catalogue build, with a shortest cadence of 100 ms (`domain/cadence.rs:9`) against a prefetch of
50 ms (`machine.rs:24`); TLC evaluates it on every instance.

`SensorProofs` proves `NetworkShowsItsInterface` and `OneSeriesOneCard`: `NetworkSamplesHold` and
`GpuSeriesAgree` for any hardware, lengths of the series and order of the steps. Both use one device:
samples and series have types that say whose they are and when they were measured
(`MeasuredRates`, `LoadSamples`, `UsagePoints`, `DecoderPoints`), the types only grow with time, and
the type of no interface or no card is empty. `CommitKeeps` and `TrimmedSeries` then answer for every
owner's attempt, and a reset is the empty series, which is of any source. The strengthening is what the
code relies on unsaid. For the network it is that the counter was read after the last gap, and that
nothing is kept under a job that does not exist, so that a discovery or a demand that brings the job back finds it
empty (`NetworkKept`). For the cards it is the loop's half: the completion it keeps of an AMD card was read from the
codec file the inventory names *now* (`OfNamedCodec`), which `invalidate_decoder` sees to, and the run
of the history job in flight carries points of the card selected now (`RunKept`), because a
discovery drops it. `GpuAssumption` says of the
inventories that an address is that of one vendor's cards; two cards do not share a PCI address, and
without it a codec sample of one card would count as one of the other.

`SourceProofs` proves the same of the owners whose source can be exchanged. `SourcesAreTheirOwn` states
`SourcesAgree` for any disks, labels, files and NPUs, `LevelsAreTheirOwn` states `PowerHolds` for any batteries,
configurations and reports; each joins the proofs of its modules, which share no state. The
strengthening for the disks (`DiskKept`) says what no line of the code does: the owner's device is that of the
inventory whenever it has one, the counters it compares were read after the last gap, and a series is
there only while its job is. `JobsStay` is the heart of a discovery and a demand: whatever they do not
retire reads what it read before. A gap makes every earlier rate harmless, because it is no later than the gap
(`ResetDiskBaselineKeeps`). For the NPU the retained samples have types of one source and the present
layout (`NpuRetained`), and power and clock are `Paired`, since every read and every reset treats them alike. For the
batteries the cache of a peripheral holds a name and a charge of its own source (`Cached`). For a Bolt
query `Dialogue` says that the query knows the index it uses, that only one answer about an index is on its way,
and that it is the one asked for (unless another program asks too, which `BoltAnswersHold` excepts); with `Truthful` reports of the device's own features nothing else
matches a request that would tell another level. `BoltAssumption` says of the devices that the name
and the battery have different feature indices, as indices of one table of features do; `DiskAssumption` that a
label is not called like the jobs of the I/O. `RetainKeeps` shows by induction on positions
that dropping readings keeps the others once each and in a set.

`ProcessorIsMeasured` is `ProcessorHolds`, for any sensors, processes and contents of the
files. For the processor the retained samples and the points of four series have the type of the interval they were
measured in, which ends after it begins and does not span a gap; `CpuKept` says besides that what is kept of each core was
measured of a layout with as many cores, and that a value of the temperature is the one of the sensor its worker holds, which a
discovery that exchanges the sensor and a demand that drops it both clear. For the processes panel and page count
from baselines of their own, and either may have been taken before the gap (`Scanned`). The memory is
arithmetic: that `calculate_available_bytes`, with its halves rounded toward zero, agrees with psutil's formula, that
every percentage is one whichever field is missing, and that `round_half_even_ratio` is nearest
(`NearestQuotient`), for any amounts that are natural numbers (`MemoryAssumption`; the code parses `u64`s).

`DiscoverySuffices` is `CatalogueFits`. The state needs little: what a captured family finds is known as it is
(`DiscoveryInv`; no part is found by two families, `FamiliesAreApart`, and the root is always a mount, `Whole`). The
rest is about the operators of `Catalogue`, for any configuration. `PlanMeasures` takes a plan apart: each
job measures a metric of some surface (`MeasuredBy`), or measures nothing (`Unmeasured`), or is an inventory
(`Finding`). From it follow the families that can be wanted, the capabilities (`KindsOfMetric`: what a
job's owner asks for is the metric's own capability) and where the AMD jobs stand (`AmdFits`).
That the inventory suffices is a frame argument: `NeededIsWanted` and `MountsAreWanted` say that what a metric, an alert
or the graphs need is demanded, `MetricsAgree` that the jobs of a metric are the same under two inventories
that agree on what its family finds, and `PlansAgree` carries that to whole plans.
`ProcessorIsNeeded` is the one place where two tables must meet: the processor's job reads what is *configured*, and who
configures it asks for the family `Cpu`. `DiscoveryAssumption` says what the types of the code say: metrics and alerts
are those there are, and an inventory has one AMD card at most (`HardwareInventory::amd_gpu` is an option).

`SleepCycleProofs` proves the three safety properties of `SleepCycle` for any capacity of the
channel, any jobs and any number of signals and reloads, from `CycleInv`. `Fresh` are the rescans
of the current lifecycle. `Tracked` says where they are: while the machine awaits an
inventory one fresh rescan, with the awaited id, lies in one place of what is queued, in work or done
(`OnItsWay`), otherwise none does (`Nowhere`); between the events of a batch a requested rescan that is
not yet queued stands in for it. Every operator of an iteration keeps `Sound`, so the iteration
does, in whatever order it composes them. A suspend raises the generation, and since no message is
written with a later one (`Written`), all that exist are stale at once. From `Tracked`
follow `RescansAreCollected`, by counting, and `StaleInventoriesAreIgnored`: a completion that is taken is
fresh, so it is the one awaited. `CoalescingIsExact` needs what `SleepEvents` leaves unsaid: `Reflects`
relates its three fields to what the raw signals would have made of the loop one by one. A pending
resume is one that took an id of its own, and where none is pending and the last signal is a
wake the loop has been running all along, so that replaying the wake does nothing. What
`Handled` and `Without` compute along a sequence is shown by induction on a set of positions
(`EveryPosition`), which the library's well-founded orders give without an operator parameter.

Only model-checked are the liveness properties (out of the prover's reach) and the invariants of `Dispatch`, whose
drain of the action queue is a RECURSIVE operator, which the prover takes in no module.

## Not modelled

Rendering, the files of the configuration, the parsing of `/proc`, `/sys` and tool output, page
commands, command line, diagnostics, configuration UI, the look of the plasmoid, profiling and packaging: text and I/O
without a protocol. Of the samples: uptime, load and frequency (they follow the rule of a metric that is modelled), the keyboard
(as the mouse), and the one-shot collection of `coordinator.rs`. What a probe of discovery reads to
find its part is the machine of `Discovery`. Times saturate in
the code at the end of the clock's range, which no run of the daemon reaches; the model's do not.
