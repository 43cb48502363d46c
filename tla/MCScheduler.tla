----------------------------- MODULE MCScheduler -----------------------------
(* Small instances of the scheduler for TLC.                                  *)
EXTENDS SchedulerProperties

(* cpu is a startup panel job, history samples it; fan shares no owner with   *)
(* them; gpu has metrics only the tooltip shows; command belongs to a page.   *)
AllJobs == {"cpu", "history", "fan", "gpu", "command"}

MCOwnerOf == [j \in JobId |-> CASE j \in {"cpu", "history"} -> "Cpu"
                                [] j = "fan" -> "Power"
                                [] j = "gpu" -> "AmdGpu"
                                [] j = "command" -> "Page"]

MCOwners == {MCOwnerOf[j] : j \in JobId}

MCJobRank == [j \in JobId |-> CASE j = "cpu" -> 1 [] j = "history" -> 2 [] j = "fan" -> 3
                                [] j = "gpu" -> 4 [] j = "command" -> 5]

Job(timing, freshness) ==
  [timing |-> timing, freshness |-> freshness, history_source |-> NoJob,
   startup_panel |-> FALSE, counter |-> FALSE, amd |-> NoAmd]

Startup1(job) == [job EXCEPT !.startup_panel = TRUE]
Counter(job)  == [job EXCEPT !.counter = TRUE]
Of(job, j)    == [job EXCEPT !.history_source = j]
Amd(job, a)   == [job EXCEPT !.amd = a]

Demand(hidden, main, onPage) ==
  [hidden |-> hidden, main_tooltip |-> main,
   pages |-> [p \in PageId |-> IF p = MainPage THEN {} ELSE onPage]]

(* Ownership: a counter and its history beside an independent owner; a        *)
(* reconfiguration drops the history or changes the cadence of the counter.   *)
OwnershipSpec(fresh, j) ==
  CASE j = "cpu" -> Counter(Startup1(Job("Periodic", fresh)))
    [] j = "history" -> Of(Job("History", 2), "cpu")
    [] j = "fan" -> Job("Triggered", 2)

OwnershipPlan(fresh, J) ==
  [display_interval |-> 3, jobs |-> [j \in J |-> OwnershipSpec(fresh, j)],
   demand |-> Demand(J, {}, {})]

OwnershipPlans == {OwnershipPlan(2, {"cpu", "history"}), OwnershipPlan(1, {"cpu", "history"}),
                   OwnershipPlan(2, {"cpu", "fan"})}

(* Display: a fast startup job under cadences shorter and longer than the     *)
(* first-paint timeout.                                                       *)
DisplaySpec(interval, j) ==
  IF j = "cpu" THEN Startup1(Job("FastDisplay", interval)) ELSE Job("Periodic", 4)

DisplayPlan(interval, J) ==
  [display_interval |-> interval, jobs |-> [j \in J |-> DisplaySpec(interval, j)],
   demand |-> Demand(J, {}, {})]

DisplayPlans == {DisplayPlan(n, {"cpu"}) : n \in {1, 2, 3}}

(* Tooltip: a hidden fast job with tooltip-only metrics, a tooltip job and a  *)
(* page job; the second plan no longer shows the fan.                         *)
TooltipSpec(j) ==
  CASE j = "gpu" -> Amd(Job("FastDisplay", 3), "wide")
    [] j = "fan" -> Job("Periodic", 4)
    [] j = "command" -> Job("Triggered", 2)

TooltipPlan(J, demand) ==
  [display_interval |-> 3, jobs |-> [j \in J |-> TooltipSpec(j)], demand |-> demand]

TooltipPlans == {TooltipPlan(JobId, Demand(JobId \cap {"gpu"}, JobId \cap {"fan"}, JobId \cap {"command"})),
                 TooltipPlan(JobId, Demand(JobId \cap {"gpu"}, {}, JobId \cap {"command"}))}

(* Requests: a startup job and a job that moves between tooltip and panel.    *)
RequestsSpec(j) == IF j = "cpu" THEN Startup1(Job("Triggered", 2)) ELSE Job("Triggered", 2)

RequestsPlans ==
  {[display_interval |-> 2, jobs |-> [j \in JobId |-> RequestsSpec(j)], demand |-> demand] :
     demand \in {Demand({"cpu"}, {"fan"}, {}), Demand({"cpu", "fan"}, {}, {})}}
=============================================================================
