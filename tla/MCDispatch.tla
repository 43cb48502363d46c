----------------------------- MODULE MCDispatch -----------------------------
(* A small instance of the daemon loop for TLC.  The configuration the daemon *)
(* starts with decides what it exercises.                                     *)
EXTENDS Dispatch

Job(timing, freshness) ==
  [timing |-> timing, freshness |-> freshness, history_source |-> NoJob,
   startup_panel |-> FALSE, counter |-> FALSE, amd |-> NoAmd]

OnPanel(job) == [job EXCEPT !.startup_panel = TRUE]
Of(job, j)   == [job EXCEPT !.history_source = j]

MCOwnerOf == [j \in JobId |-> CASE j = "cpu" -> "Cpu" [] j \in {"net", "history"} -> "Network"
                                [] j = "scan" -> "Discovery"
                                [] j \in {"nvml", "fallback"} -> "Nvidia"
                                [] j = "graph" -> "Page"]

MCOutcomesOf == [j \in JobId |-> CASE j = "net" -> Outcomes
                                   [] j \in {"nvml", "scan"} -> {"Captured", "Failed"}
                                   [] OTHER -> {"Captured"}]

MCOwners == {MCOwnerOf[j] : j \in JobId}

MCJobRank == [j \in JobId |-> CASE j = "cpu" -> 0 [] j = "net" -> 1 [] j = "history" -> 2 [] j = "nvml" -> 3
                                [] j = "fallback" -> 4 [] j = "graph" -> 5 [] j = "scan" -> 6]

Spec1(j) ==
  CASE j \in {"cpu", "net"} -> OnPanel(Job("FastDisplay", 3))
    [] j = "history" -> Of(Job("History", 2), "net")
    [] j = "scan" -> OnPanel(Job("Periodic", 9))
    [] j = "nvml" -> OnPanel(Job("FastDisplay", 3))
    [] j = "fallback" -> OnPanel(Job("Periodic", 9))
    [] j = "graph" -> Job("Triggered", 9)

PlanWith(J, hidden) ==
  [display_interval |-> 3, jobs |-> [j \in J |-> Spec1(j)],
   demand |-> [hidden |-> hidden, main_tooltip |-> {},
               pages |-> [p \in PageId |-> IF p = "Graphs" THEN J \ hidden ELSE {}]]]

(* counters: a counter with its history, or without it, reloaded at will;     *)
(* devices: discovery may find a graphics card; graphs: the page of graphs,   *)
(* which a reload to plain removes.                                           *)
MCConfig == {"counters", "counter", "devices", "graphs", "plain"}

MCReloads == [c \in MCConfig |-> CASE c = "counters" -> {"counter"} [] c = "counter" -> {"counters"}
                                   [] c = "devices" -> {"devices"} [] c = "graphs" -> {"plain"} [] c = "plain" -> {}]

MCStimuli == [c \in MCConfig |-> CASE c \in {"counters", "counter"} -> {"Config"}
                                   [] c \in {"devices", "plain"} -> {}
                                   [] c = "graphs" -> {"Presentation", "Page", "Style", "Config"}]

MCPagesOf == [c \in MCConfig |-> IF c = "graphs" THEN PageId ELSE {"Main"}]

MCSchedulerConfig ==
  [x \in MCConfig \X BOOLEAN |->
     CASE x[1] = "counters" -> PlanWith({"net", "history"}, {"net", "history"})
       [] x[1] = "counter" -> PlanWith({"net"}, {"net"})
       [] x[1] = "devices" -> LET J == {"scan"} \cup IF x[2] THEN {"nvml", "fallback"} ELSE {}
                              IN  PlanWith(J, J)
       [] x[1] = "plain" -> PlanWith({"cpu"}, {"cpu"})
       [] x[1] = "graphs" -> PlanWith({"cpu", "graph"}, {"cpu"})]

MCPlans == {MCSchedulerConfig[x] : x \in MCConfig \X BOOLEAN}
=============================================================================
