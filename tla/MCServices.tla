------------------------------ MODULE MCServices ------------------------------
(* The services beside the scheduler, checked in one run.  They share no      *)
(* state and never wait for one another, so their behaviours are explored     *)
(* side by side, one part each, and not interleaved.                          *)
EXTENDS Notify, CommandService, BusService, FileWatch

VARIABLE part

all == <<notifyVars, commandVars, busVars, watchVars, part>>

MCRules ==
  LET both == {"cpu", "battery"}
  IN  { [trip |-> 2, cool |-> 1, hold |-> 2, on |-> both],
        [trip |-> 1, cool |-> 1, hold |-> 0, on |-> both],
        [trip |-> 3, cool |-> 1, hold |-> 1, on |-> {"battery"}] }

MCVersions == [f \in File |-> 1]

MCInit ==
  /\ NotifyInit /\ CommandInit /\ BusInit /\ WatchInit
  /\ part \in {"notify", "command", "bus", "watch"}
  /\ part # "bus" => peer.kind = "System" /\ ~peer.up
  /\ part # "command" => ~shell.orchestrated
  /\ part # "notify" => rules.hold = 0

NotifyPart == part = "notify" /\ UNCHANGED <<commandVars, busVars, watchVars, part>>
CommandPart == part = "command" /\ UNCHANGED <<notifyVars, busVars, watchVars, part>>
BusPart == part = "bus" /\ UNCHANGED <<notifyVars, commandVars, watchVars, part>>
WatchPart == part = "watch" /\ UNCHANGED <<notifyVars, commandVars, busVars, part>>

MCNext ==
  \/ NotifyPart /\ NotifyNext
  \/ CommandPart /\ CommandNext
  \/ BusPart /\ BusNext
  \/ WatchPart /\ WatchNext

MCFairness ==
  /\ WF_all(CommandPart /\ Runtime)
  /\ WF_all(CommandPart /\ Tick)
  /\ WF_all(BusPart /\ BusRuntime)
  /\ WF_all(BusPart /\ BusConnects)

MCSpec == MCInit /\ [][MCNext]_all /\ MCFairness
=============================================================================
