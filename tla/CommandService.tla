---------------------------- MODULE CommandService ----------------------------
(* External commands (adapters/command.rs) and the shell thread that runs the *)
(* I/O services and ends them within a budget (adapters/shell.rs).            *)
(*                                                                            *)
(* A caller blocks until it is answered.  A command is a process group: the   *)
(* child and its helpers, which the service can kill, and possibly a process  *)
(* that left the group and still holds the output pipes.                      *)
EXTENDS Integers, FiniteSets, Sequences

CONSTANTS
  Caller,
  COMMAND_QUEUE_CAPACITY,
  MAX_COMMANDS,
  Timeout,                  \* of a request, in ticks
  JOIN_BUDGET,              \* for the services to end, in ticks
  SHELL_SHUTDOWN_BUDGET

ASSUME CommandAssumption ==
  /\ {COMMAND_QUEUE_CAPACITY, MAX_COMMANDS, Timeout, JOIN_BUDGET} \subseteq Nat \ {0}
  /\ SHELL_SHUTDOWN_BUDGET \in Nat /\ SHELL_SHUTDOWN_BUDGET >= JOIN_BUDGET

VARIABLES
  call,       \* how far each caller is
  requests,   \* the channel to the service
  command,    \* the task of each caller's command, and its live processes
  serving,    \* the service loop
  shell       \* shutdown flags and phase of the shell thread

commandVars == <<call, requests, command, serving, shell>>

Process == {"child", "helper", "escapee"}

Idle == [phase |-> "none", age |-> 0, alive |-> {}]

Active == {c \in Caller : command[c].phase # "none"}

Stuck(c) == command[c].phase = "killed" /\ "escapee" \in command[c].alive

-----------------------------------------------------------------------------
(* run: the caller's side.                                                    *)

StartCall(c) ==
  /\ call[c] = "idle"
  /\ call' = [call EXCEPT ![c] = IF shell.stopped THEN "answered" ELSE "sending"]
  /\ UNCHANGED <<requests, command, serving, shell>>

SendRequest(c) ==
  /\ call[c] = "sending" /\ serving = "serving"
  /\ Len(requests) < COMMAND_QUEUE_CAPACITY
  /\ requests' = Append(requests, c)
  /\ call' = [call EXCEPT ![c] = "waiting"]
  /\ UNCHANGED <<command, serving, shell>>

SendFails(c) ==
  /\ call[c] = "sending" /\ serving # "serving"
  /\ call' = [call EXCEPT ![c] = "answered"]
  /\ UNCHANGED <<requests, command, serving, shell>>

-----------------------------------------------------------------------------
(* execute                                                                    *)

Answer(c) == call' = [call EXCEPT ![c] = "answered"]

KillGroup(alive) == alive \ {"child", "helper"}

(* The task ends: its group is forgotten, what still lives lives on.          *)
EndTask(c) ==
  /\ Answer(c)
  /\ command' = [command EXCEPT ![c] = [Idle EXCEPT !.alive = command[c].alive]]

(* Out of time or shut down: the group is killed, the drains are awaited.     *)
Kill(c) ==
  /\ command' = [command EXCEPT ![c] =
       [@ EXCEPT !.phase = "killed", !.alive = KillGroup(command[c].alive)]]
  /\ UNCHANGED call

(* Fault: a shutdown does not cut a command short.                            *)
OutOfTimeOnly(c) == command[c].age >= Timeout

OutOfTime(c) == command[c].age >= Timeout \/ shell.service

Spawn(c) ==
  /\ command[c].phase = "starting"
  /\ \/ command' = [command EXCEPT ![c] = [phase |-> "running", age |-> 0, alive |-> {"child"}]]
        /\ UNCHANGED call
     \/ EndTask(c)
  /\ UNCHANGED <<requests, serving, shell>>

WaitForChild(c) ==
  /\ command[c].phase = "running"
  /\ IF "child" \notin command[c].alive
     THEN command' = [command EXCEPT ![c].phase = "draining"] /\ UNCHANGED call
     ELSE OutOfTime(c) /\ Kill(c)
  /\ UNCHANGED <<requests, serving, shell>>

(* Fault: the deadline covers the child, not the pipes its helpers hold.      *)
AwaitDrains(c) ==
  /\ command[c].phase = "draining"
  /\ IF command[c].alive = {} THEN EndTask(c) ELSE shell.service /\ Kill(c)
  /\ UNCHANGED <<requests, serving, shell>>

(* The pipes close with the last process that holds them.                     *)
WaitForDrains(c) ==
  /\ command[c].phase = "draining"
  /\ IF command[c].alive = {} THEN EndTask(c) ELSE OutOfTime(c) /\ Kill(c)
  /\ UNCHANGED <<requests, serving, shell>>

Drained(c) ==
  /\ command[c].phase = "killed" /\ command[c].alive = {}
  /\ EndTask(c)
  /\ UNCHANGED <<requests, serving, shell>>

(* The processes: the child forks, and any of them exits.                     *)
Fork(c, p) ==
  /\ command[c].phase = "running" /\ "child" \in command[c].alive
  /\ p \in {"helper", "escapee"} \ command[c].alive
  /\ command' = [command EXCEPT ![c].alive = @ \cup {p}]
  /\ UNCHANGED <<call, requests, serving, shell>>

Exit(c, p) ==
  /\ p \in command[c].alive
  /\ command' = [command EXCEPT ![c].alive = @ \ {p}]
  /\ UNCHANGED <<call, requests, serving, shell>>

-----------------------------------------------------------------------------
(* serve                                                                      *)

AcceptRequest ==
  /\ serving = "serving" /\ ~shell.service
  /\ requests # <<>> /\ Cardinality(Active) < MAX_COMMANDS
  /\ requests' = Tail(requests)
  /\ command' = [command EXCEPT ![Head(requests)].phase = "starting"]
  /\ UNCHANGED <<call, serving, shell>>

Queued(c) == \E i \in DOMAIN requests : requests[i] = c

(* The queue is answered, registered groups are killed, the tasks are joined. *)
StopServing ==
  /\ serving = "serving" /\ shell.service
  /\ serving' = "joining"
  /\ requests' = <<>>
  /\ call' = [c \in Caller |-> IF Queued(c) THEN "answered" ELSE call[c]]
  /\ command' = [c \in Caller |->
                   IF c \in Active THEN [command[c] EXCEPT !.alive = KillGroup(@)] ELSE command[c]]
  /\ UNCHANGED shell

ServeEnds ==
  /\ serving = "joining" /\ Active = {}
  /\ serving' = "ended"
  /\ UNCHANGED <<call, requests, command, shell>>

-----------------------------------------------------------------------------
(* The shell thread.                                                          *)

(* SIGTERM, SIGINT or ProductionIo::shutdown.                                 *)
RequestStop ==
  /\ ~shell.stopped
  /\ shell' = [shell EXCEPT !.stopped = TRUE, !.external = TRUE]
  /\ UNCHANGED <<call, requests, command, serving>>

ShellStops ==
  /\ shell.phase = "serving" /\ shell.external
  /\ shell' = [shell EXCEPT !.phase = "joining", !.service = TRUE]
  /\ UNCHANGED <<call, requests, command, serving>>

(* A bus service ended unexpectedly: everything is told to stop.              *)
ServiceFails ==
  /\ shell.phase = "serving"
  /\ shell' = [shell EXCEPT !.phase = "failing", !.stopped = TRUE, !.external = TRUE, !.service = TRUE]
  /\ UNCHANGED <<call, requests, command, serving>>

(* All tasks and channels of the services are dropped, and with them the      *)
(* replies; a dropped child is not killed.                                    *)
DropServices ==
  /\ call' = [c \in Caller |-> IF call[c] = "waiting" THEN "answered" ELSE call[c]]
  /\ command' = [c \in Caller |-> [Idle EXCEPT !.alive = command[c].alive]]
  /\ requests' = <<>>
  /\ serving' = "ended"

AbortServices ==
  /\ shell.phase = "failing" /\ shell.elapsed >= JOIN_BUDGET
  /\ DropServices
  /\ shell' = [shell EXCEPT !.phase = "finishing"]

ServicesJoined ==
  /\ shell.phase = "joining"
  /\ serving = "ended" \/ shell.elapsed >= JOIN_BUDGET
  /\ shell' = [shell EXCEPT !.phase = "finishing", !.timedOut = serving # "ended"]
  /\ UNCHANGED <<call, requests, command, serving>>

OrchestrationEnds ==
  /\ shell.stopped /\ ~shell.orchestrated
  /\ shell' = [shell EXCEPT !.orchestrated = TRUE]
  /\ UNCHANGED <<call, requests, command, serving>>

ShellEnds ==
  /\ shell.phase = "finishing"
  /\ shell.orchestrated \/ shell.elapsed >= SHELL_SHUTDOWN_BUDGET
  /\ DropServices
  /\ shell' = [shell EXCEPT !.phase = "ended", !.timedOut = @ \/ ~shell.orchestrated]

-----------------------------------------------------------------------------
(* Time passes when no task is runnable: what the tasks do takes no time      *)
(* compared with the timeouts.                                                *)

Runtime ==
  \/ \E c \in Caller : \/ SendRequest(c) \/ SendFails(c) \/ Spawn(c)
                       \/ WaitForChild(c) \/ WaitForDrains(c) \/ Drained(c)
  \/ AcceptRequest \/ StopServing \/ ServeEnds
  \/ ShellStops \/ AbortServices \/ ServicesJoined \/ ShellEnds

(* A command moves on when its child or its pipes are done, or it must die.   *)
Ready(c) ==
  CASE command[c].phase = "starting" -> TRUE
    [] command[c].phase = "running" -> "child" \notin command[c].alive \/ OutOfTime(c)
    [] command[c].phase = "draining" -> command[c].alive = {} \/ OutOfTime(c)
    [] command[c].phase = "killed" -> command[c].alive = {}
    [] OTHER -> FALSE

(* Whether a step of Runtime is possible.                                     *)
Runnable ==
  \/ \E c \in Caller : Ready(c)
  \/ \E c \in Caller : /\ call[c] = "sending"
                       /\ serving = "serving" => Len(requests) < COMMAND_QUEUE_CAPACITY
  \/ serving = "serving" /\ (shell.service \/ (requests # <<>> /\ Cardinality(Active) < MAX_COMMANDS))
  \/ serving = "joining" /\ Active = {}
  \/ shell.phase = "serving" /\ shell.external
  \/ shell.phase = "failing" /\ shell.elapsed >= JOIN_BUDGET
  \/ shell.phase = "joining" /\ (serving = "ended" \/ shell.elapsed >= JOIN_BUDGET)
  \/ shell.phase = "finishing" /\ (shell.orchestrated \/ shell.elapsed >= SHELL_SHUTDOWN_BUDGET)

Older(c) == IF command[c].phase = "none" \/ command[c].age = Timeout THEN command[c]
            ELSE [command[c] EXCEPT !.age = @ + 1]

Ending == shell.phase \in {"joining", "failing", "finishing"}

Tick ==
  /\ ~Runnable
  /\ command' = [c \in Caller |-> Older(c)]
  /\ shell' = IF Ending /\ shell.elapsed < SHELL_SHUTDOWN_BUDGET
              THEN [shell EXCEPT !.elapsed = @ + 1] ELSE shell
  /\ UNCHANGED <<call, requests, serving>>

CommandInit ==
  /\ call = [c \in Caller |-> "idle"]
  /\ requests = <<>>
  /\ command = [c \in Caller |-> Idle]
  /\ serving = "serving"
  /\ \E registered \in BOOLEAN :   \* a daemon loop is awaited
       shell = [stopped |-> FALSE, external |-> FALSE, service |-> FALSE, phase |-> "serving",
                elapsed |-> 0, timedOut |-> FALSE, orchestrated |-> ~registered]

(* What the processes, the callers and the outside do, and what is not        *)
(* promised to happen.                                                        *)
Outside ==
  \/ \E c \in Caller : \/ StartCall(c)
                       \/ \E p \in Process : Fork(c, p) \/ Exit(c, p)
  \/ RequestStop \/ ServiceFails \/ OrchestrationEnds

CommandNext == Runtime \/ Tick \/ Outside

(* The runtime polls what is ready, and clocks advance.  Nothing is assumed   *)
(* of the processes, nor of the daemon loop.                                  *)
CommandFairness == WF_commandVars(Runtime) /\ WF_commandVars(Tick)

CommandSpec == CommandInit /\ [][CommandNext]_commandVars /\ CommandFairness

-----------------------------------------------------------------------------
(* A caller is answered, whatever its processes do, unless a process that     *)
(* left its group keeps the pipes of a killed command open for ever; once the *)
(* shell is stopped it is answered in any case.                               *)
EveryCallReturns ==
  /\ \/ \E d \in Caller : <>[]Stuck(d)
     \/ \A c \in Caller : call[c] \in {"sending", "waiting"} ~> call[c] = "answered"
  /\ \A c \in Caller : shell.stopped ~> call[c] \in {"idle", "answered"}

(* The daemon leaves no process of a command's group behind, in whichever     *)
(* state the shutdown found the command.                                      *)
NoOrphans ==
  shell.phase = "ended" => \A c \in Caller : command[c].alive \subseteq {"escapee"}
=============================================================================
