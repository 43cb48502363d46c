-------------------------------- MODULE Applet --------------------------------
(* The applet protocol, from the widgets of a shell over the session bus to   *)
(* the leases of the daemon and back: PresentationLease.qml and main.qml, the *)
(* bus service (adapters/applet.rs) with its bounded event queue, the lease   *)
(* table and the selected page (daemon/async_loop/applet.rs).                 *)
(*                                                                            *)
(* The bus hands each connection its messages in the order it took them.  In  *)
(* the daemon the calls and the departures of clients are taken by different  *)
(* tasks, and a connection that was lost may still have calls buffered.       *)
EXTENDS Integers, FiniteSets, Sequences, SequencesExt

CONSTANTS
  Widget,             \* the applet instances of the shell
  EVENT_CAPACITY,
  PageCount,
  MaxEpoch,           \* bound: connections of the daemon
  Scenarios           \* bounds: what may happen to them from outside

ASSUME AppletAssumption ==
  /\ IsFiniteSet(Widget)
  /\ {EVENT_CAPACITY, PageCount, MaxEpoch} \subseteq Nat \ {0}
  /\ Scenarios \subseteq [widgets : SUBSET Widget, intents : Nat, steps : Nat, crashes : Nat, panels : Nat]

VARIABLES
  bus,        \* who owns the daemon's name; the last unique name given
  shell,      \* the shell's connection, what it knows of the daemon, and the
              \* history of the uses that overtook its news
  widgets,
  service,    \* the connections of the daemon, their calls and departures
  events,     \* AppletEvent queue
  daemon,     \* leases and selected page
  published,  \* exported properties and their emitter
  left        \* what is left of the scenario

vars == <<bus, shell, widgets, service, events, daemon, published, left>>

Epoch == 1..MaxEpoch

InOrder == SetToSeq(Widget)

AnyWidget == InOrder[1]

-----------------------------------------------------------------------------
(* The bounds.                                                                *)

Spend(kind) == left' = [left EXCEPT ![kind] = @ - 1]

(* The bus.                                                                   *)

Tell(sh, m) == IF sh.name = 0 THEN sh ELSE [sh EXCEPT !.inbox = Append(@, m)]

Calls(e) == service.connections[e].calls

(* A call reaches whoever owns the name, or fails.                            *)
Routed(conns, c) ==
  IF bus.owner = 0 THEN conns ELSE [conns EXCEPT ![bus.owner].calls = Append(@, c)]

ErrorReply(c) == [kind |-> "Reply", call |-> c, ok |-> FALSE]

Tracked(c) == c.kind \in {"Present", "Dismiss"} /\ c.lifetime # 0

-----------------------------------------------------------------------------
(* The widgets.  A reaction works on the shell, its widgets and the           *)
(* connections the calls go to, one after the other.                          *)

World == [shell |-> shell, widgets |-> widgets, connections |-> service.connections]

Send(x, c) ==
  IF bus.owner # 0 THEN [x EXCEPT !.connections = Routed(@, c)]
  ELSE IF Tracked(c) THEN [x EXCEPT !.shell = Tell(@, ErrorReply(c))] ELSE x

Call(x, kind, w) ==
  [kind |-> kind, name |-> x.shell.name, widget |-> w, lifetime |-> x.shell.lifetime, step |-> 0]

(* drain: at most one call, and none that would repeat what the daemon holds. *)
(* Without a daemon it fails at once.                                         *)
DrainLease(x, w) ==
  LET v == x.widgets[w]
      c == Call(x, IF v.presented THEN "Present" ELSE "Dismiss", w)
  IN  IF ~v.alive \/ v.running \/ (v.known /\ v.active = v.presented) THEN x
      ELSE IF ~x.shell.registered THEN [x EXCEPT !.widgets[w].known = FALSE]
      ELSE Send([x EXCEPT !.widgets[w].running = TRUE], c)

(* Fault: a reply confirms what is presented by then, not what was sent.      *)
SettledAsPresented(x, m) ==
  LET w       == m.call.widget
      v       == x.widgets[w]
      settled == [x EXCEPT !.widgets[w] =
                    [@ EXCEPT !.running = FALSE, !.known = m.ok,
                              !.active = IF m.ok THEN v.presented ELSE v.active]]
  IN  IF m.call.lifetime # x.shell.lifetime THEN x ELSE IF m.ok THEN DrainLease(settled, w) ELSE settled

(* A reply of an earlier registration is ignored; after a failure only a new  *)
(* intent is sent.                                                            *)
Settled(x, m) ==
  LET w       == m.call.widget
      intent  == m.call.kind = "Present"
      settled == [x EXCEPT !.widgets[w] =
                    [@ EXCEPT !.running = FALSE, !.known = m.ok,
                              !.active = IF m.ok THEN intent ELSE x.widgets[w].active]]
  IN  IF m.call.lifetime # x.shell.lifetime THEN x
      ELSE IF m.ok \/ x.widgets[w].presented # intent THEN DrainLease(settled, w)
      ELSE settled

(* Fault: a call of before the registration is waited for.                    *)
AwaitReply(x, w) ==
  DrainLease([x EXCEPT !.widgets[w] = [@ EXCEPT !.known = TRUE, !.active = FALSE]], w)

(* restart: the daemon holds no lease, present again if presented.            *)
RestartLease(x, w) ==
  DrainLease([x EXCEPT !.widgets[w] = [@ EXCEPT !.running = FALSE, !.known = TRUE, !.active = FALSE]], w)

(* daemonRegistered: fetch everything, present again.                         *)
DaemonRegistered(x) ==
  LET counted == [x EXCEPT !.shell.registered = TRUE, !.shell.lifetime = @ + 1]
      fetched == Send(counted, Call(counted, "GetAll", AnyWidget))
      restarted[n \in 0..Len(InOrder)] ==
        IF n = 0 THEN fetched ELSE RestartLease(restarted[n - 1], InOrder[n])
  IN  restarted[Len(InOrder)]

Happens(x) ==
  /\ shell' = x.shell /\ widgets' = x.widgets
  /\ service' = [service EXCEPT !.connections = x.connections]

(* The shell has not read of the daemon's registration yet.                   *)
Noticed(q) == \E i \in DOMAIN q : q[i].kind = "Registered"

(* The widgets last used while the news of the registration was unread.       *)
Overtaken(w) == IF Noticed(shell.inbox) THEN shell.overtaken \cup {w} ELSE shell.overtaken \ {w}

(* Hover, pin, expand.                                                        *)
Toggle(w) ==
  /\ shell.name # 0 /\ widgets[w].alive /\ left.intents > 0
  /\ Happens(DrainLease([World EXCEPT !.shell.overtaken = Overtaken(w), !.widgets[w].presented = ~@], w))
  /\ Spend("intents")
  /\ UNCHANGED <<bus, events, daemon, published>>

(* A removed widget dismisses its lease, whatever is under way.               *)
Destroy(w) ==
  /\ shell.name # 0 /\ widgets[w].alive /\ left.intents > 0
  /\ Happens(Send([World EXCEPT !.shell.overtaken = @ \ {w},
                                !.widgets[w] = [@ EXCEPT !.alive = FALSE, !.presented = FALSE]],
                  [Call(World, "Dismiss", w) EXCEPT !.lifetime = 0]))
  /\ Spend("intents")
  /\ UNCHANGED <<bus, events, daemon, published>>

(* One wheel gesture, one step.                                               *)
Wheel ==
  /\ shell.name # 0 /\ shell.registered /\ left.steps > 0
  /\ \E delta \in {1, -1} :
       Happens(Send(World, [Call(World, "StepPage", AnyWidget) EXCEPT !.step = delta]))
  /\ Spend("steps")
  /\ UNCHANGED <<bus, events, daemon, published>>

(* The shell reads the next message of its connection.                        *)
Read(x, m) ==
  CASE m.kind = "Lost" -> [x EXCEPT !.shell.registered = FALSE]
    [] m.kind = "Registered" -> DaemonRegistered(x)
    [] m.kind = "Reply" -> Settled(x, m)
    [] m.kind = "Changed" -> [x EXCEPT !.shell.view = [p \in DOMAIN @ |-> IF p \in DOMAIN m.values
                                                                         THEN m.values[p] ELSE @[p]]]

ShellReads ==
  /\ shell.inbox # <<>>
  /\ Happens(Read([World EXCEPT !.shell.inbox = Tail(@)], Head(shell.inbox)))
  /\ UNCHANGED <<bus, events, daemon, published, left>>

-----------------------------------------------------------------------------
(* The connections of the daemon (serve).                                     *)

NewConnection ==
  [calls |-> <<>>, begun |-> FALSE, first |-> FALSE, known |-> {}, departures |-> <<>>,
   forwarding |-> {}, confirming |-> {}, reporting |-> {}]

Open(e) == bus.owner = e

(* acquire: the name is taken when the service can answer.  No use of a       *)
(* widget has reached the new connection yet.                                 *)
Acquire ==
  /\ service.phase = "Acquiring" /\ service.epoch < MaxEpoch
  /\ service' = [service EXCEPT !.phase = "Serving", !.epoch = @ + 1,
                                !.connections[service.epoch + 1] = NewConnection]
  /\ bus' = [bus EXCEPT !.owner = service.epoch + 1]
  /\ shell' = [Tell(shell, [kind |-> "Registered"]) EXCEPT !.overtaken = {}]
  /\ UNCHANGED <<widgets, events, daemon, published, left>>

(* What the callers of a connection that is lost are told: the name is gone,  *)
(* and no reply will come.                                                    *)
Bereaved(sh, e) ==
  LET told[n \in 0..Len(Calls(e))] ==
        IF n = 0 THEN Tell(sh, [kind |-> "Lost"])
        ELSE LET c == Calls(e)[n]
             IN  IF Tracked(c) /\ c.name = sh.name THEN Tell(told[n - 1], ErrorReply(c)) ELSE told[n - 1]
  IN  told[Len(Calls(e))]

(* The emitter and the forwarder are aborted, the dispatcher of the buffered  *)
(* calls is not.                                                              *)
Abandoned(e) ==
  [service EXCEPT !.phase = "Retiring",
                  !.connections[e] = [@ EXCEPT !.departures = <<>>, !.forwarding = {}]]

LoseConnection ==
  /\ service.phase = "Serving" /\ service.epoch < MaxEpoch
  /\ bus' = [bus EXCEPT !.owner = 0]
  /\ service' = Abandoned(service.epoch)
  /\ shell' = Bereaved(shell, service.epoch)
  /\ published' = [published EXCEPT !.batch = <<>>]
  /\ UNCHANGED <<widgets, events, daemon, left>>

NoWidgets ==
  [w \in Widget |-> [alive |-> w \in left.widgets, presented |-> FALSE, running |-> FALSE,
                     known |-> TRUE, active |-> FALSE]]

NoShell ==
  [name |-> 0, inbox |-> <<>>, registered |-> FALSE, lifetime |-> 1,
   view |-> [p \in {"Panel", "Page"} |-> 0], overtaken |-> {}]

(* The shell starts, on a fresh connection.                                   *)
StartShell ==
  /\ shell.name = 0
  /\ bus' = [bus EXCEPT !.names = @ + 1]
  /\ shell' = [NoShell EXCEPT !.name = bus.names + 1,
                              !.inbox = IF bus.owner = 0 THEN <<>> ELSE <<[kind |-> "Registered"]>>]
  /\ UNCHANGED <<widgets, service, events, daemon, published, left>>

(* It crashes; the bus tells the daemon.                                      *)
CrashShell ==
  /\ shell.name # 0 /\ left.crashes > 0
  /\ service' = IF bus.owner = 0 THEN service
                ELSE [service EXCEPT !.connections[bus.owner].departures = Append(@, shell.name)]
  /\ shell' = NoShell /\ widgets' = NoWidgets
  /\ Spend("crashes")
  /\ UNCHANGED <<bus, events, daemon, published>>

(* The bus restarts: all connections are lost, and names are used again.      *)
RestartBus ==
  /\ service.phase = "Serving" /\ service.epoch < MaxEpoch /\ left.crashes > 0
  /\ bus' = [owner |-> 0, names |-> 0]
  /\ service' = Abandoned(service.epoch)
  /\ shell' = NoShell /\ widgets' = NoWidgets
  /\ published' = [published EXCEPT !.batch = <<>>]
  /\ Spend("crashes")
  /\ UNCHANGED <<events, daemon>>

Room == Len(events) < EVENT_CAPACITY

Event(e, kind, c) == [epoch |-> e, kind |-> kind, name |-> c.name, widget |-> c.widget, step |-> c.step]

Gone(e, n) == Event(e, "ClientGone", [name |-> n, widget |-> AnyWidget, step |-> 0])

Lost(e) == [Gone(e, 0) EXCEPT !.kind = "ConnectionLost"]

(* Fault: calls buffered behind the loss of their connection are delivered.   *)
PutLate(e, event) == events' = Append(events, event)

(* Outbox::send: the events of a retired connection are dropped.              *)
Put(e, event) ==
  events' = IF e \in service.retired THEN events ELSE Append(events, event)

(* retire: the loss is the last event of its connection.                      *)
Retire ==
  LET e == service.epoch
  IN  /\ service.phase = "Retiring" /\ Room
      /\ events' = Append(events, Lost(e))
      /\ service' = [service EXCEPT !.phase = "Acquiring", !.retired = @ \cup {e}]
      /\ UNCHANGED <<bus, shell, widgets, daemon, published, left>>

(* The dispatcher takes one call after the other.  present makes its caller   *)
(* known before it waits for room.                                            *)
Begin(e) ==
  LET c     == Head(Calls(e))
      known == service.connections[e].known
  IN  /\ Calls(e) # <<>> /\ c.kind = "Present" /\ ~service.connections[e].begun
      /\ service' = [service EXCEPT !.connections[e] =
                       [@ EXCEPT !.begun = TRUE, !.first = c.name \notin known, !.known = known \cup {c.name}]]
      /\ UNCHANGED <<bus, shell, widgets, events, daemon, published, left>>

(* What a caller is told, if both ends are still connected.                   *)
Answered(e, c, m) == IF Open(e) /\ c.name = shell.name THEN Tell(shell, m) ELSE shell

(* deliver.  A caller not known before is looked up afterwards.               *)
Deliver(e) ==
  LET c     == Head(Calls(e))
      ok    == e \notin service.retired
      asked == service.connections[e].confirming
  IN  /\ Calls(e) # <<>> /\ c.kind # "GetAll" /\ Room
      /\ c.kind = "Present" => service.connections[e].begun
      /\ Put(e, Event(e, c.kind, c))
      /\ service' = [service EXCEPT !.connections[e] =
                       [@ EXCEPT !.calls = Tail(Calls(e)), !.begun = FALSE, !.first = FALSE,
                                 !.confirming = IF service.connections[e].first /\ ok
                                                THEN asked \cup {c.name} ELSE asked]]
      /\ shell' = IF Tracked(c) THEN Answered(e, c, [kind |-> "Reply", call |-> c, ok |-> ok]) ELSE shell
      /\ UNCHANGED <<bus, widgets, daemon, published, left>>

(* The exported properties, as they are when they are asked for.              *)
AnswerProperties(e) ==
  LET c == Head(Calls(e))
  IN  /\ Calls(e) # <<>> /\ c.kind = "GetAll"
      /\ service' = [service EXCEPT !.connections[e].calls = Tail(@)]
      /\ shell' = Answered(e, c, [kind |-> "Changed", values |-> published.values])
      /\ UNCHANGED <<bus, widgets, events, daemon, published, left>>

(* forward_disconnects: a client that is known is forgotten, then reported.   *)
Depart(e) ==
  LET k == service.connections[e]
      n == Head(k.departures)
  IN  /\ k.departures # <<>> /\ k.forwarding = {}
      /\ service' = [service EXCEPT !.connections[e] =
                       [k EXCEPT !.departures = Tail(k.departures), !.known = k.known \ {n},
                                 !.forwarding = k.known \cap {n}]]
      /\ UNCHANGED <<bus, shell, widgets, events, daemon, published, left>>

Forward(e, n) ==
  /\ Room
  /\ Put(e, Gone(e, n))
  /\ service' = [service EXCEPT !.connections[e].forwarding = {}]
  /\ UNCHANGED <<bus, shell, widgets, daemon, published, left>>

(* confirm_connected: the bus is asked; without an answer the caller stays.   *)
Confirm(e, n) ==
  LET k      == service.connections[e]
      isGone == Open(e) /\ shell.name # n /\ n \in k.known
      gone   == IF isGone THEN {n} ELSE {}
  IN  /\ service' = [service EXCEPT !.connections[e] =
                       [k EXCEPT !.confirming = k.confirming \ {n}, !.known = k.known \ gone,
                                 !.reporting = k.reporting \cup gone]]
      /\ UNCHANGED <<bus, shell, widgets, events, daemon, published, left>>

Report(e, n) ==
  /\ Room
  /\ Put(e, Gone(e, n))
  /\ service' = [service EXCEPT !.connections[e].reporting = @ \ {n}]
  /\ UNCHANGED <<bus, shell, widgets, daemon, published, left>>

-----------------------------------------------------------------------------
(* The daemon's loop: leases and pages (handle_event).                        *)

Present(leases, n, w) ==
  IF n \in leases.gone THEN leases ELSE [leases EXCEPT !.live = @ \cup {<<n, w>>}]

Dismiss(leases, n, w) == [leases EXCEPT !.live = @ \ {<<n, w>>}]

ClientGone(leases, n) ==
  [leases EXCEPT !.live = {l \in @ : l[1] # n}, !.gone = @ \cup {n}]

ConnectionLost(leases) == [leases EXCEPT !.live = {}, !.gone = {}]

(* PageStep::apply                                                            *)
StepPage(page, step) ==
  CASE PageCount <= 1 -> 0
    [] PageCount > 1 /\ step = 1 -> (page + 1) % PageCount
    [] PageCount > 1 /\ step # 1 -> (page + PageCount - 1) % PageCount

(* Fault: only an emitter that waits is woken.                                *)
AnnounceToWaiter(p, value) ==
  published' = [published EXCEPT !.values[p] = value, !.dirty = @ \cup {p}, !.permit = published.batch = <<>>]

(* The sink: a value, what is to be announced, and a permit for the emitter.  *)
Announce(p, value) ==
  published' = [published EXCEPT !.values[p] = value, !.dirty = @ \cup {p}, !.permit = TRUE]

HandleEvent ==
  LET m == Head(events)
      page == IF m.kind = "StepPage" THEN StepPage(daemon.page, m.step) ELSE daemon.page
  IN  /\ events # <<>>
      /\ events' = Tail(events)
      /\ daemon' = [daemon EXCEPT
           !.leases = CASE m.kind = "Present" -> Present(@, m.name, m.widget)
                        [] m.kind = "Dismiss" -> Dismiss(@, m.name, m.widget)
                        [] m.kind = "ClientGone" -> ClientGone(@, m.name)
                        [] m.kind = "ConnectionLost" -> ConnectionLost(@)
                        [] m.kind = "StepPage" -> @,
           !.page = page]
      /\ IF page # daemon.page THEN Announce("Page", page) ELSE UNCHANGED published
      /\ UNCHANGED <<bus, shell, widgets, service, left>>

PublishPanel ==
  /\ left.panels > 0
  /\ Announce("Panel", published.values.Panel + 1)
  /\ Spend("panels")
  /\ UNCHANGED <<bus, shell, widgets, service, events, daemon>>

(* emit_changes: what changed is taken at once, and sent in one signal.       *)
EmitterTakes ==
  /\ service.phase = "Serving" /\ published.permit /\ published.batch = <<>>
  /\ published' = [published EXCEPT
       !.permit = FALSE, !.dirty = {},
       !.batch = IF published.dirty = {} THEN <<>> ELSE <<[p \in published.dirty |-> published.values[p]]>>]
  /\ UNCHANGED <<bus, shell, widgets, service, events, daemon, left>>

EmitterSends ==
  /\ published.batch # <<>>
  /\ shell' = Tell(shell, [kind |-> "Changed", values |-> Head(published.batch)])
  /\ published' = [published EXCEPT !.batch = <<>>]
  /\ UNCHANGED <<bus, widgets, service, events, daemon, left>>

-----------------------------------------------------------------------------
Init ==
  /\ left \in Scenarios
  /\ bus = [owner |-> 0, names |-> 0]
  /\ shell = NoShell /\ widgets = NoWidgets
  /\ service = [phase |-> "Acquiring", epoch |-> 0, retired |-> {},
                connections |-> [e \in Epoch |-> NewConnection]]
  /\ events = <<>>
  /\ daemon = [leases |-> [live |-> {}, gone |-> {}], page |-> 0]
  /\ published = [values |-> [p \in {"Panel", "Page"} |-> 0], dirty |-> {}, permit |-> FALSE, batch |-> <<>>]

User == Wheel \/ \E w \in Widget : Toggle(w) \/ Destroy(w)

Disturbance == LoseConnection \/ CrashShell \/ RestartBus

Connection(e) ==
  \/ Begin(e) \/ Deliver(e) \/ AnswerProperties(e) \/ Depart(e)
  \/ \E n \in service.connections[e].forwarding : Forward(e, n)
  \/ \E n \in service.connections[e].confirming : Confirm(e, n)
  \/ \E n \in service.connections[e].reporting : Report(e, n)

System ==
  \/ StartShell \/ ShellReads
  \/ Acquire \/ Retire \/ \E e \in Epoch : Connection(e)
  \/ HandleEvent \/ EmitterTakes \/ EmitterSends

Next == User \/ Disturbance \/ PublishPanel \/ System

(* Every task of the runtime, the shell and the bus get on.                   *)
Spec == Init /\ [][Next]_vars /\ WF_vars(System)
-----------------------------------------------------------------------------
(* Properties.                                                                *)

(* No message is under way, no task of the service has work left.             *)
Idle ==
  /\ service.phase = "Serving" /\ events = <<>> /\ shell.inbox = <<>>
  /\ ~published.permit /\ published.batch = <<>>
  /\ \A e \in Epoch :
       LET c == service.connections[e]
       IN  c.calls = <<>> /\ c.departures = <<>> /\ c.forwarding \cup c.confirming \cup c.reporting = {}

(* What the user of the shell has presented, by the name it calls with.       *)
Intended == {<<shell.name, w>> : w \in {v \in Widget : widgets[v].presented}}

(* The service has no connection but those it opened, each is retired at most *)
(* once and none before it is lost, and the event queue keeps its capacity    *)
(* (serve, EVENT_CAPACITY of adapters/applet.rs).                             *)
TypeOK ==
  /\ service.phase \in {"Acquiring", "Serving", "Retiring"}
  /\ service.epoch \in (IF service.phase = "Acquiring" THEN 0 ELSE 1)..MaxEpoch
  /\ bus.owner = IF service.phase = "Serving" THEN service.epoch ELSE 0
  /\ service.retired = 1..(IF service.phase = "Acquiring" THEN service.epoch ELSE service.epoch - 1)
  /\ Len(events) <= EVENT_CAPACITY
  /\ daemon.page \in 0..(PageCount - 1)

(* Once everything is delivered, the daemon holds the lease of every widget   *)
(* that presents, and no other: none of a shell that crashed, none of a       *)
(* widget that is gone, none of before the bus was lost.  But a widget that   *)
(* was last used while the shell had not read of the daemon's registration    *)
(* may leave a lease (Leases and PresentationLease.qml together).             *)
LeasesFollowIntent ==
  Idle => /\ Intended \subseteq daemon.leases.live
          /\ daemon.leases.live \subseteq Intended \cup {<<shell.name, w>> : w \in shell.overtaken}

(* No lease is left of a widget that was used too early either, as the        *)
(* comment of PresentationLease.qml on restart has it.                        *)
LeasesAreExact == Idle => daemon.leases.live = Intended

(* ConnectionLost is the last event of its connection: nothing of a retired   *)
(* connection waits behind it (Outbox::send and retire).                      *)
LostIsLast ==
  \A i \in DOMAIN events :
    events[i].epoch \in service.retired
      => \E j \in i..Len(events) : events[j] = Lost(events[i].epoch)

(* Once everything is delivered, a connected shell shows what was published   *)
(* last: no change falls between the emitter, a lost connection and the       *)
(* answer to a new registration (Shared, emit_changes, daemonRegistered).     *)
ViewCatchesUp == Idle /\ shell.name # 0 => shell.view = published.values

(* Nobody waits for ever: calls, departures and the loss itself get through   *)
(* the bounded event queue, and no widget waits for a reply that it will      *)
(* ignore (Outbox, callDaemon and drain).                                     *)
SettlesDown == <>[](Idle /\ \A w \in Widget : widgets[w].alive => ~widgets[w].running)
=============================================================================
