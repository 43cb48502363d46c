------------------------------ MODULE BusService ------------------------------
(* The persistent bus services (adapters/dbus.rs): serve_bus for UPower and   *)
(* UDisks on the system bus with its signal streams, serve_session for the    *)
(* notifications.  Requests are queued, at most MAX_CALLS are in flight, and  *)
(* one connection attempt at a time is made with a bounded backoff.           *)
EXTENDS Integers, FiniteSets, Sequences

CONSTANTS
  Client,                 \* threads with a request
  DBUS_QUEUE_CAPACITY,
  MAX_CALLS,
  BACKOFF_MIN,            \* in ticks
  BACKOFF_MAX,
  MaxTrouble              \* bound: connections lost and monitors failed

ASSUME BusAssumption ==
  /\ {DBUS_QUEUE_CAPACITY, MAX_CALLS, BACKOFF_MIN, BACKOFF_MAX} \subseteq Nat \ {0}
  /\ BACKOFF_MIN <= BACKOFF_MAX
  /\ MaxTrouble \in Nat

VARIABLES
  peer,       \* the bus: whether it accepts connections, which one lives
  link,       \* the service's connection, its attempts and its signal task
  asked,      \* how far each client is
  backlog,    \* the channel to the service
  inflight,   \* the connection the call of a client is made on
  completed   \* calls that ended and are not joined: connection, disconnected

busVars == <<peer, link, asked, backlog, inflight, completed>>

NoConnection == 0

System == peer.kind = "System"

Lower(x, y) == IF x < y THEN x ELSE y

-----------------------------------------------------------------------------
(* The clients: call and send.                                                *)

Ask(c) ==
  /\ asked[c] = "idle"
  /\ asked' = [asked EXCEPT ![c] = IF link.phase = "ended" THEN "answered" ELSE "sending"]
  /\ UNCHANGED <<peer, link, backlog, inflight, completed>>

Submit(c) ==
  /\ asked[c] = "sending" /\ link.phase = "serving"
  /\ Len(backlog) < DBUS_QUEUE_CAPACITY
  /\ backlog' = Append(backlog, c)
  /\ asked' = [asked EXCEPT ![c] = "waiting"]
  /\ UNCHANGED <<peer, link, inflight, completed>>

SubmitFails(c) ==
  /\ asked[c] = "sending" /\ link.phase = "ended"
  /\ asked' = [asked EXCEPT ![c] = "answered"]
  /\ UNCHANGED <<peer, link, backlog, inflight, completed>>

-----------------------------------------------------------------------------
(* The service loop.                                                          *)

InFlight == {c \in Client : inflight[c] # NoConnection}

(* A request is polled for after the completions and the end of the signals.  *)
MayAccept ==
  /\ link.phase = "serving"
  /\ completed = {} /\ link.signals # "ended"
  /\ Cardinality(InFlight) < MAX_CALLS

(* Without a connection the request fails at once.                            *)
AcceptCall ==
  /\ MayAccept /\ backlog # <<>>
  /\ backlog' = Tail(backlog)
  /\ IF link.connection = NoConnection
     THEN asked' = [asked EXCEPT ![Head(backlog)] = "answered"] /\ UNCHANGED inflight
     ELSE inflight' = [inflight EXCEPT ![Head(backlog)] = link.connection] /\ UNCHANGED asked
  /\ UNCHANGED <<peer, link, completed>>

(* ReconnectBackoff                                                           *)
Failed(l) == [l EXCEPT !.wait = l.delay, !.delay = Lower(2 * l.delay, BACKOFF_MAX)]

Connected(l) == [l EXCEPT !.delay = BACKOFF_MIN, !.wait = 0]

Dropped(l) == Failed([l EXCEPT !.connection = NoConnection, !.signals = "none"])

(* A call ends: answered or refused by the peer, out of time, or failed with  *)
(* its connection.                                                            *)
CallEnds(c) ==
  /\ inflight[c] # NoConnection
  /\ \E disconnected \in BOOLEAN :
       /\ disconnected => inflight[c] # peer.live
       /\ completed' = completed \cup {[connection |-> inflight[c], disconnected |-> disconnected]}
  /\ asked' = [asked EXCEPT ![c] = "answered"]
  /\ inflight' = [inflight EXCEPT ![c] = NoConnection]
  /\ UNCHANGED <<peer, link, backlog>>

(* Fault: any call that reports a disconnect drops the connection.            *)
JoinAnyCall(e) ==
  /\ link.phase = "serving" /\ e \in completed
  /\ completed' = completed \ {e}
  /\ link' = IF e.disconnected /\ link.connection # NoConnection THEN Dropped(link) ELSE link
  /\ UNCHANGED <<peer, asked, backlog, inflight>>

(* Only a call on the current connection can report its loss.                 *)
JoinCall(e) ==
  /\ link.phase = "serving" /\ e \in completed
  /\ completed' = completed \ {e}
  /\ link' = IF e.disconnected /\ e.connection = link.connection THEN Dropped(link) ELSE link
  /\ UNCHANGED <<peer, asked, backlog, inflight>>

StartConnecting ==
  /\ link.phase = "serving"
  /\ link.connection = NoConnection /\ ~link.connecting /\ link.wait = 0
  /\ link' = [link EXCEPT !.connecting = TRUE]
  /\ UNCHANGED <<peer, asked, backlog, inflight, completed>>

ConnectFails ==
  /\ link.phase = "serving" /\ link.connecting /\ ~peer.up
  /\ link' = [Failed(link) EXCEPT !.connecting = FALSE,
                                  !.ready = IF @ = "pending" THEN "unavailable" ELSE @]
  /\ UNCHANGED <<peer, asked, backlog, inflight, completed>>

ConnectSucceeds ==
  /\ link.phase = "serving" /\ link.connecting /\ peer.up
  /\ link' = [Connected(link) EXCEPT
                !.connecting = FALSE,
                !.generation = @ + 1,
                !.connection = link.generation + 1,
                !.signals = IF System THEN "listening" ELSE @,
                !.ready = IF @ = "pending" THEN "connected" ELSE @]
  /\ peer' = [peer EXCEPT !.live = link.generation + 1]
  /\ UNCHANGED <<asked, backlog, inflight, completed>>

(* The signal task of the connection ends with it.                            *)
SignalsClose ==
  /\ link.signals = "listening" /\ link.connection # peer.live
  /\ link' = [link EXCEPT !.signals = "ended"]
  /\ UNCHANGED <<peer, asked, backlog, inflight, completed>>

(* Fault: the end of the signals does not count as the loss of the connection. *)
ForgetSignals ==
  /\ link.phase = "serving" /\ link.signals = "ended"
  /\ link' = [link EXCEPT !.signals = "none"]
  /\ UNCHANGED <<peer, asked, backlog, inflight, completed>>

SignalsEnded ==
  /\ link.phase = "serving" /\ link.signals = "ended"
  /\ link' = Dropped(link)
  /\ UNCHANGED <<peer, asked, backlog, inflight, completed>>

(* Shutdown: attempts, signals and calls are aborted, the queue is answered.  *)
StopBus ==
  /\ link.phase = "serving"
  /\ link' = [link EXCEPT !.phase = "ended", !.connecting = FALSE, !.signals = "none",
                          !.ready = IF @ = "pending" THEN "unavailable" ELSE @]
  /\ asked' = [c \in Client |-> IF asked[c] = "waiting" THEN "answered" ELSE asked[c]]
  /\ backlog' = <<>>
  /\ inflight' = [c \in Client |-> NoConnection]
  /\ completed' = {}
  /\ UNCHANGED peer

BusTick ==
  /\ link.phase = "serving" /\ link.wait > 0
  /\ link' = [link EXCEPT !.wait = @ - 1]
  /\ UNCHANGED <<peer, asked, backlog, inflight, completed>>

-----------------------------------------------------------------------------
(* The bus: it drops a connection, restarts, or refuses a match rule.         *)

Trouble == peer.left > 0 /\ peer' = [peer EXCEPT !.left = @ - 1]

LoseLink ==
  /\ peer.live # NoConnection /\ peer.left > 0
  /\ \E up \in BOOLEAN : peer' = [peer EXCEPT !.left = @ - 1, !.live = NoConnection, !.up = up]
  /\ UNCHANGED <<link, asked, backlog, inflight, completed>>

BusReturns ==
  /\ ~peer.up
  /\ peer' = [peer EXCEPT !.up = TRUE]
  /\ UNCHANGED <<link, asked, backlog, inflight, completed>>

MonitorFails ==
  /\ link.signals = "listening" /\ Trouble
  /\ link' = [link EXCEPT !.signals = "ended"]
  /\ UNCHANGED <<asked, backlog, inflight, completed>>

BusInit ==
  /\ \E kind \in {"System", "Session"}, up \in BOOLEAN :
       peer = [kind |-> kind, up |-> up, live |-> NoConnection, left |-> MaxTrouble]
  /\ link = [connection |-> NoConnection, generation |-> 0, connecting |-> FALSE, signals |-> "none",
             delay |-> BACKOFF_MIN, wait |-> 0, ready |-> "pending", phase |-> "serving"]
  /\ asked = [c \in Client |-> "idle"]
  /\ backlog = <<>>
  /\ inflight = [c \in Client |-> NoConnection]
  /\ completed = {}

(* The service's own steps; a call that is in flight ends within its timeout. *)
BusRuntime ==
  \/ \E c \in Client : Submit(c) \/ SubmitFails(c) \/ CallEnds(c)
  \/ AcceptCall
  \/ \E e \in completed : JoinCall(e)
  \/ SignalsClose \/ SignalsEnded

BusConnects == StartConnecting \/ ConnectFails \/ ConnectSucceeds \/ BusTick

BusOutside ==
  \/ \E c \in Client : Ask(c)
  \/ LoseLink \/ BusReturns \/ MonitorFails \/ StopBus

BusNext == BusRuntime \/ BusConnects \/ BusOutside

(* Calls and connection attempts are under a timeout of five seconds, and a   *)
(* lost connection closes its message streams.                                *)
BusFairness == WF_busVars(BusRuntime) /\ WF_busVars(BusConnects)

BusSpec == BusInit /\ [][BusNext]_busVars /\ BusFairness

-----------------------------------------------------------------------------
(* A connection the service gives up is one it lost, or one whose signal      *)
(* stream ended: the late failure of a call of an earlier connection does not *)
(* cost the current one.                                                      *)
LiveConnectionKept ==
  [][link.connection # NoConnection /\ link'.connection = NoConnection
       => link.connection # peer.live \/ link.signals = "ended"]_busVars

(* The system bus service is connected again and again while the bus accepts  *)
(* connections, and whoever waits for its first attempt is let go; every      *)
(* request is answered, also the ones a disconnect or the shutdown finds in   *)
(* the queue.                                                                 *)
BusComesBack ==
  /\ System => []<>( \/ link.phase = "ended" \/ ~peer.up
                     \/ link.connection # NoConnection /\ link.connection = peer.live)
  /\ link.connecting ~> link.ready # "pending"
  /\ \A c \in Client : asked[c] \in {"sending", "waiting"} ~> asked[c] = "answered"
=============================================================================
