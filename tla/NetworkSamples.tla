---------------------------- MODULE NetworkSamples ----------------------------
(* The network owner: the rate of one interface's byte counter, the route and *)
(* Wi-Fi identity, and the series of the graphs page.  A rate is the pair of  *)
(* its interface and the instant of the counter it was measured against; the  *)
(* two directions are read, and rejected, together.                           *)
EXTENDS RetainedSamples, FiniteSets

CONSTANTS
  Interface, Wireless,   \* the interfaces of the machine, those that are Wi-Fi
  NetGraphLength,        \* pages.graph_history_length
  MaxNetTime,            \* bound of the clock
  MaxBytes,              \* bound of a byte counter
  MaxRoutes              \* bound of the changes of route, counter and demand

ASSUME NetworkAssumption ==
  /\ Wireless \subseteq Interface
  /\ {NetGraphLength, MaxNetTime, MaxBytes, MaxRoutes} \subseteq Nat

VARIABLES
  net,        \* NetworkState of the worker
  netShown,   \* the owner's fields of the readings on display
  netDevice,  \* hw.net_device: None or the interface the jobs read
  netWanted,  \* what the surfaces demand: "rate", "info", "history"
  wire,       \* the machine: its route and the byte counters
  netNow,
  netGap      \* the last instant the counters were declared incomparable

networkVars == <<net, netShown, netDevice, netWanted, wire, netNow, netGap>>

Demands == {{}, {"rate"}, {"info"}, {"rate", "info"}, {"rate", "info", "history"}}

NewNetwork ==
  [rate |-> NotRetained, device |-> None, bytes |-> 0, counted |-> None,
   history |-> <<>>, info |-> NotRetained, wifi |-> NotRetained, source |-> None]

NothingShown == [rate |-> None, history |-> <<>>, device |-> None, wifi |-> None]

NetworkInit ==
  /\ net = NewNetwork
  /\ netShown = NothingShown
  /\ netWanted \in Demands
  /\ wire \in [route : {Some(i) : i \in Interface}, bytes : [Interface -> {0}], moves : {0}]
  /\ netDevice = wire.route
  /\ netNow = 0
  /\ netGap = 0

------------------------------------------------------------------------------
(* The owner's state.                                                         *)

InvalidateRateBaseline(n) == [n EXCEPT !.bytes = 0, !.counted = None]

ResetRate(n) ==
  [n EXCEPT !.rate = NotRetained, !.device = None, !.bytes = 0, !.counted = None]

ResetInfo(n) == [n EXCEPT !.info = NotRetained, !.wifi = NotRetained]

ResetNetHistory(n) == [n EXCEPT !.history = <<>>]

(* NetworkState::reconcile_sources, before every run.                         *)
ReconcileRate(n) ==
  LET changed == n.device # None /\ n.device # netDevice
      lost    == "rate" \notin netWanted \/ netDevice = None \/ changed
  IN  IF changed THEN ResetNetHistory(ResetRate(n))
      ELSE IF lost THEN ResetRate(n) ELSE n

ReconcileInfo(n) ==
  IF "info" \notin netWanted THEN [ResetInfo(n) EXCEPT !.source = None]
  ELSE IF n.source # netDevice THEN [ResetInfo(n) EXCEPT !.source = netDevice]
  ELSE n

ReconcileNetwork(n) ==
  LET m == ReconcileInfo(ReconcileRate(n))
  IN  IF "history" \in netWanted THEN m ELSE ResetNetHistory(m)

(* read_net_speed_once: a counter is compared with an earlier one of the same *)
(* interface, no larger and read before.                                      *)
Counted(n, i) == [n EXCEPT !.device = Some(i), !.bytes = wire.bytes[i], !.counted = Some(netNow)]

ComparableCounter(n, i) ==
  /\ n.device = Some(i)
  /\ n.counted # None
  /\ wire.bytes[i] >= n.bytes

NetSpeedOutcome(n, i) ==
  IF ~ComparableCounter(n, i) THEN Baseline
  ELSE IF n.counted = Some(netNow) THEN Baseline
  ELSE Value([interface |-> i, since |-> n.counted[1], moved |-> wire.bytes[i] - n.bytes])

NetSpeedState(n, i) ==
  IF n.device \notin {None, Some(i)} THEN ResetNetHistory(Counted(n, i))
  ELSE IF ComparableCounter(n, i) /\ n.counted = Some(netNow) THEN n
  ELSE Counted(n, i)

AttemptNetworkSpeed(n, i, readable) ==
  IF ~readable THEN [n EXCEPT !.rate = CommitAttempt(@, Failed, netNow)]
  ELSE [NetSpeedState(n, i) EXCEPT !.rate = CommitAttempt(@, NetSpeedOutcome(n, i), netNow)]

(* attempt_network_info: a Wi-Fi failure keeps what is known of the same      *)
(* interface and of no other.                                                 *)
KnownWifi(n, i) ==
  IF n.wifi.latest # None /\ n.wifi.latest[1].value = i THEN n.wifi ELSE NotRetained

WifiAttempt(n, i, answered) ==
  IF ~answered THEN CommitAttempt(KnownWifi(n, i), Failed, netNow)
  ELSE IF i \in Wireless THEN CommitAttempt(n.wifi, Value(i), netNow)
  ELSE CommitAttempt(n.wifi, Absent, netNow)

AttemptRoute(n, i, answered) ==
  [n EXCEPT !.wifi = WifiAttempt(n, i, answered),
            !.info = CommitAttempt(@, Value(i), netNow),
            !.source = Some(i)]

------------------------------------------------------------------------------
(* The jobs of a device and a demand, each with the source it depends on; a   *)
(* job that goes, or whose source changes, is forgotten by owner and display. *)

NetworkJobs(device, wanted) ==
  LET rate == "rate" \in wanted /\ device # None
      kinds == {k \in {"NetworkRate", "NetworkIdentity", "NetworkHistory"} :
                  CASE k = "NetworkRate" -> rate
                    [] k = "NetworkHistory" -> rate /\ "history" \in wanted
                    [] OTHER -> "info" \in wanted}
  IN  [k \in kinds |-> IF k = "NetworkIdentity" THEN None ELSE device]

NetworkRetired(device, wanted) ==
  LET old == NetworkJobs(netDevice, netWanted)
      new == NetworkJobs(device, wanted)
  IN  {k \in DOMAIN old : k \notin DOMAIN new \/ old[k] # new[k]}

InvalidateNetwork(n, kinds) ==
  LET rate == IF "NetworkRate" \in kinds THEN ResetRate(n) ELSE n
      info == IF "NetworkIdentity" \in kinds THEN ResetInfo(rate) ELSE rate
  IN  IF "NetworkHistory" \in kinds THEN ResetNetHistory(info) ELSE info

(* Fault: the display keeps the series of the interface that went.            *)
InvalidateShownRate(shown, kinds) ==
  [shown EXCEPT !.rate = IF "NetworkRate" \in kinds THEN None ELSE @,
                !.device = IF "NetworkIdentity" \in kinds THEN None ELSE @,
                !.wifi = IF "NetworkIdentity" \in kinds THEN None ELSE @]

InvalidateShownNetwork(shown, kinds) ==
  [rate    |-> IF "NetworkRate" \in kinds THEN None ELSE shown.rate,
   history |-> IF "NetworkHistory" \in kinds THEN <<>> ELSE shown.history,
   device  |-> IF "NetworkIdentity" \in kinds THEN None ELSE shown.device,
   wifi    |-> IF "NetworkIdentity" \in kinds THEN None ELSE shown.wifi]

(* The inventory or the demand changes; invalidations reach the worker before *)
(* the next run.                                                              *)
Rejob(n, shown, device, wanted) ==
  /\ net' = InvalidateNetwork(n, NetworkRetired(device, wanted))
  /\ netShown' = InvalidateShownNetwork(shown, NetworkRetired(device, wanted))
  /\ netDevice' = device
  /\ netWanted' = wanted

Demanded(kind) == kind \in DOMAIN NetworkJobs(netDevice, netWanted)

------------------------------------------------------------------------------
(* One run of each job.                                                       *)

RunNetworkRate(readable) ==
  /\ Demanded("NetworkRate")
  /\ net' = AttemptNetworkSpeed(ReconcileNetwork(net), netDevice[1], readable)
  /\ netShown' = [netShown EXCEPT !.rate = net'.rate.latest]
  /\ UNCHANGED <<netDevice, netWanted, wire, netNow, netGap>>

(* The route may name another interface than the inventory: the rates and the *)
(* series of the old one end with the run, and the inventory follows it.      *)
IdentityFailed ==
  /\ Demanded("NetworkIdentity")
  /\ net' = [ReconcileNetwork(net) EXCEPT !.info = CommitAttempt(@, Failed, netNow)]
  /\ netShown' = IF net'.info.latest = None THEN netShown
                 ELSE [netShown EXCEPT
                         !.device = Some(net'.info.latest[1].value),
                         !.wifi = IF net'.wifi.latest # None
                                     /\ net'.wifi.latest[1].value = net'.info.latest[1].value
                                  THEN Some(net'.wifi.latest[1].value) ELSE None]
  /\ UNCHANGED <<netDevice, netWanted, wire, netNow, netGap>>

Moved(n, i) ==
  IF netDevice = Some(i) THEN n ELSE ResetNetHistory(ResetRate(n))

MovedDisplay(shown, i) ==
  IF netDevice = Some(i) THEN shown ELSE [shown EXCEPT !.rate = None, !.history = <<>>]

IdentityRead(answered) ==
  /\ Demanded("NetworkIdentity")
  /\ wire.route # None
  /\ LET i     == wire.route[1]
         known == AttemptRoute(ReconcileNetwork(net), i, answered)
         wifi  == IF known.wifi.latest # None /\ known.wifi.latest[1].value = i
                  THEN Some(known.wifi.latest[1].value) ELSE None
     IN  Rejob(Moved(known, i),
               [MovedDisplay(netShown, i) EXCEPT !.device = Some(i), !.wifi = wifi],
               Some(i), netWanted)
  /\ UNCHANGED <<wire, netNow, netGap>>

(* The point of a deadline holds the newest rate captured no later than it.   *)
RunNetworkHistory(deadline) ==
  /\ Demanded("NetworkHistory")
  /\ \A p \in DOMAIN net.history : net.history[p].deadline < deadline
  /\ LET n      == ReconcileNetwork(net)
         sample == SampleAtOrBefore(n.rate, deadline)
     IN  /\ net' = IF sample = None THEN n
                   ELSE [n EXCEPT !.history =
                           Trimmed(Append(@, [deadline |-> deadline, sample |-> sample[1]]),
                                   NetGraphLength)]
         /\ netShown' = IF sample = None THEN netShown
                        ELSE [netShown EXCEPT !.history = net'.history]
  /\ UNCHANGED <<netDevice, netWanted, wire, netNow, netGap>>

(* ResetCounterBaseline, after a sleep or an interruption of the sampling.    *)
ResetNetworkBaseline ==
  /\ Demanded("NetworkRate")
  /\ net' = InvalidateRateBaseline(net)
  /\ netGap' = netNow
  /\ UNCHANGED <<netShown, netDevice, netWanted, wire, netNow>>

------------------------------------------------------------------------------
(* The machine and the daemon around the owner.                               *)

NetTraffic ==
  /\ netNow < MaxNetTime
  /\ netNow' = netNow + 1
  /\ \E grown \in SUBSET Interface :
       wire' = [wire EXCEPT !.bytes = [i \in Interface |->
                 IF i \in grown /\ @[i] < MaxBytes THEN @[i] + 1 ELSE @[i]]]
  /\ UNCHANGED <<net, netShown, netDevice, netWanted, netGap>>

WireChanges ==
  /\ wire.moves < MaxRoutes
  /\ \/ \E route \in {None} \cup {Some(i) : i \in Interface} :
          route # wire.route /\ wire' = [wire EXCEPT !.route = route, !.moves = @ + 1]
     \/ \E i \in Interface :
          wire.bytes[i] > 0 /\ wire' = [wire EXCEPT !.bytes[i] = 0, !.moves = @ + 1]
  /\ UNCHANGED <<net, netShown, netDevice, netWanted, netNow, netGap>>

(* A discovery of the network family finds the route of the moment, also none.*)
NetworkDiscovered ==
  /\ netDevice # wire.route
  /\ Rejob(net, netShown, wire.route, netWanted)
  /\ UNCHANGED <<wire, netNow, netGap>>

NetworkDemand(wanted) ==
  /\ wanted # netWanted
  /\ wire.moves < MaxRoutes
  /\ wire' = [wire EXCEPT !.moves = @ + 1]
  /\ Rejob(net, netShown, netDevice, wanted)
  /\ UNCHANGED <<netNow, netGap>>

NetworkNext ==
  \/ \E readable \in BOOLEAN : RunNetworkRate(readable)
  \/ IdentityFailed
  \/ \E answered \in BOOLEAN : IdentityRead(answered)
  \/ \E deadline \in 0..netNow : RunNetworkHistory(deadline)
  \/ ResetNetworkBaseline
  \/ NetTraffic
  \/ WireChanges
  \/ NetworkDiscovered
  \/ \E wanted \in Demands : NetworkDemand(wanted)

NetworkSpec == NetworkInit /\ [][NetworkNext]_networkVars

------------------------------------------------------------------------------
(* Every rate on display, every point of the series and the network name      *)
(* belong to the interface that stands beside them: whichever of a route      *)
(* change, a discovery, a Wi-Fi failure and a change of demand came first,    *)
(* nothing of an earlier interface is left over.                              *)
NetworkAgrees ==
  /\ netShown.rate # None => Some(netShown.rate[1].value.interface) = netDevice
  /\ \A series \in {net.history, netShown.history} : \A p \in DOMAIN series :
       Some(series[p].sample.value.interface) = netDevice
  /\ netShown.wifi # None => netShown.wifi = netShown.device

(* A rate compares two readings of a counter that only grew in between, and   *)
(* no interruption of the sampling lies between them; a point of the series   *)
(* is no younger than its deadline.                                           *)
RatesAreMeasured ==
  /\ \A s \in Values(net.rate) \cup {net.history[p].sample : p \in DOMAIN net.history} :
       /\ s.value.moved >= 0
       /\ s.value.since < s.at
       /\ s.at > netGap => s.value.since >= netGap
  /\ \A p \in DOMAIN net.history : net.history[p].sample.at <= net.history[p].deadline

(* What is shown of the network is of the interface beside it, and measured.  *)
NetworkSamplesHold == NetworkAgrees /\ RatesAreMeasured
=============================================================================
