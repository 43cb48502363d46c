-------------------------------- MODULE Notify --------------------------------
(* Desktop notifications (notify.rs): the latches that a pass over the        *)
(* captured readings advances, and the bounded queue to the task that         *)
(* delivers the alerts (daemon/async_loop/notifications.rs).                  *)
EXTENDS Integers, Sequences, SequencesExt

CONSTANTS
  Sustained,          \* alerts with a hold time and a hysteresis
  Edge,               \* alerts on the first reading over
  Low,                \* edge alerts of a battery: low is bad, zero is unknown
  Level,              \* values of readings
  RuleSet,            \* thresholds and switches the configuration may have
  NOTIFICATION_CHANNEL_CAPACITY,
  MaxTime             \* bound on the clock

Alert == Sustained \cup Edge

ASSUME NotifyAssumption ==
  /\ Low \subseteq Edge
  /\ Sustained \cap Edge = {}
  /\ Level \subseteq Nat
  /\ RuleSet \subseteq [trip : Int, cool : Nat, hold : Int, on : SUBSET Alert]
  /\ NOTIFICATION_CHANNEL_CAPACITY \in Nat \ {0}

VARIABLES
  time,
  rules,      \* the thresholds and switches in force
  latch,      \* NotificationLatch of each sustained alert
  tripped,    \* the flag of each edge alert
  outbox,     \* the queue of payloads
  sending,    \* the alerts with the delivery task
  past        \* history: what the readings so far amount to

notifyVars == <<time, rules, latch, tripped, outbox, sending, past>>

Never == -1
Absent == -1
Calm == [active |-> FALSE, since |-> Never]

-----------------------------------------------------------------------------
(* sustained                                                                  *)

Clear == rules.trip - rules.cool

(* Fault: a dip below the trip point does not restart the hold.               *)
AdvanceThroughDips(l, v) ==
  IF l.active THEN IF v < Clear THEN Calm ELSE l
  ELSE IF v < rules.trip THEN l
  ELSE LET since == IF l.since = Never THEN time ELSE l.since
       IN  [active |-> time - since >= rules.hold, since |-> since]

Advance(l, v) ==
  IF l.active THEN IF v < Clear THEN Calm ELSE l
  ELSE IF v < rules.trip THEN [l EXCEPT !.since = Never]
  ELSE LET since == IF l.since = Never THEN time ELSE l.since
       IN  [active |-> time - since >= rules.hold, since |-> since]

(* A battery is low at the threshold or under it.                             *)
Over(e, v) == IF e \in Low THEN v <= rules.trip ELSE v >= rules.trip

(* A reading of an alert that is switched on.                                 *)
Heard(sample, a) ==
  /\ a \in rules.on
  /\ sample[a] # Absent
  /\ a \in Low => sample[a] # 0

-----------------------------------------------------------------------------
(* check_and_notify                                                           *)

NextLatch(sample) ==
  [a \in Sustained |-> IF Heard(sample, a) THEN Advance(latch[a], sample[a]) ELSE latch[a]]

NextTripped(sample) ==
  [e \in Edge |-> IF Heard(sample, e) THEN Over(e, sample[e]) ELSE tripped[e]]

(* The alerts of a pass: the trip edges.                                      *)
Told(sample) ==
  {a \in Sustained : ~latch[a].active /\ NextLatch(sample)[a].active}
    \cup {e \in Edge : ~tripped[e] /\ NextTripped(sample)[e]}

(* The payloads in the order of the pass.  What the full queue refuses is     *)
(* reported and gone.                                                         *)
Emitted(told) ==
  LET all == outbox \o SelectSeq(SetToSeq(Alert), LAMBDA a : a \in told)
  IN  IF Len(all) > NOTIFICATION_CHANNEL_CAPACITY
      THEN SubSeq(all, 1, NOTIFICATION_CHANNEL_CAPACITY) ELSE all

(* History: since when every reading was over, which alerts were told since   *)
(* a reading last cleared them, and what the pass told.                       *)
Record(sample) ==
  [over  |-> [a \in Sustained |->
                IF ~Heard(sample, a) THEN past.over[a]
                ELSE IF sample[a] < rules.trip THEN Never
                ELSE IF past.over[a] = Never THEN time ELSE past.over[a]],
   armed |-> [a \in Alert |->
                IF a \in Told(sample) THEN FALSE
                ELSE \/ past.armed[a]
                     \/ Heard(sample, a) /\ IF a \in Edge THEN ~Over(a, sample[a]) ELSE sample[a] < Clear],
   told  |-> Told(sample),
   heard |-> {a \in Alert : Heard(sample, a)}]

CheckAndNotify(sample) ==
  /\ latch' = NextLatch(sample)
  /\ tripped' = NextTripped(sample)
  /\ outbox' = Emitted(Told(sample))
  /\ past' = Record(sample)
  /\ UNCHANGED <<time, rules, sending>>

-----------------------------------------------------------------------------
(* The delivery task, the configuration and the clock.                        *)

Silent == past' = [past EXCEPT !.told = {}, !.heard = {}]

(* The next payload, when the previous one is delivered.  It waits for the    *)
(* blocking lane.                                                             *)
TakePayload ==
  /\ sending = <<>> /\ outbox # <<>>
  /\ sending' = <<Head(outbox)>>
  /\ outbox' = Tail(outbox)
  /\ Silent
  /\ UNCHANGED <<time, rules, latch, tripped>>

(* Sent or failed: nothing is retried.                                        *)
Delivered ==
  /\ sending # <<>>
  /\ sending' = <<>>
  /\ Silent
  /\ UNCHANGED <<time, rules, latch, tripped, outbox>>

(* A reload replaces thresholds and switches; the latches stay.               *)
ReplaceRules(r) ==
  /\ r # rules
  /\ rules' = r
  /\ Silent
  /\ UNCHANGED <<time, latch, tripped, outbox, sending>>

PassTime ==
  /\ time < MaxTime
  /\ time' = time + 1
  /\ Silent
  /\ UNCHANGED <<rules, latch, tripped, outbox, sending>>

NotifyInit ==
  /\ time = 0
  /\ rules \in RuleSet
  /\ latch = [a \in Sustained |-> Calm]
  /\ tripped = [e \in Edge |-> FALSE]
  /\ outbox = <<>> /\ sending = <<>>
  /\ past = [over |-> [a \in Sustained |-> Never], armed |-> [a \in Alert |-> TRUE],
             told |-> {}, heard |-> {}]

NotifyNext ==
  \/ \E sample \in [Alert -> Level \cup {Absent}] : CheckAndNotify(sample)
  \/ TakePayload \/ Delivered \/ PassTime
  \/ \E r \in RuleSet : ReplaceRules(r)

NotifySpec == NotifyInit /\ [][NotifyNext]_notifyVars

-----------------------------------------------------------------------------
(* A told alert has its reason: a sustained one had every reading of the hold *)
(* time over the trip point in force at it, and none is told twice without a  *)
(* reading that cleared it in between.                                        *)
HeldAndCleared ==
  \A a \in past'.told :
    /\ past.armed[a]
    /\ a \in Sustained => past'.over[a] # Never /\ time - past'.over[a] >= rules.hold

(* A pass that reads a value which has been over for the hold time leaves its *)
(* episode told.                                                              *)
NoneMissed ==
  \A a \in past'.heard \cap Sustained :
    past'.over[a] # Never /\ time - past'.over[a] >= rules.hold => latch'[a].active

(* The latches of notify.rs tell each episode, once, and for a reason.  They  *)
(* survive reloads, switched-off checks and missing readings, each of which   *)
(* may come between any two passes.                                           *)
AlertsAreRight == [][HeldAndCleared /\ NoneMissed]_notifyVars
=============================================================================
