----------------------------- MODULE PowerSamples -----------------------------
(* The power owner: the system batteries, each read from sysfs or else from   *)
(* UPower, and the battery of a peripheral (the mouse; the keyboard follows   *)
(* the same rules), read from UPower or from a Bolt receiver.  Where the      *)
(* peripheral is read is decided by the configuration and, failing that, by   *)
(* what was discovered.  A charge is where and when it was read; a name is    *)
(* the configured one or that of the device that gave it.                     *)
EXTENDS RetainedSamples, FiniteSets

CONSTANTS
  Battery, Peripheral,       \* the system batteries; the devices UPower finds
  PowerConfigs,              \* configurations: unifying, bolt (or None), named
  MaxPowerTime, MaxPowerMoves  \* bounds of the clock and of the changes

ASSUME PowerAssumption == {MaxPowerTime, MaxPowerMoves} \subseteq Nat

VARIABLES
  power,        \* PowerState of the worker
  powerShown,   \* the owner's readings on display
  powerHw,      \* the inventory
  powerCfg,
  powerWanted,  \* a subset of {"batteries", "mouse"}
  powerMoves,
  powerNow

powerVars == <<power, powerShown, powerHw, powerCfg, powerWanted, powerMoves, powerNow>>

NewPeripheralCache == [source |-> None, name |-> None, charge |-> None]

PowerHardware == [batteries : SUBSET Battery, mouse : {None} \cup {Some(p) : p \in Peripheral}]

PowerInit ==
  /\ power = [sys |-> <<>>, mouse |-> NewPeripheralCache]
  /\ powerShown = [sys |-> <<>>, mouse |-> None]
  /\ powerHw \in PowerHardware
  /\ powerCfg \in PowerConfigs
  /\ powerWanted = {"batteries", "mouse"}
  /\ powerMoves = 0
  /\ powerNow = 0

------------------------------------------------------------------------------
(* Where the peripheral is read, and the jobs this gives.                     *)

Upower(id) == [by |-> "upower", id |-> id]
Bolt(index) == [by |-> "bolt", id |-> index]

Configured == [by |-> "config", id |-> "name"]   \* where an override comes from

ResolvePeripheralSource(cfg, hw) ==
  CASE cfg.unifying # None -> Some(Upower(cfg.unifying[1]))
    [] cfg.unifying = None /\ cfg.bolt # None -> Some(Bolt(cfg.bolt[1]))
    [] OTHER -> IF hw.mouse = None THEN None ELSE Some(Upower(hw.mouse[1]))

SystemBatteries(hw, wanted) == IF "batteries" \in wanted THEN hw.batteries ELSE {}

MouseSource(cfg, hw, wanted) ==
  IF "mouse" \in wanted THEN ResolvePeripheralSource(cfg, hw) ELSE None

Batteries == SystemBatteries(powerHw, powerWanted)
Mouse == MouseSource(powerCfg, powerHw, powerWanted)

(* reconcile_sources: what is retained of another source is forgotten before  *)
(* a run of the owner.                                                        *)
ReconcilePower(p) ==
  [sys   |-> [id \in DOMAIN p.sys \cap Batteries |-> p.sys[id]],
   mouse |-> IF p.mouse.source = Mouse THEN p.mouse
             ELSE [NewPeripheralCache EXCEPT !.source = Mouse]]

------------------------------------------------------------------------------
(* The attempts.                                                              *)

Charge(source) == Some([of |-> source, at |-> powerNow])

(* A name is kept once the device has given one.                              *)
RefreshPeriph(cache, percent, model) ==
  [cache EXCEPT !.name = IF @ = None /\ model THEN Mouse ELSE @,
                !.charge = IF percent THEN Charge(Mouse[1]) ELSE None]

AttemptUpower(cache, answer) ==
  CASE answer = "failed" -> cache
    [] answer = "charge" -> RefreshPeriph(cache, TRUE, TRUE)
    [] answer = "nameless" -> RefreshPeriph(cache, TRUE, FALSE)
    [] answer = "away" -> RefreshPeriph(cache, FALSE, FALSE)

AttemptBolt(cache, answer) ==
  LET wantName == ~powerCfg.named /\ cache.name = None
      name == CASE powerCfg.named -> Some(Configured)
                [] ~powerCfg.named /\ wantName /\ answer = "charge" -> Mouse
                [] OTHER -> cache.name
  IN  CASE answer = "failed" -> cache
        [] answer \in {"charge", "nameless"} ->
             [cache EXCEPT !.name = name, !.charge = Charge(Mouse[1])]
        [] answer = "away" -> [cache EXCEPT !.charge = None]

PeripheralReading(cache) ==
  IF cache.charge = None THEN None
  ELSE Some([name |-> IF powerCfg.named THEN Some(Configured) ELSE cache.name,
             charge |-> cache.charge[1]])

(* The readings but those of some batteries.                                  *)
Retain(readings, gone) ==
  LET kept[n \in 0..Len(readings)] ==
        IF n = 0 THEN <<>>
        ELSE IF readings[n] \in gone THEN kept[n - 1] ELSE Append(kept[n - 1], readings[n])
  IN  kept[Len(readings)]

(* The reading of a battery moves to the end of the readings.                 *)
BatteryReplaced(readings, id, sampled) ==
  LET others == Retain(readings, {id})
  IN  IF sampled THEN Append(others, id) ELSE others

------------------------------------------------------------------------------
(* One run of each job; forgetting one.                                       *)

PowerAround == UNCHANGED <<powerHw, powerCfg, powerWanted, powerMoves, powerNow>>

(* sysfs, then UPower; the charge of a battery that cannot be read is kept.   *)
RunSystemBattery(id, sysfs, upower) ==
  /\ id \in Batteries
  /\ LET before  == ReconcilePower(power)
         old     == IF id \in DOMAIN before.sys THEN before.sys[id] ELSE None
         sampled == IF sysfs \/ upower THEN Some(powerNow) ELSE old
     IN  /\ power' = [before EXCEPT !.sys = [b \in DOMAIN @ \cup {id} |->
                                               IF b = id THEN sampled ELSE @[b]]]
         /\ powerShown' = [powerShown EXCEPT !.sys = BatteryReplaced(@, id, sampled # None)]
  /\ PowerAround

RunPeripheralBattery(answer) ==
  /\ Mouse # None
  /\ LET before == ReconcilePower(power)
     IN  power' = [before EXCEPT !.mouse = IF Mouse[1].by = "upower"
                                           THEN AttemptUpower(@, answer) ELSE AttemptBolt(@, answer)]
  /\ powerShown' = [powerShown EXCEPT !.mouse = PeripheralReading(power'.mouse)]
  /\ PowerAround

InvalidateBatteries(ids) ==
  [b \in DOMAIN power.sys \ ids |-> power.sys[b]]

(* A demand, an inventory or a configuration that changes retires the jobs of *)
(* the batteries that left and of the source that was replaced.               *)
PowerRejob(hw, cfg, wanted) ==
  LET gone == Batteries \ SystemBatteries(hw, wanted)
      moved == Mouse # None /\ MouseSource(cfg, hw, wanted) # Mouse
  IN  /\ powerMoves < MaxPowerMoves
      /\ powerMoves' = powerMoves + 1
      /\ power' = [sys   |-> InvalidateBatteries(gone),
                   mouse |-> IF moved THEN NewPeripheralCache ELSE power.mouse]
      /\ powerShown' = [sys   |-> Retain(powerShown.sys, gone),
                        mouse |-> IF moved THEN None ELSE powerShown.mouse]
      /\ powerHw' = hw
      /\ powerCfg' = cfg
      /\ powerWanted' = wanted
      /\ UNCHANGED powerNow

PowerDiscovered(hw) == hw # powerHw /\ PowerRejob(hw, powerCfg, powerWanted)

PowerReloaded(cfg) == cfg # powerCfg /\ PowerRejob(powerHw, cfg, powerWanted)

PowerDemand(wanted) == wanted # powerWanted /\ PowerRejob(powerHw, powerCfg, wanted)

PowerTime ==
  /\ powerNow < MaxPowerTime
  /\ powerNow' = powerNow + 1
  /\ UNCHANGED <<power, powerShown, powerHw, powerCfg, powerWanted, powerMoves>>

PowerNext ==
  \/ \E id \in Battery, sysfs, upower \in BOOLEAN : RunSystemBattery(id, sysfs, upower)
  \/ \E answer \in {"charge", "nameless", "away", "failed"} : RunPeripheralBattery(answer)
  \/ \E hw \in PowerHardware : PowerDiscovered(hw)
  \/ \E cfg \in PowerConfigs : PowerReloaded(cfg)
  \/ \E wanted \in SUBSET {"batteries", "mouse"} : PowerDemand(wanted)
  \/ PowerTime

PowerSpec == PowerInit /\ [][PowerNext]_powerVars

------------------------------------------------------------------------------
(* Every battery on display is one of the machine's that is in demand, is     *)
(* there once, and has the charge the owner retains; the peripheral's charge  *)
(* was read where the configuration and the inventory now say, and its name   *)
(* is a configured one or that device's, in whatever order reads fail and   *)
(* override, receiver and discovery replace one another.                      *)
BatteriesAgree ==
  /\ \A i, j \in DOMAIN powerShown.sys : powerShown.sys[i] = powerShown.sys[j] => i = j
  /\ \A i \in DOMAIN powerShown.sys :
       /\ powerShown.sys[i] \in Batteries \cap DOMAIN power.sys
       /\ power.sys[powerShown.sys[i]] # None
  /\ powerShown.mouse # None =>
       /\ Some(powerShown.mouse[1].charge.of) = Mouse
       /\ powerShown.mouse[1].name \in {None, Some(Configured), Mouse}
       /\ power.mouse.charge = Some(powerShown.mouse[1].charge)
=============================================================================
