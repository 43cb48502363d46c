---------------------------- MODULE ExternalSamples ----------------------------
(* The owner of what others write: the brightness of the screen and two status *)
(* files, each with its own retained sample.  A file's sample remembers which  *)
(* path it was read from; the backlight is there or not.  A sample is the      *)
(* source it was read from and the instant.                                    *)
EXTENDS RetainedSamples, FiniteSets

CONSTANTS
  StatusFile,                \* the paths a configuration may name
  MaxStatusTime, MaxStatusMoves  \* bounds of the clock and of the changes

ASSUME ExternalAssumption == {MaxStatusTime, MaxStatusMoves} \subseteq Nat

VARIABLES
  external,        \* ExternalState of the worker: item -> [sample, source]
  externalShown,   \* item -> the reading on display
  externalCfg,     \* file item -> the configured path, if any
  externalWanted,  \* the items in demand
  backlight,       \* has_backlight of the inventory
  externalMoves,
  externalNow

externalVars == <<external, externalShown, externalCfg, externalWanted, backlight,
                  externalMoves, externalNow>>

File == {"UpdatesFile", "ServerFile"}
Item == File \cup {"Brightness"}
Backlight == "backlight"
Paths == {None} \cup {Some(f) : f \in StatusFile}

NewItem == [sample |-> NotRetained, source |-> None]

ExternalInit ==
  /\ external = [item \in Item |-> NewItem]
  /\ externalShown = [item \in Item |-> None]
  /\ externalCfg \in [File -> Paths]
  /\ externalWanted \in SUBSET Item
  /\ backlight \in BOOLEAN
  /\ externalMoves = 0
  /\ externalNow = 0

(* The source of the job of an item, if the item has a job.                    *)
ExternalSource(item, cfg, wanted, lit) ==
  CASE item \notin wanted -> None
    [] item \in wanted \cap File -> cfg[item]
    [] OTHER -> IF lit THEN Some(Backlight) ELSE None

SourceOf(item) == ExternalSource(item, externalCfg, externalWanted, backlight)

(* reconcile_sources: before any run, the sample of another source goes.       *)
ReconcileExternal(item) ==
  LET kept == external[item]
      source == SourceOf(item)
  IN  IF item \in File
      THEN IF kept.source = source /\ source # None THEN kept
           ELSE [NewItem EXCEPT !.source = source]
      ELSE IF source = None THEN NewItem ELSE kept

ExternalAround == UNCHANGED <<externalCfg, externalWanted, backlight, externalMoves, externalNow>>

(* attempt_external of the one item of the job.                                *)
RunExternal(item, readable) ==
  /\ SourceOf(item) # None
  /\ LET outcome == IF readable THEN Value(SourceOf(item)[1]) ELSE Failed
     IN  external' = [i \in Item |->
           IF i = item
           THEN [ReconcileExternal(i) EXCEPT !.sample = CommitAttempt(@, outcome, externalNow)]
           ELSE ReconcileExternal(i)]
  /\ externalShown' = [externalShown EXCEPT ![item] = external'[item].sample.latest]
  /\ ExternalAround

InvalidateExternal(items) ==
  /\ external' = [i \in Item |-> IF i \in items THEN NewItem ELSE external[i]]
  /\ externalShown' = [i \in Item |-> IF i \in items THEN None ELSE externalShown[i]]

(* A demand, a configuration or an inventory retires the jobs it replaces.     *)
ExternalRejob(cfg, wanted, lit) ==
  /\ <<cfg, wanted, lit>> # <<externalCfg, externalWanted, backlight>>
  /\ externalMoves < MaxStatusMoves
  /\ externalMoves' = externalMoves + 1
  /\ InvalidateExternal({i \in Item : SourceOf(i) \notin {None, ExternalSource(i, cfg, wanted, lit)}})
  /\ externalCfg' = cfg
  /\ externalWanted' = wanted
  /\ backlight' = lit
  /\ UNCHANGED externalNow

ExternalTime ==
  /\ externalNow < MaxStatusTime
  /\ externalNow' = externalNow + 1
  /\ UNCHANGED <<external, externalShown, externalCfg, externalWanted, backlight, externalMoves>>

ExternalNext ==
  \/ \E item \in Item, readable \in BOOLEAN : RunExternal(item, readable)
  \/ \E cfg \in [File -> Paths] : ExternalRejob(cfg, externalWanted, backlight)
  \/ \E wanted \in SUBSET Item : ExternalRejob(externalCfg, wanted, backlight)
  \/ ExternalRejob(externalCfg, externalWanted, ~backlight)
  \/ ExternalTime

ExternalSpec == ExternalInit /\ [][ExternalNext]_externalVars

------------------------------------------------------------------------------
(* What is on display was read from where the configuration and the inventory  *)
(* say now, and is what the owner retains, however a path, the backlight and   *)
(* the demand change between reads that may fail.                              *)
ExternalAgrees ==
  \A item \in Item : externalShown[item] # None =>
    /\ Some(externalShown[item][1].value) = SourceOf(item)
    /\ externalShown[item] = external[item].sample.latest
=============================================================================
