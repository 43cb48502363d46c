------------------------------ MODULE NpuSamples ------------------------------
(* The owner of the AMD NPU: one read of a table gives the load, the power and *)
(* the clock, each retained on its own; the load also fills the history of the *)
(* graphs page.  A sample is the source it was read from and the instant.      *)
EXTENDS RetainedSamples, FiniteSets

CONSTANTS
  Npu,                       \* the identities of the NPUs discovery may find
  NpuGraphLength,            \* points the graphs page keeps
  MaxNpuTime, MaxNpuMoves    \* bounds of the clock and of the changes

ASSUME NpuAssumption ==
  NpuGraphLength \in Nat \ {0} /\ {MaxNpuTime, MaxNpuMoves} \subseteq Nat

VARIABLES
  npu,         \* AmdNpuState of the worker
  npuShown,    \* the owner's readings on display
  npuHw,       \* amd_npu of the inventory
  npuWanted,   \* a subset of {"item", "graph"}
  npuMoves,
  npuNow,
  npuLayout    \* the last instant the table had another layout

npuVars == <<npu, npuShown, npuHw, npuWanted, npuMoves, npuNow, npuLayout>>

NpuMetric == {"usage", "power", "frequency"}

NewNpu(source) ==
  [source |-> source, samples |-> [m \in NpuMetric |-> NotRetained], history |-> <<>>]

Unread == [m \in NpuMetric |-> None]

NpuInit ==
  /\ npu = NewNpu(None)
  /\ npuShown = [now |-> Unread, history |-> <<>>]
  /\ npuHw \in {None} \cup {Some(n) : n \in Npu}
  /\ npuWanted \in SUBSET {"item", "graph"}
  /\ npuMoves = 0
  /\ npuNow = 0
  /\ npuLayout = 0

NpuSource(hw, wanted) == IF wanted = {} THEN None ELSE hw

HistorySource(hw, wanted) == IF "graph" \in wanted THEN hw ELSE None

(* A source that comes, goes or is replaced takes everything with it.          *)
ReconcileNpu ==
  LET source == NpuSource(npuHw, npuWanted)
      kept == IF npu.source = source THEN npu ELSE NewNpu(source)
  IN  IF "graph" \in npuWanted THEN kept ELSE [kept EXCEPT !.history = <<>>]

NpuAround == UNCHANGED <<npuHw, npuWanted, npuMoves, npuNow>>

(* What a complete table of the known layout says of each metric; a column of  *)
(* the load can be out of range.                                               *)
NpuTables ==
  { t \in [NpuMetric -> {"value", "unavailable", "invalid"}] :
      \A m \in NpuMetric \ {"usage"} : t[m] # "invalid" }

RecordTable(samples, table) ==
  [m \in NpuMetric |->
     CommitAttempt(samples[m],
                   CASE table[m] = "value" -> Value(npuHw[1])
                     [] table[m] = "unavailable" -> Absent
                     [] table[m] = "invalid" -> Failed,
                   npuNow)]

ShowNpu == [npuShown EXCEPT !.now = [m \in NpuMetric |-> npu'.samples[m].latest]]

RunNpu(table) ==
  /\ NpuSource(npuHw, npuWanted) # None
  /\ npu' = [ReconcileNpu EXCEPT !.samples = RecordTable(@, table)]
  /\ npuShown' = ShowNpu
  /\ NpuAround
  /\ UNCHANGED npuLayout

(* A table of another layout leaves nothing of the samples before it.          *)
AfterLayout(samples) == [m \in NpuMetric |-> RecordAbsence(samples[m])]

RunNpuOtherLayout ==
  /\ NpuSource(npuHw, npuWanted) # None
  /\ npu' = [ReconcileNpu EXCEPT !.samples = AfterLayout(@)]
  /\ npuShown' = ShowNpu
  /\ npuLayout' = npuNow
  /\ NpuAround

(* The table is cut short or cannot be read: every metric keeps its sample.    *)
RunNpuFailed ==
  /\ NpuSource(npuHw, npuWanted) # None
  /\ npu' = [ReconcileNpu EXCEPT !.samples = [m \in NpuMetric |-> RecordFailure(@[m])]]
  /\ npuShown' = ShowNpu
  /\ NpuAround
  /\ UNCHANGED npuLayout

(* A point at the deadline, or a gap.                                          *)
RunNpuHistory(deadline) ==
  /\ HistorySource(npuHw, npuWanted) # None
  /\ LET kept  == ReconcileNpu
         found == SampleAtOrBefore(kept.samples["usage"], deadline)
         point == [sample |-> found[1], due |-> deadline]
     IN  IF found = None THEN npu' = kept /\ UNCHANGED npuShown
         ELSE /\ npu' = [kept EXCEPT !.history = Trimmed(Append(@, point), NpuGraphLength)]
              /\ npuShown' = [npuShown EXCEPT !.history = npu'.history]
  /\ NpuAround
  /\ UNCHANGED npuLayout

(* An inventory or a demand retires the jobs it replaces.                      *)
NpuRejob(hw, wanted) ==
  LET lost == NpuSource(npuHw, npuWanted) \notin {None, NpuSource(hw, wanted)}
      ended == HistorySource(npuHw, npuWanted) \notin {None, HistorySource(hw, wanted)}
  IN  /\ <<hw, wanted>> # <<npuHw, npuWanted>>
      /\ npuMoves < MaxNpuMoves
      /\ npuMoves' = npuMoves + 1
      /\ npu' = [npu EXCEPT !.samples = IF lost THEN [m \in NpuMetric |-> NotRetained] ELSE @,
                            !.history = IF ended THEN <<>> ELSE @]
      /\ npuShown' = [now |-> IF lost THEN Unread ELSE npuShown.now,
                      history |-> IF ended THEN <<>> ELSE npuShown.history]
      /\ npuHw' = hw
      /\ npuWanted' = wanted
      /\ UNCHANGED <<npuNow, npuLayout>>

NpuTime ==
  /\ npuNow < MaxNpuTime
  /\ npuNow' = npuNow + 1
  /\ UNCHANGED <<npu, npuShown, npuHw, npuWanted, npuMoves, npuLayout>>

NpuNext ==
  \/ \E table \in NpuTables : RunNpu(table)
  \/ RunNpuOtherLayout
  \/ RunNpuFailed
  \/ \E deadline \in 0..npuNow : RunNpuHistory(deadline)
  \/ \E hw \in {None} \cup {Some(n) : n \in Npu}, wanted \in SUBSET {"item", "graph"} :
       NpuRejob(hw, wanted)
  \/ NpuTime

NpuSpec == NpuInit /\ [][NpuNext]_npuVars

------------------------------------------------------------------------------
(* What is shown and drawn of the NPU is of the one in the inventory; power    *)
(* and clock shown together are of one read of the table; no value of before a *)
(* change of the table's layout is shown or becomes a later point; a point was *)
(* measured no later than its deadline.                                        *)
NpuAgrees ==
  /\ \A m \in NpuMetric : npuShown.now[m] # None =>
       /\ Some(npuShown.now[m][1].value) = npuHw
       /\ npuShown.now[m] = npu.samples[m].latest
       /\ npuShown.now[m][1].at >= npuLayout
  /\ npuShown.now["power"] # None /\ npuShown.now["frequency"] # None =>
       npuShown.now["power"] = npuShown.now["frequency"]
  /\ \A i \in DOMAIN npuShown.history :
       LET point == npuShown.history[i]
       IN  /\ Some(point.sample.value) = npuHw
           /\ point.sample.at <= point.due
           /\ point.due > npuLayout => point.sample.at >= npuLayout
=============================================================================
