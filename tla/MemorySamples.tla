----------------------------- MODULE MemorySamples -----------------------------
(* The memory owner: the use of memory and of swap from /proc/meminfo, with    *)
(* the estimate of what is available when the kernel gives none, and the       *)
(* history of the use.  An amount is in units small enough to enumerate; one   *)
(* that the file does not have is a sequence of none.  A sample is what its    *)
(* read saw, a point the sample and its deadline.                              *)
EXTENDS RetainedSamples, FiniteSets

CONSTANTS
  MemInfos,                  \* what /proc/meminfo and /proc/zoneinfo may say
  MemoryLength,              \* points the longest consumer keeps
  MaxMemoryTime              \* bound of the clock

MemoryFields ==
  {"total", "free", "available", "cached", "reclaimable", "pagecache", "low", "swap", "swapFree"}

ASSUME MemoryAssumption ==
  /\ MemoryLength \in Nat \ {0} /\ MaxMemoryTime \in Nat
  /\ \A info \in MemInfos : \A field \in MemoryFields :
       info[field] # None => info[field][1] \in Nat

VARIABLES
  meminfo,      \* the fields of the files: an amount each, or none
  memory,       \* MemoryState of the worker: usage, swap, history
  memoryShown,  \* the owner's readings on display
  swapWanted,
  memoryNow

memoryVars == <<meminfo, memory, memoryShown, swapWanted, memoryNow>>

MemoryInit ==
  /\ meminfo \in MemInfos
  /\ memory = [usage |-> NotRetained, swap |-> NotRetained, history |-> <<>>]
  /\ memoryShown = [usage |-> None, swap |-> None, history |-> <<>>]
  /\ swapWanted \in BOOLEAN
  /\ memoryNow = 0

------------------------------------------------------------------------------
(* The use of memory.                                                          *)

OrZero(amount) == IF amount = None THEN 0 ELSE amount[1]

Least(a, b) == IF a < b THEN a ELSE b

(* Integer division that drops the fraction, as the code's does.               *)
TruncDiv2(value) == IF value >= 0 THEN value \div 2 ELSE -((-value) \div 2)

(* Twice what a cache can give back: at most the watermark is held back, and   *)
(* never more than half.                                                       *)
HalfScaledContribution(value, low) ==
  IF value <= 2 * low THEN value ELSE 2 * value - 2 * low

CalculateAvailable(info) ==
  IF None \in {info.pagecache, info.reclaimable, info.low}
  THEN info.free[1] + OrZero(info.cached)
  ELSE LET low == info.low[1]
       IN  TruncDiv2(2 * info.free[1] - 2 * low
                     + HalfScaledContribution(info.pagecache[1], low)
                     + HalfScaledContribution(info.reclaimable[1], low))

ResolvedAvailable(info) ==
  IF OrZero(info.available) = 0 THEN CalculateAvailable(info) ELSE info.available[1]

ClampAvailable(available, info) ==
  CASE available < 0 -> 0
    [] available > info.total[1] -> info.free[1]
    [] OTHER -> available

MemoryUsed(info) ==
  LET available == ClampAvailable(ResolvedAvailable(info), info)
  IN  IF available > info.total[1] THEN 0 ELSE info.total[1] - available

RoundHalfEven(numerator, denominator) ==
  LET quotient == numerator \div denominator
      twice == 2 * (numerator % denominator)
  IN  IF twice > denominator \/ (twice = denominator /\ quotient % 2 = 1)
      THEN quotient + 1 ELSE quotient

RoundedPercent(used, total) ==
  IF total = 0 THEN 0 ELSE RoundHalfEven(1000 * used, total) \div 10

ReadMemoryUsage(info) ==
  IF None \in {info.total, info.free} THEN Failed
  ELSE Value([percent |-> RoundedPercent(MemoryUsed(info), info.total[1])])

ReadSwapUsage(info) ==
  CASE info.swap = None -> Failed
    [] info.swap # None /\ info.swap[1] = 0 -> Absent
    [] info.swap # None /\ info.swap[1] # 0 /\ info.swapFree = None -> Failed
    [] OTHER -> LET free == Least(info.swapFree[1], info.swap[1])
                IN  Value([percent |-> RoundedPercent(info.swap[1] - free, info.swap[1])])

------------------------------------------------------------------------------
(* The jobs.                                                                   *)

RunMemory ==
  /\ memory' = [memory EXCEPT
       !.usage = CommitAttempt(@, ReadMemoryUsage(meminfo), memoryNow),
       !.swap = IF swapWanted THEN CommitAttempt(@, ReadSwapUsage(meminfo), memoryNow)
                ELSE NotRetained]
  /\ memoryShown' = [memoryShown EXCEPT
       !.usage = IF memory'.usage.latest = None THEN @ ELSE memory'.usage.latest,
       !.swap = memory'.swap.latest]
  /\ UNCHANGED <<meminfo, swapWanted, memoryNow>>

RunMemoryHistory(deadline) ==
  LET found == SampleAtOrBefore(memory.usage, deadline)
  IN  /\ found # None
      /\ memory' = [memory EXCEPT
           !.history = Trimmed(Append(@, [sample |-> found[1], due |-> deadline]), MemoryLength)]
      /\ memoryShown' = [memoryShown EXCEPT !.history = memory'.history]
      /\ UNCHANGED <<meminfo, swapWanted, memoryNow>>

(* The readings of the jobs that leave the demand are forgotten.               *)
InvalidateMemory(usage, history) ==
  /\ memory' = [usage |-> IF usage THEN NotRetained ELSE memory.usage,
                swap |-> IF usage THEN NotRetained ELSE memory.swap,
                history |-> IF history THEN <<>> ELSE memory.history]
  /\ memoryShown' = [usage |-> IF usage THEN None ELSE memoryShown.usage,
                     swap |-> IF usage THEN None ELSE memoryShown.swap,
                     history |-> IF history THEN <<>> ELSE memoryShown.history]
  /\ UNCHANGED <<meminfo, swapWanted, memoryNow>>

SwapDemand ==
  /\ swapWanted' = ~swapWanted
  /\ UNCHANGED <<meminfo, memory, memoryShown, memoryNow>>

MemoryTime(info) ==
  /\ memoryNow < MaxMemoryTime
  /\ memoryNow' = memoryNow + 1
  /\ meminfo' = info
  /\ UNCHANGED <<memory, memoryShown, swapWanted>>

MemoryNext ==
  \/ RunMemory
  \/ \E deadline \in 0..memoryNow : RunMemoryHistory(deadline)
  \/ \E usage, history \in BOOLEAN : (usage => history) /\ InvalidateMemory(usage, history)
  \/ SwapDemand
  \/ \E info \in MemInfos : MemoryTime(info)

MemorySpec == MemoryInit /\ [][MemoryNext]_memoryVars

------------------------------------------------------------------------------
(* The estimate is psutil's, which takes from each cache the lesser of half of *)
(* it and the watermark; here in halves, so that nothing is rounded early.     *)
PsutilAvailable(info) ==
  LET low == info.low[1]
      kept(cache) == 2 * cache - Least(cache, 2 * low)
  IN  TruncDiv2(2 * (info.free[1] - low) + kept(info.pagecache[1]) + kept(info.reclaimable[1]))

(* A percentage is the whole part of the nearest tenth, never beyond 0 to 100, *)
(* whatever the fields of the file say of one another; the estimate is the     *)
(* reference's; the swap on display is the retained one; and a point of the    *)
(* history was measured no later than its deadline.                            *)
MemoryHolds ==
  /\ None \notin {meminfo.total, meminfo.free, meminfo.pagecache, meminfo.reclaimable, meminfo.low} =>
       CalculateAvailable(meminfo) = PsutilAvailable(meminfo)
  /\ \A outcome \in {ReadMemoryUsage(meminfo), ReadSwapUsage(meminfo)} :
       outcome.kind = "Value" => outcome.value.percent \in 0..100
  /\ None \notin {meminfo.total, meminfo.free} /\ meminfo.total[1] > 0 =>
       LET total == meminfo.total[1]
           tenths == RoundHalfEven(1000 * MemoryUsed(meminfo), total)
       IN  2 * (tenths * total - 1000 * MemoryUsed(meminfo)) \in -total..total
  /\ memoryShown.usage # None => memoryShown.usage = memory.usage.latest
  /\ memoryShown.swap = memory.swap.latest
  /\ \A i \in DOMAIN memoryShown.history :
       memoryShown.history[i].sample.at <= memoryShown.history[i].due
=============================================================================
