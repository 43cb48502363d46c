---------------------------- MODULE ProcessSamples ----------------------------
(* The process owner: the shares of the processor, from the differences of    *)
(* two scans of /proc, for the panel and for the page.  A page that has no    *)
(* scan of its own starts from the panel's.  A scan is the instant it was     *)
(* made; a row set is the scan it was compared with and the instant the       *)
(* elapsed time was counted from.                                             *)
EXTENDS RetainedSamples

CONSTANTS
  MaxScanTime, MaxScanMoves  \* bounds of the clock and of the changes of demand

ASSUME ProcessAssumption == {MaxScanTime, MaxScanMoves} \subseteq Nat

VARIABLES
  proc,        \* ProcessState of the worker
  procShown,   \* the owner's rows on display
  procWanted,  \* the jobs in demand: a subset of {"PanelProcesses", "PageProcesses"}
  procMoves,
  procNow,
  procGap      \* the last instant the counters were declared incomparable

processVars == <<proc, procShown, procWanted, procMoves, procNow, procGap>>

ProcessJob == {"PanelProcesses", "PageProcesses"}

NewProcessState ==
  [prev |-> None, prev_at |-> None, panel |-> NotRetained,
   page_prev |-> None, page_at |-> None, page |-> NotRetained]

ProcessInit ==
  /\ proc = NewProcessState
  /\ procShown = [top |-> None, full |-> None]
  /\ procWanted \in SUBSET ProcessJob
  /\ procMoves = 0
  /\ procNow = 0
  /\ procGap = 0

ResetPanel(s) == [s EXCEPT !.panel = NotRetained, !.prev = None, !.prev_at = None]

ResetPage(s) == [s EXCEPT !.page = NotRetained, !.page_prev = None, !.page_at = None]

(* The panel's scans are forgotten by any run of the owner once the panel     *)
(* does not demand them.                                                      *)
ReconcilePanel(s) == IF "PanelProcesses" \in procWanted THEN s ELSE ResetPanel(s)

------------------------------------------------------------------------------
(* The scans.  Rows are left when some process had a share worth listing: on  *)
(* the panel an idle process is dropped, on the page only one that is new.    *)

Rows(counters, counted) == Value([scan |-> counters[1], from |-> counted[1]])

NoTimeSince(at) == at # None /\ at[1] = procNow

ReadTopProcess(s, listed) ==
  IF s.prev # None /\ NoTimeSince(s.prev_at) THEN [state |-> s, outcome |-> Baseline]
  ELSE [state |-> [s EXCEPT !.prev = Some(procNow), !.prev_at = Some(procNow)],
        outcome |-> CASE s.prev = None -> Baseline
                      [] s.prev # None /\ listed -> Rows(s.prev, s.prev_at)
                      [] OTHER -> Absent]

AttemptProcess(s, readable, listed) ==
  LET scan == IF readable THEN ReadTopProcess(s, listed) ELSE [state |-> s, outcome |-> Failed]
  IN  [scan.state EXCEPT !.panel = CommitAttempt(@, scan.outcome, procNow)]

(* The instant the elapsed time of the page is counted from.                  *)
PageCountedFrom(s) == IF s.page_at # None THEN s.page_at ELSE s.prev_at

PageCounters(s) == IF s.page_prev # None THEN s.page_prev ELSE s.prev

ReadTopProcessPage(s, readable, listed) ==
  LET counters == PageCounters(s)
      counted  == PageCountedFrom(s)
      scanned  == [s EXCEPT !.page_prev = Some(procNow), !.page_at = Some(procNow)]
  IN  CASE ~readable -> [s EXCEPT !.page = RecordFailure(@)]
        [] readable /\ counters = None -> [scanned EXCEPT !.page = RecordBaseline(@)]
        [] readable /\ counters # None /\ NoTimeSince(counted) ->
             [s EXCEPT !.page = RecordBaseline(@)]
        [] OTHER ->
             [scanned EXCEPT !.page =
                CommitAttempt(@, IF listed THEN Rows(counters, counted) ELSE Absent, procNow)]

------------------------------------------------------------------------------
(* One run of each job; forgetting one; a resume.                             *)

RunPanelProcesses(readable, listed) ==
  /\ "PanelProcesses" \in procWanted
  /\ proc' = AttemptProcess(ReconcilePanel(proc), readable, listed)
  /\ LET sample == proc'.panel.latest
     IN  procShown' = IF sample = None THEN procShown ELSE [top |-> sample, full |-> sample]
  /\ UNCHANGED <<procWanted, procMoves, procNow, procGap>>

RunPageProcesses(readable, listed) ==
  /\ "PageProcesses" \in procWanted
  /\ proc' = ReadTopProcessPage(ReconcilePanel(proc), readable, listed)
  /\ procShown' = [procShown EXCEPT !.full = proc'.page.latest]
  /\ UNCHANGED <<procWanted, procMoves, procNow, procGap>>

InvalidateProcesses(kinds) ==
  LET panel == IF "PanelProcesses" \in kinds THEN ResetPanel(proc) ELSE proc
  IN  /\ proc' = IF "PageProcesses" \in kinds THEN ResetPage(panel) ELSE panel
      /\ procShown' = [top  |-> IF "PanelProcesses" \in kinds THEN None ELSE procShown.top,
                       full |-> IF "PageProcesses" \in kinds THEN None ELSE procShown.full]

ProcessDemand(wanted) ==
  /\ wanted # procWanted
  /\ procMoves < MaxScanMoves
  /\ procMoves' = procMoves + 1
  /\ procWanted' = wanted
  /\ InvalidateProcesses(procWanted \ wanted)
  /\ UNCHANGED <<procNow, procGap>>

(* After a resume every job in demand starts from a new baseline.             *)
ResetProcessBaselines(s) ==
  LET panel == IF "PanelProcesses" \in procWanted THEN [s EXCEPT !.prev = None, !.prev_at = None]
               ELSE s
  IN  IF "PageProcesses" \in procWanted
      THEN [panel EXCEPT !.page_prev = None, !.page_at = None] ELSE panel

ResumeProcesses ==
  /\ proc' = ResetProcessBaselines(proc)
  /\ procGap' = procNow
  /\ UNCHANGED <<procShown, procWanted, procMoves, procNow>>

ProcessTime ==
  /\ procNow < MaxScanTime
  /\ procNow' = procNow + 1
  /\ UNCHANGED <<proc, procShown, procWanted, procMoves, procGap>>

ProcessNext ==
  \/ \E readable, listed \in BOOLEAN :
       RunPanelProcesses(readable, listed) \/ RunPageProcesses(readable, listed)
  \/ \E wanted \in SUBSET ProcessJob : ProcessDemand(wanted)
  \/ ResumeProcesses
  \/ ProcessTime

ProcessSpec == ProcessInit /\ [][ProcessNext]_processVars

------------------------------------------------------------------------------
(* Shares are comparable: the counters a row set is compared with and the     *)
(* instant its elapsed time is counted from belong to one scan, whichever of  *)
(* the panel's and the page's was taken, and no scan from before a resume is  *)
(* compared with one after it.  The panel shows nothing that is not its own.  *)
ProcessesHold ==
  LET shown == {procShown.top[i] : i \in DOMAIN procShown.top}
               \cup {procShown.full[i] : i \in DOMAIN procShown.full}
  IN  /\ \A s \in Values(proc.panel) \cup Values(proc.page) \cup shown :
           /\ s.value.scan = s.value.from
           /\ s.value.scan < s.at
           /\ s.at > procGap => s.value.scan >= procGap
      /\ procShown.top # None => "PanelProcesses" \in procWanted
=============================================================================
