------------------------ MODULE SchedulerWakeProofs ------------------------
(* The timer and what its transitions show.  Sleeping until NextWake is safe: *)
(* dispatch leaves no candidate with a free owner behind, and whatever the    *)
(* clock could change is a deadline that NextWake counts.  A transition       *)
(* renders the tooltip and the panel once at most, and the timer moves every  *)
(* deadline it has handled past the present.  The display deadlines that pass *)
(* are counted once each, and the wait of a presented tooltip is answered.    *)
EXTENDS SchedulerOwnerProofs, WellFoundedInduction

-----------------------------------------------------------------------------
(* First elements.                                                            *)

(* A set of numbers has a least one.                                          *)
LEMMA LeastNumber ==
  ASSUME NEW S \in SUBSET Nat, S # {}
  PROVE  \E n \in S : \A m \in S : n <= m
<1> DEFINE R == {ss \in Nat \X Nat : ss[1] < ss[2]}
<1>1. IsWellFoundedOn(R, Nat)
  BY NatLessThanWellFounded, Zenon DEF OpToRel
<1>2. \A m, n \in Nat : <<m, n>> \in R <=> m < n
  OBVIOUS
<1> HIDE DEF R
<1>3. PICK n \in S : \A m \in S : <<m, n>> \notin R
  BY <1>1, WFMin
<1>4. ASSUME NEW m \in S
      PROVE  n <= m
  <2>1. <<m, n>> \notin R
    BY <1>3
  <2>2. ~(m < n)
    BY <1>2, <2>1
  <2> QED BY <2>2
<1> QED BY <1>4

(* Among candidates one is first in the order of dispatch.                    *)
LEMMA FirstCandidate ==
  ASSUME NEW s, IsState(s), NEW C \in SUBSET Candidates(s), C # {}
  PROVE  \E i \in C : \A k \in C : ~Before(s, k, i)
<1> DEFINE urgent(k) == ~s.first_paint_issued /\ s.jobs[k].spec.startup_panel
           since(k)  == s.jobs[k].pending_since
           U == IF \E k \in C : urgent(k) THEN {k \in C : urgent(k)} ELSE C
           Since == {since(k) : k \in U}
<1>1. \A k \in C : since(k) \in Nat /\ JobRank[k] \in Nat
  BY RuntimeOf, JobsAssumption DEF Candidates, JobRuntime, OptTime, None
<1>2. U # {} /\ U \subseteq C
  OBVIOUS
<1>3. Since \in SUBSET Nat /\ Since # {}
  BY <1>1, <1>2
<1>4. PICK n \in Since : \A m \in Since : n <= m
  <2> HIDE DEF Since
  <2> QED BY <1>3, LeastNumber
<1> DEFINE Ranks == {JobRank[k] : k \in {l \in U : since(l) = n}}
<1>5. Ranks \in SUBSET Nat /\ Ranks # {}
  BY <1>1, <1>2
<1>6. PICK r \in Ranks : \A m \in Ranks : r <= m
  <2> HIDE DEF Ranks
  <2> QED BY <1>5, LeastNumber
<1>7. PICK i \in U : since(i) = n /\ JobRank[i] = r
  OBVIOUS
<1>8. ASSUME NEW k \in C, Before(s, k, i)
      PROVE  FALSE
  <2>1. since(k) \in Nat /\ JobRank[k] \in Nat /\ since(i) \in Nat /\ JobRank[i] \in Nat
    BY <1>1, <1>2
  <2>2. urgent(k) => urgent(i)
    OBVIOUS
  <2>3. urgent(i) => urgent(k)
    BY <1>8, <2>2 DEF Before
  <2>4. k \in U
    BY <2>2, <2>3
  <2>5. n <= since(k)
    BY <1>4, <2>4
  <2>6. since(k) = n => r <= JobRank[k]
    BY <1>6, <2>4
  <2> HIDE DEF U, Since, Ranks
  <2> QED BY <1>7, <1>8, <2>1, <2>2, <2>3, <2>5, <2>6 DEF Before
<1> QED BY <1>2, <1>7, <1>8

-----------------------------------------------------------------------------
(* Dispatch leaves nobody waiting who could run.                              *)

LEMMA DispatchSettles ==
  ASSUME NEW s, Sound(s), s.lifecycle = "Running", s.awaiting_resume_inventory = 0
  PROVE  Chosen(Dispatch(s)) = {}
<1> DEFINE chosen == Chosen(s)
           Runs(o) == {RunOf(s, j) : j \in {k \in chosen : OwnerOf[k] = o}}
           f == [j \in DOMAIN s.jobs |->
                  IF j \in chosen
                  THEN [s.jobs[j] EXCEPT !.pending_since = None, !.pending_history = None,
                                         !.in_flight = {NewTicket(s, j)}]
                  ELSE s.jobs[j]]
           os == [o \in OwnerId |-> IF Runs(o) = {} THEN s.in_flight_owners[o]
                                    ELSE CHOOSE r \in Runs(o) : TRUE]
           u == Dispatch(s)
<1>1. IsState(s) /\ s.next_run_id >= 1
  BY DEF Sound, Owned
<1>2. /\ u.jobs = f /\ u.in_flight_owners = os /\ u.demand = s.demand /\ u.now = s.now
      /\ u.effective_presented = s.effective_presented /\ u.selected_page = s.selected_page
      /\ u.first_paint_issued = s.first_paint_issued
  BY <1>1 DEF Dispatch, IsState
<1> HIDE DEF u
<1>3. Jobs(u) = Jobs(s) /\ CurrentDemand(u) = CurrentDemand(s)
  BY <1>2 DEF Jobs, CurrentDemand
<1>4. ASSUME NEW j \in Jobs(s)
      PROVE  /\ j \notin chosen => u.jobs[j] = s.jobs[j]
             /\ u.jobs[j].has_sample = s.jobs[j].has_sample
             /\ u.jobs[j].spec = s.jobs[j].spec
             /\ j \in chosen => u.jobs[j].pending_since = None
  <2>1. s.jobs[j] \in JobRuntime
    BY <1>1, RuntimeOf
  <2>2. u.jobs[j] = IF j \in chosen
                    THEN [s.jobs[j] EXCEPT !.pending_since = None, !.pending_history = None,
                                           !.in_flight = {NewTicket(s, j)}]
                    ELSE s.jobs[j]
    BY <1>2 DEF Jobs
  <2> HIDE DEF chosen
  <2> QED BY <2>1, <2>2 DEF JobRuntime
<1> HIDE DEF f, chosen
<1>5. ASSUME NEW j \in Candidates(u)
      PROVE  j \in Candidates(s) \ chosen
  <2>1. j \in Jobs(s) /\ j \in CurrentDemand(s) /\ j \notin chosen
    BY <1>3, <1>4, <1>5 DEF Candidates
  <2>2. u.jobs[j] = s.jobs[j]
    BY <1>4, <2>1
  <2>3. IsHistory(s.jobs[j]) => SourceReady(s, s.jobs[j])
    BY <1>3, <1>4, <1>5, <2>2 DEF Candidates, SourceReady
  <2> QED BY <1>2, <1>5, <2>1, <2>2, <2>3 DEF Candidates
<1>6. ASSUME NEW j \in Chosen(u)
      PROVE  FALSE
  <2> DEFINE o == OwnerOf[j]
             C == {k \in Candidates(s) : OwnerOf[k] = o}
  <2>1. j \in Candidates(s) /\ j \in C /\ os[o] = 0 /\ o \in OwnerId
    BY <1>1, <1>2, <1>5, RuntimeOf, JobsAssumption DEF Chosen, Candidates
  <2>2. \A k \in chosen : RunOf(s, k) \in Nat /\ RunOf(s, k) >= s.next_run_id
    <3> SUFFICES ASSUME NEW k \in chosen
                 PROVE  RunOf(s, k) \in Nat /\ RunOf(s, k) >= s.next_run_id
      OBVIOUS
    <3> DEFINE n == Cardinality({l \in Chosen(s) : Before(s, l, k)})
    <3>1. n \in Nat
      BY <1>1, RunOfType, FS_Subset, FS_CardinalityType
    <3>2. RunOf(s, k) = s.next_run_id + n
      BY DEF RunOf
    <3> HIDE DEF n
    <3> QED BY <1>1, <3>1, <3>2 DEF IsState
  <2>3. Runs(o) = {}
    <3>1. \A r \in Runs(o) : r # 0
      BY <1>1, <2>2 DEF IsState
    <3> QED BY <2>1, <3>1
  <2>4. s.in_flight_owners[o] = 0 /\ \A k \in chosen : OwnerOf[k] # o
    BY <2>1, <2>3
  <2>5. PICK i \in C : \A k \in C : ~Before(s, k, i)
    BY <1>1, <2>1, FirstCandidate
  <2>6. i \in chosen
    BY <2>4, <2>5 DEF Chosen, chosen
  <2> QED BY <2>4, <2>5, <2>6
<1> QED BY <1>6 DEF u

-----------------------------------------------------------------------------
(* Before the next wake the clock changes nothing.                            *)

(* An accepted event has left nobody waiting who could run.                   *)
Settled(s) ==
  s.accepted /\ s.lifecycle = "Running" /\ s.awaiting_resume_inventory = 0 => Chosen(s) = {}

(* A dispatch of nothing.                                                     *)
LEMMA NothingToDispatch ==
  ASSUME NEW s, IsState(s), Chosen(s) = {}
  PROVE  Dispatch(s) = s
<1> DEFINE f == [j \in DOMAIN s.jobs |-> s.jobs[j]]
           os == [o \in OwnerId |-> s.in_flight_owners[o]]
           u == [s EXCEPT !.jobs = f, !.in_flight_owners = os, !.next_run_id = @ + 0,
                          !.actions = @ \cup {}]
<1>1. Cardinality(Chosen(s)) = 0
  BY FS_EmptySet
<1>2. Dispatch(s) = s \/ Dispatch(s) = u
  BY <1>1 DEF Dispatch
<1>3. f = s.jobs /\ os = s.in_flight_owners /\ s.next_run_id + 0 = s.next_run_id
  BY DEF IsState, IsJobMap
<1> HIDE DEF f, os
<1>4. u = s
  BY <1>3 DEF IsState
<1> QED BY <1>2, <1>4

(* NextWake is the first deadline it counts.                                  *)
LEMMA WakeIsLeast ==
  ASSUME NEW s, IsState(s)
  PROVE  LET all == Deadlines(s) \ {None}
         IN  /\ all \subseteq Nat
             /\ NextWake(s) # None =>
                  s.lifecycle = "Running" /\ NextWake(s) \in all
             /\ s.lifecycle = "Running" /\ s.awaiting_resume_inventory = 0 =>
                  \A d \in all : NextWake(s) # None /\ NextWake(s) <= d
<1> DEFINE all == Deadlines(s) \ {None}
<1>1. all \in SUBSET Nat
  <2>1. \A j \in Jobs(s) : Earlier(s.jobs[j].retry_due, s.jobs[j].nominal_due) \in OptTime
    BY RuntimeOf DEF JobRuntime, Earlier
  <2> QED BY <2>1 DEF Deadlines, IsState, OptTime
<1>2. NextWake(s) = IF s.lifecycle # "Running" \/ s.awaiting_resume_inventory # 0 \/ all = {}
                    THEN None ELSE CHOOSE m \in all : \A k \in all : m <= k
  BY DEF NextWake
<1>3. None \notin all
  OBVIOUS
<1> HIDE DEF all
<1>4. all # {} => \E n \in all : \A m \in all : n <= m
  BY <1>1, LeastNumber
<1> QED BY <1>1, <1>2, <1>3, <1>4 DEF all

(* No deadline that NextWake counts is due before it.                         *)
LEMMA NothingDue ==
  ASSUME NEW s, IsState(s), s.lifecycle = "Running", s.awaiting_resume_inventory = 0,
         NEW t \in Nat, NextWake(s) = None \/ t < NextWake(s)
  PROVE  \A d \in Deadlines(s) : ~Due(d, t)
<1> DEFINE all == Deadlines(s) \ {None}
<1>1. all \subseteq Nat /\ \A d \in all : NextWake(s) # None /\ NextWake(s) <= d
  BY WakeIsLeast
<1>2. NextWake(s) # None => NextWake(s) \in Nat
  BY WakeIsLeast
<1>3. \A d \in all : ~(d <= t)
  <2> HIDE DEF all
  <2> QED BY <1>1, <1>2
<1> QED BY <1>3 DEF Due

(* With nothing due the clock leaves the machine as it is.                    *)
LEMMA NothingElapses ==
  ASSUME NEW s, IsState(s), \A d \in Deadlines(s) : ~Due(d, s.now)
  PROVE  ProcessTime(s) = s
<1>1. /\ ~Due(s.next_display, s.now) /\ ~Due(s.first_paint_deadline, s.now)
      /\ ~Due(s.deactivation_deadline, s.now) /\ ~Due(s.activation_deadline, s.now)
  BY DEF Deadlines
<1>2. /\ ExpireDeactivation(s) = s /\ ExpireFirstPaint(s) = s
      /\ ExpireActivation(s) = s /\ ExpireDisplay(s) = s
  BY <1>1 DEF ExpireDeactivation, ExpireFirstPaint, ExpireActivation, ExpireDisplay
<1>3. ASSUME NEW j \in Jobs(s) \cap CurrentDemand(s)
      PROVE  DueRuntime(RetriedRuntime(s.jobs[j], s.now), SourceReady(s, s.jobs[j]), s.now)
               = s.jobs[j]
  <2>1. ~Due(Earlier(s.jobs[j].retry_due, s.jobs[j].nominal_due), s.now)
    BY DEF Deadlines
  <2>2. /\ s.jobs[j].retry_due \in OptTime /\ s.jobs[j].nominal_due \in OptTime
        /\ s.now \in Nat
    BY RuntimeOf DEF JobRuntime, IsState
  <2>3. ~Due(s.jobs[j].retry_due, s.now) /\ ~Due(s.jobs[j].nominal_due, s.now)
    BY <2>1, <2>2 DEF Due, Earlier, OptTime, None
  <2> QED BY <2>3 DEF RetriedRuntime, DueRuntime
<1> DEFINE f == [j \in DOMAIN s.jobs |->
                  IF j \in CurrentDemand(s)
                  THEN DueRuntime(RetriedRuntime(s.jobs[j], s.now),
                                  SourceReady(s, s.jobs[j]), s.now)
                  ELSE s.jobs[j]]
<1>4. f = s.jobs
  BY <1>3 DEF Jobs, IsState, IsJobMap
<1>5. MarkDueJobs(s) = [s EXCEPT !.jobs = f]
  BY DEF MarkDueJobs
<1> HIDE DEF f
<1>6. MarkDueJobs(s) = s
  BY <1>4, <1>5 DEF IsState
<1> QED BY <1>2, <1>6 DEF ProcessTime

(* Nor does it let a job start that could not before.                         *)
LEMMA SettledUntilWake ==
  ASSUME IsState(sched), Settled(sched), sched.accepted, sched.lifecycle = "Running",
         sched.awaiting_resume_inventory = 0, NEW t \in sched.now..MaxNow,
         NextWake(sched) = None \/ t < NextWake(sched)
  PROVE  Dispatch(ProcessTime(At(t))) = At(t)
<1> DEFINE a == At(t)
<1>1. t \in Nat /\ t >= sched.now /\ sched.now \in Nat
  BY BoundsAssumption DEF IsState
<1>2. /\ a.jobs = sched.jobs /\ a.demand = sched.demand /\ a.now = t
      /\ a.effective_presented = sched.effective_presented
      /\ a.selected_page = sched.selected_page
      /\ a.first_paint_issued = sched.first_paint_issued
      /\ a.first_paint_deadline = sched.first_paint_deadline
      /\ a.next_display = sched.next_display
      /\ a.deactivation_deadline = sched.deactivation_deadline
      /\ a.activation_deadline = sched.activation_deadline
      /\ a.in_flight_owners = sched.in_flight_owners
  BY DEF At, IsState
<1>3. IsState(a)
  BY <1>1 DEF At, IsState
<1> HIDE DEF a
<1>4. Jobs(a) = Jobs(sched) /\ CurrentDemand(a) = CurrentDemand(sched)
  BY <1>2 DEF Jobs, CurrentDemand
<1>5. Deadlines(a) = Deadlines(sched)
  BY <1>2, <1>4 DEF Deadlines
<1>6. \A d \in Deadlines(sched) : ~Due(d, t)
  BY <1>1, NothingDue
<1>7. ProcessTime(a) = a
  BY <1>2, <1>3, <1>5, <1>6, NothingElapses
<1>8. ASSUME NEW j \in Jobs(sched) \cap CurrentDemand(sched)
      PROVE  sched.jobs[j].retry_due # None => ~(sched.jobs[j].retry_due <= t)
  <2>1. ~Due(Earlier(sched.jobs[j].retry_due, sched.jobs[j].nominal_due), t)
    BY <1>6 DEF Deadlines
  <2>2. sched.jobs[j].retry_due \in OptTime /\ sched.jobs[j].nominal_due \in OptTime
    BY RuntimeOf DEF JobRuntime
  <2> QED BY <1>1, <2>1, <2>2 DEF Due, Earlier, OptTime, None
<1>9. Candidates(a) = Candidates(sched)
  <2>1. \A j \in Jobs(sched) : SourceReady(a, a.jobs[j]) <=> SourceReady(sched, sched.jobs[j])
    BY <1>2, <1>4 DEF SourceReady
  <2>2. ASSUME NEW j \in Jobs(sched) \cap CurrentDemand(sched)
        PROVE  sched.jobs[j].retry_due = None \/ sched.jobs[j].retry_due <= t
                 <=> sched.jobs[j].retry_due = None \/ sched.jobs[j].retry_due <= sched.now
    <3>1. sched.jobs[j].retry_due \in Int
      BY RuntimeOf DEF JobRuntime, OptTime, None
    <3> QED BY <1>1, <1>8, <3>1
  <2> QED BY <1>2, <1>4, <2>1, <2>2 DEF Candidates
<1>10. \A i, j : Before(a, i, j) <=> Before(sched, i, j)
  BY <1>2 DEF Before
<1>11. Chosen(a) = {}
  BY <1>2, <1>9, <1>10 DEF Chosen, Settled
<1> QED BY <1>3, <1>7, <1>11, NothingToDispatch DEF a

-----------------------------------------------------------------------------
(* Every accepted event ends in dispatch.                                     *)

SleepInv == OwnershipInv /\ Settled(sched)

LEMMA StepSettles ==
  ASSUME SleepInv, [Next]_sched
  PROVE  SleepInv'
<1>1. OwnershipInv' /\ Handled
  BY StepSound, StepHandled DEF SleepInv
<1>2. ASSUME NEW s, Sound(s), Accept(s)
      PROVE  Settled(sched')
  <2>1. /\ Dispatch(s).lifecycle = s.lifecycle
        /\ Dispatch(s).awaiting_resume_inventory = s.awaiting_resume_inventory
    BY <1>2 DEF Dispatch, Sound, IsState
  <2> QED BY <1>2, <2>1, DispatchSettles DEF Accept, Settled
<1>3. ~sched'.accepted => Settled(sched')
  BY DEF Settled
<1>4. UNCHANGED sched => Settled(sched')
  BY DEF SleepInv
<1>5. Settled(sched')
  BY <1>1, <1>2, <1>3, <1>4 DEF Handled, SleepInv
<1> QED BY <1>1, <1>5 DEF SleepInv

(* The daemon may sleep until NextWake: before it the clock neither changes   *)
(* the machine nor lets it start anything.                                    *)
THEOREM SleepingIsSafe == Spec => []SleepIsSafe
<1>1. Init => SleepInv
  <2>1. Init => sched.lifecycle = "Unstarted"
    BY DEF Init
  <2> QED BY <2>1, InitSound DEF SleepInv, Settled
<1>2. SleepInv /\ [Next]_sched => SleepInv'
  BY StepSettles
<1>3. SleepInv => SleepIsSafe
  BY SettledUntilWake DEF SleepInv, OwnershipInv, Sound, SleepIsSafe
<1> QED BY <1>1, <1>2, <1>3, PTL DEF Spec

-----------------------------------------------------------------------------
(* What a transition shows.                                                   *)

(* The fields that publication and its timing depend on.                      *)
Drawn(s) ==
  {"actions", "first_paint_issued", "first_paint_deadline", "next_display", "now",
   "display_interval", "lifecycle", "config_generation", "inventory_generation",
   "presented", "effective_presented"} \subseteq DOMAIN s

SamePace(s, u) ==
  /\ u.first_paint_issued = s.first_paint_issued
  /\ u.first_paint_deadline = s.first_paint_deadline
  /\ u.next_display = s.next_display /\ u.display_interval = s.display_interval
  /\ u.now = s.now /\ u.lifecycle = s.lifecycle
  /\ u.config_generation = s.config_generation
  /\ u.inventory_generation = s.inventory_generation
  /\ u.presented = s.presented
  /\ s.presented => u.effective_presented = s.effective_presented

(* From s to u nothing is published.                                          *)
Mute(s, u) == Drawn(u) /\ SamePace(s, u) /\ Publications(u) = Publications(s)

PanelPublications(s) == {a \in Publications(s) : a.panel}

(* The tooltip and the panel are rendered once at most.                       *)
Once(s) ==
  /\ \A a, b \in IssuedTooltips(s) : a = b
  /\ \A a, b \in PanelPublications(s) : a = b

(* So far there is a refresh of the tooltip at most.                          *)
Fresh(s) == \A a \in Publications(s) : ~a.panel /\ a.tooltip /\ a.reason = "TooltipRefresh"

(* A panel is published only where the display deadline has been passed.      *)
Paced(s) == Once(s) /\ (Fresh(s) \/ (s.first_paint_issued /\ ~Due(s.next_display, s.now)))

LEMMA MuteOnce ==
  ASSUME NEW s, NEW u, Mute(s, u)
  PROVE  /\ Once(s) => Once(u)
         /\ Fresh(s) => Fresh(u)
         /\ Paced(s) => Paced(u)
  BY DEF Mute, SamePace, Once, Fresh, Paced, PanelPublications, IssuedTooltips

LEMMA MuteTransitive ==
  ASSUME NEW s, NEW u, NEW v, Mute(s, u), Mute(u, v)
  PROVE  Mute(s, v)
  BY DEF Mute, SamePace

(* A publication of the tooltip adds one, or nothing.                         *)
LEMMA TooltipShows ==
  ASSUME NEW s, Drawn(s), NEW reason
  PROVE  LET u == PublishTooltip(s, reason)
         IN  /\ Drawn(u) /\ SamePace(s, u)
             /\ \/ Publications(u) = Publications(s)
                \/ /\ reason = "TooltipRefresh" => IssuedTooltips(s) = {}
                   /\ \E out : /\ out.reason = reason /\ ~out.panel /\ out.tooltip
                               /\ Counted(out) = 0
                               /\ Publications(u) = Publications(s) \cup {out}
<1> DEFINE u == PublishTooltip(s, reason)
           out == PublishAction(s.next_publication_id, reason, None, 0, FALSE,
                                TRUE /\ s.presented)
           n == [s EXCEPT !.actions = @ \cup {out},
                          !.panel_publications = IF FALSE THEN @ \cup {s.next_publication_id}
                                                 ELSE @,
                          !.next_publication_id = @ + 1]
<1>1. \/ u = s
      \/ (reason = "TooltipRefresh" => IssuedTooltips(s) = {}) /\ s.presented /\ u = n
  BY DEF PublishTooltip, IssuePublish
<1>2. /\ out.kind = "PublishDisplay" /\ out.reason = reason /\ ~out.panel
      /\ s.presented => out.tooltip
      /\ out.skipped = 0 /\ out.deadline = None
  BY DEF PublishAction
<1> HIDE DEF out, u
<1>5. Counted(out) = 0
  BY <1>2 DEF Counted
<1>3. Drawn(n) /\ SamePace(s, n) /\ Publications(n) = Publications(s) \cup {out}
  BY <1>2 DEF Drawn, SamePace, Publications
<1> HIDE DEF n
<1>4. Drawn(u) /\ SamePace(s, u)
  BY <1>1, <1>3 DEF SamePace
<1> QED BY <1>1, <1>2, <1>3, <1>4, <1>5 DEF u

(* A full publication adds one, or takes the place of a refresh.              *)
Refreshes(s) == {a \in IssuedTooltips(s) : a.reason = "TooltipRefresh"}

FullShown(s, u, out) ==
  /\ out.panel
  /\ \/ /\ out.tooltip => Refreshes(s) = {}
        /\ Publications(u) = Publications(s) \cup {out}
     \/ /\ out.tooltip
        /\ \E r \in Refreshes(s) : Publications(u) = (Publications(s) \ {r}) \cup {out}

Count(deadline, skipped) == skipped + IF deadline = None THEN 0 ELSE 1

LEMMA FullShows ==
  ASSUME NEW s, Drawn(s), NEW reason, reason # "TooltipRefresh", NEW deadline, NEW skipped
  PROVE  LET u == PublishFull(s, reason, deadline, skipped)
         IN  /\ Drawn(u) /\ SamePace(s, u)
             /\ \E out : /\ FullShown(s, u, out) /\ out.reason = reason
                         /\ Counted(out) = Count(deadline, skipped)
<1> DEFINE u == PublishFull(s, reason, deadline, skipped)
           tooltip == s.effective_presented /\ s.presented
           refresh == Refreshes(s)
           widened == CHOOSE a \in refresh : TRUE
           out(id) == PublishAction(id, reason, deadline, skipped, TRUE, tooltip)
           w == [s EXCEPT !.actions = (@ \ {widened}) \cup {out(widened.publication)},
                          !.panel_publications = @ \cup {widened.publication}]
           n == [s EXCEPT !.actions = @ \cup {out(s.next_publication_id)},
                  !.panel_publications = IF TRUE THEN @ \cup {s.next_publication_id} ELSE @,
                  !.next_publication_id = @ + 1]
<1>1. IF tooltip /\ refresh # {} THEN u = w ELSE u = n
  BY DEF PublishFull, IssuePublish, Refreshes
<1> DEFINE count == Count(deadline, skipped)
<1>2. \A id : /\ out(id).kind = "PublishDisplay" /\ out(id).panel
              /\ out(id).reason = reason /\ Counted(out(id)) = count
              /\ out(id).tooltip <=> tooltip
  <2> SUFFICES ASSUME NEW id
               PROVE  /\ out(id).kind = "PublishDisplay" /\ out(id).panel
                      /\ out(id).reason = reason /\ Counted(out(id)) = count
                      /\ out(id).tooltip <=> tooltip
    OBVIOUS
  <2>1. /\ out(id).kind = "PublishDisplay" /\ out(id).panel
        /\ out(id).reason = reason
        /\ out(id).skipped = skipped /\ out(id).deadline = deadline
    BY DEF PublishAction
  <2>2. out(id).tooltip <=> tooltip
    BY DEF PublishAction
  <2> HIDE DEF out
  <2>3. Counted(out(id)) = count
    BY <2>1 DEF Counted, Count
  <2> QED BY <2>1, <2>2, <2>3
<1> HIDE DEF count
<1>3. refresh # {} => widened \in refresh /\ widened \in Publications(s)
  BY DEF IssuedTooltips, Refreshes
<1> HIDE DEF out, refresh, widened, u
<1>4. /\ Drawn(n) /\ SamePace(s, n)
      /\ Publications(n) = Publications(s) \cup {out(s.next_publication_id)}
  BY <1>2 DEF Drawn, SamePace, Publications
<1>5. /\ Drawn(w) /\ SamePace(s, w)
      /\ Publications(w) = (Publications(s) \ {widened}) \cup {out(widened.publication)}
  BY <1>2 DEF Drawn, SamePace, Publications
<1> HIDE DEF n, w, tooltip
<1>6. Drawn(u) /\ SamePace(s, u)
  BY <1>1, <1>4, <1>5 DEF SamePace
<1>7. CASE tooltip /\ refresh # {}
  <2>1. Publications(u) = (Publications(s) \ {widened}) \cup {out(widened.publication)}
    BY <1>1, <1>5, <1>7
  <2> QED BY <1>2, <1>3, <1>6, <1>7, <2>1 DEF FullShown, refresh, count, u
<1>8. CASE ~(tooltip /\ refresh # {})
  <2>1. Publications(u) = Publications(s) \cup {out(s.next_publication_id)}
    BY <1>1, <1>4, <1>8
  <2>2. out(s.next_publication_id).tooltip => refresh = {}
    BY <1>2, <1>8
  <2> QED BY <1>2, <1>6, <2>1, <2>2 DEF FullShown, refresh, count, u
<1> QED BY <1>7, <1>8

(* One publication renders once, whatever it is.                              *)
LEMMA PublishOnce ==
  ASSUME NEW s, Drawn(s), NEW reason, NEW deadline, NEW skipped
  PROVE  LET t == PublishTooltip(s, reason)
             p == PublishFull(s, reason, deadline, skipped)
         IN  /\ Drawn(t) /\ SamePace(s, t)
             /\ Publications(s) = {} => Once(t)
             /\ reason # "TooltipRefresh" =>
                  /\ Drawn(p) /\ SamePace(s, p)
                  /\ Publications(s) = {} => Once(p)
<1>1. \A u, out : Publications(u) \subseteq {out} => Once(u)
  BY DEF Once, IssuedTooltips, PanelPublications
<1> DEFINE t == PublishTooltip(s, reason)
           p == PublishFull(s, reason, deadline, skipped)
<1>2. /\ Drawn(t) /\ SamePace(s, t)
      /\ Publications(s) = {} => \E out : Publications(t) \subseteq {out}
  BY TooltipShows
<1>3. ASSUME reason # "TooltipRefresh"
      PROVE  /\ Drawn(p) /\ SamePace(s, p)
             /\ Publications(s) = {} => \E out : Publications(p) \subseteq {out}
  <2>1. Drawn(p) /\ SamePace(s, p) /\ \E out : FullShown(s, p, out)
    BY <1>3, FullShows
  <2> HIDE DEF p
  <2> QED BY <2>1 DEF FullShown, Refreshes, IssuedTooltips
<1> HIDE DEF t, p
<1>4. Publications(s) = {} => Once(t)
  BY <1>1, <1>2
<1>5. reason # "TooltipRefresh" => (Publications(s) = {} => Once(p))
  BY <1>1, <1>3
<1> QED BY <1>2, <1>3, <1>4, <1>5 DEF t, p

(* A refresh of the tooltip is dropped beside another tooltip.                *)
LEMMA RefreshOnce ==
  ASSUME NEW s, Drawn(s), Paced(s)
  PROVE  Paced(PublishTooltip(s, "TooltipRefresh"))
<1> DEFINE u == PublishTooltip(s, "TooltipRefresh")
<1>1. SamePace(s, u)
  BY TooltipShows
<1>2. CASE Publications(u) = Publications(s)
  BY <1>1, <1>2
     DEF SamePace, Once, Fresh, Paced, PanelPublications, IssuedTooltips
<1>3. CASE Publications(u) # Publications(s)
  <2>1. PICK out : /\ IssuedTooltips(s) = {}
                   /\ out.reason = "TooltipRefresh" /\ ~out.panel /\ out.tooltip
                   /\ Publications(u) = Publications(s) \cup {out}
    BY <1>3, TooltipShows
  <2> HIDE DEF u
  <2>2. PanelPublications(u) = PanelPublications(s) /\ IssuedTooltips(u) = {out}
    BY <2>1 DEF PanelPublications, IssuedTooltips
  <2>3. Once(u) /\ (Fresh(s) => Fresh(u))
    BY <2>1, <2>2 DEF Paced, Once, Fresh
  <2> QED BY <1>1, <2>3 DEF Paced, SamePace, u
<1> HIDE DEF u
<1> QED BY <1>2, <1>3 DEF u

(* A full publication takes the refresh with it.                              *)
LEMMA FullOnce ==
  ASSUME NEW s, Drawn(s), Once(s), Fresh(s), NEW reason, reason # "TooltipRefresh",
         NEW deadline, NEW skipped
  PROVE  Once(PublishFull(s, reason, deadline, skipped))
<1> DEFINE u == PublishFull(s, reason, deadline, skipped)
           refresh == Refreshes(s)
<1>1. PICK out : FullShown(s, u, out)
  BY FullShows
<1>2. refresh = Publications(s) /\ \A a, b \in Publications(s) : a = b
  BY DEF Fresh, Once, IssuedTooltips, Refreshes
<1>3. \A a \in Publications(s) : ~a.panel
  BY DEF Fresh
<1> SUFFICES Once(u)
  OBVIOUS
<1> HIDE DEF u, refresh
<1>4. CASE (out.tooltip => refresh = {}) /\ Publications(u) = Publications(s) \cup {out}
  BY <1>1, <1>2, <1>3, <1>4 DEF FullShown, Once, PanelPublications, IssuedTooltips
<1>5. CASE \E r \in refresh : Publications(u) = (Publications(s) \ {r}) \cup {out}
  <2>1. Publications(u) = {out}
    BY <1>2, <1>5
  <2> QED BY <2>1 DEF Once, PanelPublications, IssuedTooltips
<1> QED BY <1>1, <1>4, <1>5 DEF FullShown, refresh

-----------------------------------------------------------------------------
(* Operators that show nothing.                                               *)

(* Runtimes are marked, cleared or anchored anew.                             *)
LEMMA MarkMute ==
  ASSUME NEW s, Drawn(s), NEW J
  PROVE  /\ Mute(s, s) /\ Mute(s, MarkJobs(s, J)) /\ Mute(s, MarkDueJobs(s))
         /\ Mute(s, RefreshAllDemanded(s)) /\ Mute(s, ReanchorFast(s))
  BY DEF Drawn, Mute, SamePace, Publications, MarkJobs, MarkDueJobs, RefreshAllDemanded,
         ReanchorFast

(* Cancelling reports runs, not publications.                                 *)
LEMMA CancelMute ==
  ASSUME NEW s, Drawn(s), NEW J, NEW reason
  PROVE  Mute(s, CancelRuns(s, J, reason)) /\ Mute(s, CancelAll(s, reason))
  BY DEF Drawn, Mute, SamePace, Publications, CancelRuns, CancelAll

(* replace_jobs.                                                              *)
LEMMA ReplaceJobsMute ==
  ASSUME NEW s, Drawn(s), NEW specs, NEW reason
  PROVE  Mute(s, ReplaceJobs(s, specs, reason))
<1> DEFINE c == CancelAll(s, reason)
           display == IF c.next_display = None THEN c.now + c.display_interval
                      ELSE c.next_display
           gone == Invalidated(c, specs)
           replaced == [c EXCEPT
             !.jobs = [j \in DOMAIN specs |->
                         IF j \in Jobs(c) THEN ReplacedRuntime(c, c.jobs[j], specs[j], display)
                         ELSE NewRuntime(specs[j], c.now, display)],
             !.actions = @ \cup gone,
             !.activation_waiting = @ \cap DOMAIN specs,
             !.first_paint_waiting = {}]
           blockers == FirstPaintBlockers(replaced)
           marked == MarkJobs(replaced, blockers)
           awaited == [marked EXCEPT !.first_paint_waiting = blockers]
<1>1. ReplaceJobs(s, specs, reason) = IF s.first_paint_issued THEN replaced ELSE awaited
  BY DEF ReplaceJobs
<1>2. Mute(s, c)
  BY CancelMute
<1>3. \A a \in gone : a.kind = "InvalidateJob"
  BY DEF Invalidated, Invalidate
<1> HIDE DEF c, display, gone
<1>4. Mute(s, replaced)
  BY <1>2, <1>3 DEF Drawn, Mute, SamePace, Publications
<1> HIDE DEF replaced, blockers
<1>5. Mute(replaced, marked)
  BY <1>4, MarkMute DEF Mute
<1> HIDE DEF marked
<1>6. Mute(s, awaited)
  BY <1>4, <1>5 DEF Drawn, Mute, SamePace, Publications
<1> QED BY <1>1, <1>4, <1>6

(* activate_jobs, with or without the wait for what it starts.                *)
LEMMA ActivateJobsMute ==
  ASSUME NEW s, Drawn(s), NEW before, NEW after, NEW track
  PROVE  Mute(s, ActivateJobs(s, before, after, track))
<1> SUFFICES ASSUME NEW J, NEW w, NEW d
             PROVE  Mute(s, [MarkJobs(s, J) EXCEPT !.activation_waiting = w,
                                                   !.activation_deadline = d])
  BY DEF ActivateJobs
<1> DEFINE m == MarkJobs(s, J)
<1>1. Mute(s, m)
  BY MarkMute
<1> HIDE DEF m
<1>2. Mute(s, [m EXCEPT !.activation_waiting = w, !.activation_deadline = d])
  BY <1>1 DEF Drawn, Mute, SamePace, Publications
<1> QED BY <1>2 DEF m

LEMMA ActivateTrackedMute ==
  ASSUME NEW s, Drawn(s), NEW before, NEW after
  PROVE  Mute(s, ActivateJobs(s, before, after, TRUE))
<1> DEFINE track == TRUE
<1> HIDE DEF track
<1>1. Mute(s, ActivateJobs(s, before, after, track))
  BY ActivateJobsMute
<1> QED BY <1>1 DEF track

(* Demand that ends, and demand that is looked at again.                      *)
LEMMA DemandMute ==
  ASSUME NEW s, Drawn(s), NEW before, NEW after, NEW cancelPageJobs
  PROVE  Mute(s, CancelDemandEnded(s, before, after)) /\ Mute(s, RefreshDemand(s, cancelPageJobs))
<1>1. \A J : Mute(s, CancelRuns(s, J, "DemandEnded"))
  BY CancelMute
<1>2. \A u, f : Drawn(u) => Mute(u, [u EXCEPT !.jobs = f])
  BY DEF Drawn, Mute, SamePace, Publications
<1>3. Mute(s, CancelDemandEnded(s, before, after))
  BY <1>1, <1>2 DEF CancelDemandEnded, Mute, SamePace
<1>4. Mute(s, RefreshDemand(s, cancelPageJobs))
  <2> DEFINE ended == IF cancelPageJobs THEN (Jobs(s) \cap PageWork) \ CurrentDemand(s) ELSE {}
             c == CancelRuns(s, ended, "DemandEnded")
             Lacking(rt) == ~IsHistory(rt) /\ rt.in_flight = {} /\ ~rt.has_sample
             f == [j \in DOMAIN c.jobs |->
                    IF j \notin CurrentDemand(s) THEN ClearPending(c.jobs[j])
                    ELSE IF Lacking(c.jobs[j]) THEN MarkPending(c.jobs[j], s.now) ELSE c.jobs[j]]
  <2>1. RefreshDemand(s, cancelPageJobs) = [c EXCEPT !.jobs = f]
    BY DEF RefreshDemand
  <2>2. Mute(s, c)
    BY <1>1
  <2> HIDE DEF c, f
  <2>3. Mute(c, [c EXCEPT !.jobs = f])
    BY <1>2, <2>2 DEF Mute
  <2> QED BY <2>1, <2>2, <2>3, MuteTransitive
<1> QED BY <1>3, <1>4

(* The answer of a worker, before what it completes.                          *)
LEMMA SettlingMute ==
  ASSUME NEW s, Drawn(s), NEW t, NEW completion, NEW ready
  PROVE  Mute(s, Settling(s, t, completion, ready)) /\ Mute(s, FinishCancellation(s, t))
<1> DEFINE r == Released(s, t, completion, ready)
<1>1. Mute(s, r)
  BY DEF Drawn, Mute, SamePace, Publications, Released
<1> HIDE DEF r
<1>2. Mute(r, InvalidateHistories(r, t.job))
  BY <1>1 DEF Drawn, Mute, SamePace, Publications, InvalidateHistories, Invalidate
<1>3. Mute(s, Settling(s, t, completion, ready))
  BY <1>1, <1>2, MuteTransitive DEF Settling, r
<1>4. Mute(s, FinishCancellation(s, t))
  BY DEF Drawn, Mute, SamePace, Publications, FinishCancellation
<1> QED BY <1>3, <1>4

(* Dispatch starts jobs.                                                      *)
LEMMA DispatchMute ==
  ASSUME NEW s, Drawn(s)
  PROVE  Mute(s, Dispatch(s))
<1> DEFINE runs == {[kind |-> "StartJob", ticket |-> NewTicket(s, j)] : j \in Chosen(s)}
           u == Dispatch(s)
<1>1. u = s \/ /\ DOMAIN u = DOMAIN s /\ SamePace(s, u) /\ u.actions = s.actions \cup runs
  BY DEF Dispatch, Drawn, SamePace
<1>2. \A a \in runs : a.kind = "StartJob"
  OBVIOUS
<1> HIDE DEF u, runs
<1>3. Mute(s, u)
  BY <1>1, <1>2, MarkMute DEF Drawn, Mute, Publications
<1> QED BY <1>3 DEF u

-----------------------------------------------------------------------------
(* The clock.                                                                 *)

(* The first paint is awaited until its deadline, which comes no later than   *)
(* the first display of a plan that displays no more often than that.         *)
Prompt(s) ==
  /\ s.first_paint_issued => s.first_paint_deadline = None
  /\ s.lifecycle = "Unstarted" => ~s.first_paint_issued
  /\ s.lifecycle # "Unstarted" =>
       \/ s.first_paint_issued
       \/ /\ s.first_paint_deadline # None
          /\ s.first_paint_deadline <= s.now + FIRST_PAINT_TIMEOUT
          /\ s.display_interval < FIRST_PAINT_TIMEOUT \/ s.first_paint_deadline <= s.next_display

LEMMA SamePacePrompt ==
  ASSUME NEW s, NEW u, SamePace(s, u)
  PROVE  Prompt(s) => Prompt(u)
  BY DEF SamePace, Prompt

(* The first paint moves the display deadline on and publishes all.           *)
LEMMA IssueFirstPaintPaced ==
  ASSUME NEW s, Drawn(s), NEW reason, reason # "TooltipRefresh"
  PROVE  LET u == IssueFirstPaint(s, reason)
         IN  /\ Drawn(u) /\ u.first_paint_issued
             /\ u.now = s.now /\ u.lifecycle = s.lifecycle
             /\ u.display_interval = s.display_interval
             /\ ~s.first_paint_issued => u.first_paint_deadline = None
             /\ s.first_paint_issued => u = s
             /\ Publications(s) = {} => Once(u)
             /\ Prompt(s) /\ s.lifecycle # "Unstarted" => Prompt(u)
             /\ IsState(s) /\ Paced(s) => Paced(u)
<1> DEFINE skipped == IF s.next_display = None THEN 0
                      ELSE DueIntervals(s.next_display, s.display_interval, s.now)
           painted == [s EXCEPT !.first_paint_issued = TRUE, !.first_paint_deadline = None,
                                !.first_paint_waiting = {}]
           shifted == [painted EXCEPT !.next_display =
                         AdvancePast(@, s.display_interval, s.now)]
           moved   == IF Due(s.next_display, s.now) THEN ReanchorFast(shifted) ELSE painted
           p == PublishFull(moved, reason, None, skipped)
           u == IssueFirstPaint(s, reason)
<1>1. u = IF s.first_paint_issued THEN s ELSE p
  BY DEF IssueFirstPaint
<1>3. /\ Drawn(painted) /\ Publications(painted) = Publications(s)
      /\ painted.first_paint_issued /\ painted.first_paint_deadline = None
      /\ painted.now = s.now /\ painted.lifecycle = s.lifecycle
      /\ painted.display_interval = s.display_interval /\ painted.next_display = s.next_display
  BY DEF Drawn, Publications
<1> HIDE DEF painted, skipped
<1>4. /\ Drawn(shifted) /\ Publications(shifted) = Publications(s)
      /\ shifted.first_paint_issued /\ shifted.first_paint_deadline = None
      /\ shifted.now = s.now /\ shifted.lifecycle = s.lifecycle
      /\ shifted.display_interval = s.display_interval
      /\ shifted.next_display = AdvancePast(s.next_display, s.display_interval, s.now)
  BY <1>3 DEF Drawn, Publications
<1> HIDE DEF shifted
<1>6. Mute(shifted, ReanchorFast(shifted))
  BY <1>4, MarkMute
<1>7. /\ Drawn(moved) /\ Publications(moved) = Publications(s)
      /\ moved.first_paint_issued /\ moved.first_paint_deadline = None
      /\ moved.now = s.now /\ moved.lifecycle = s.lifecycle
      /\ moved.display_interval = s.display_interval
      /\ IsState(s) => ~Due(moved.next_display, s.now)
  <2>1. CASE Due(s.next_display, s.now)
    <3>1. ASSUME IsState(s)
          PROVE  ~Due(AdvancePast(s.next_display, s.display_interval, s.now), s.now)
      <4> DEFINE a == AdvancePast(s.next_display, s.display_interval, s.now)
      <4>1. a \in Nat /\ s.now \in Nat /\ a > s.now
        BY <2>1, <3>1, AdvancePastGrid DEF Due, IsState, OptTime
      <4> HIDE DEF a
      <4>2. ~Due(a, s.now)
        BY <4>1 DEF Due
      <4> QED BY <4>2 DEF a
    <3> QED BY <1>4, <1>6, <2>1, <3>1 DEF Mute, SamePace
  <2>2. CASE ~Due(s.next_display, s.now)
    BY <1>3, <2>2
  <2> QED BY <2>1, <2>2
<1> HIDE DEF moved
<1>8. /\ Drawn(p) /\ SamePace(moved, p) /\ (Publications(moved) = {} => Once(p))
      /\ Once(moved) /\ Fresh(moved) => Once(p)
  BY <1>7, PublishOnce, FullOnce
<1> HIDE DEF p, u
<1>9. /\ Once(s) => Once(moved)
      /\ Fresh(s) => Fresh(moved)
  BY <1>7 DEF Once, Fresh, IssuedTooltips, PanelPublications
<1>10. CASE s.first_paint_issued
  <2>1. Publications(s) = {} => Once(s)
    BY DEF Once, IssuedTooltips, PanelPublications
  <2> QED BY <1>1, <1>10, <2>1 DEF u
<1>11. CASE ~s.first_paint_issued
  <2>1. Publications(s) = {} => Once(u)
    BY <1>1, <1>7, <1>8, <1>11
  <2>2. IsState(s) /\ Paced(s) => Paced(u)
    BY <1>1, <1>7, <1>8, <1>9, <1>11 DEF Paced, SamePace
  <2>3. /\ u.first_paint_issued /\ u.first_paint_deadline = None
        /\ u.now = s.now /\ u.lifecycle = s.lifecycle
        /\ u.display_interval = s.display_interval /\ Drawn(u)
    BY <1>1, <1>7, <1>8, <1>11 DEF SamePace
  <2>4. Prompt(s) /\ s.lifecycle # "Unstarted" => Prompt(u)
    BY <2>3 DEF Prompt
  <2> QED BY <1>11, <2>1, <2>2, <2>3, <2>4 DEF u
<1> QED BY <1>10, <1>11

(* The deadlines beside those of the display.                                 *)
SameWaits(s, u) ==
  /\ u.deactivation_deadline = s.deactivation_deadline
  /\ u.activation_deadline = s.activation_deadline

LEMMA SoundDrawn ==
  ASSUME NEW s, Sound(s)
  PROVE  Drawn(s)
  BY DEF Sound, IsState, Drawn

(* Publishing, marking and cancelling leave them.                             *)
LEMMA WaitsLeft ==
  ASSUME NEW s, {"deactivation_deadline", "activation_deadline"} \subseteq DOMAIN s
  PROVE  /\ \A reason : SameWaits(s, PublishTooltip(s, reason))
         /\ \A reason, deadline, skipped :
              SameWaits(s, PublishFull(s, reason, deadline, skipped))
         /\ \A reason : SameWaits(s, IssueFirstPaint(s, reason))
         /\ SameWaits(s, MarkDueJobs(s)) /\ SameWaits(s, RefreshDemand(s, TRUE))
         /\ SameWaits(s, Dispatch(s))
<1>1. \A u, v : SameWaits(s, u) /\ SameWaits(u, v) => SameWaits(s, v)
  BY DEF SameWaits
<1>2. ASSUME NEW u, {"deactivation_deadline", "activation_deadline"} \subseteq DOMAIN u
      PROVE  /\ \A reason : SameWaits(u, PublishTooltip(u, reason))
             /\ \A reason, deadline, skipped :
                  SameWaits(u, PublishFull(u, reason, deadline, skipped))
             /\ SameWaits(u, ReanchorFast(u))
             /\ {"deactivation_deadline", "activation_deadline"} \subseteq DOMAIN ReanchorFast(u)
  BY <1>2 DEF SameWaits, PublishTooltip, PublishFull, IssuePublish, ReanchorFast
<1>3. ASSUME NEW reason
      PROVE  SameWaits(s, IssueFirstPaint(s, reason))
  <2> DEFINE skipped == IF s.next_display = None THEN 0
                        ELSE DueIntervals(s.next_display, s.display_interval, s.now)
             painted == [s EXCEPT !.first_paint_issued = TRUE, !.first_paint_deadline = None,
                                  !.first_paint_waiting = {}]
             shifted == [painted EXCEPT !.next_display =
                           AdvancePast(@, s.display_interval, s.now)]
             moved   == IF Due(s.next_display, s.now) THEN ReanchorFast(shifted) ELSE painted
  <2>1. IssueFirstPaint(s, reason) = IF s.first_paint_issued THEN s
                                     ELSE PublishFull(moved, reason, None, skipped)
    BY DEF IssueFirstPaint
  <2>2. /\ SameWaits(s, painted) /\ SameWaits(s, shifted) /\ SameWaits(s, s)
        /\ {"deactivation_deadline", "activation_deadline"} \subseteq DOMAIN painted
        /\ {"deactivation_deadline", "activation_deadline"} \subseteq DOMAIN shifted
    BY DEF SameWaits
  <2> HIDE DEF painted, shifted, skipped
  <2>3. /\ SameWaits(s, moved)
        /\ {"deactivation_deadline", "activation_deadline"} \subseteq DOMAIN moved
    BY <1>1, <1>2, <2>2
  <2> HIDE DEF moved
  <2> QED BY <1>1, <1>2, <2>1, <2>2, <2>3
<1>4. SameWaits(s, MarkDueJobs(s)) /\ SameWaits(s, Dispatch(s))
  BY DEF SameWaits, MarkDueJobs, Dispatch
<1>5. SameWaits(s, RefreshDemand(s, TRUE))
  BY DEF SameWaits, RefreshDemand, CancelRuns
<1> QED BY <1>2, <1>3, <1>4, <1>5

(* Each deadline, once looked at, is past no longer; a panel is published     *)
(* only where the display deadline has moved on.                              *)
LEMMA ExpireDeactivationPaced ==
  ASSUME NEW s, Sound(s)
  PROVE  LET u == ExpireDeactivation(s)
         IN  /\ Sound(u) /\ Mute(s, u)
             /\ ~Due(u.deactivation_deadline, u.now)
<1> DEFINE u == ExpireDeactivation(s)
           cleared == [s EXCEPT !.deactivation_deadline = None]
           ended   == [cleared EXCEPT !.effective_presented = FALSE]
<1>1. IsState(s) /\ Drawn(s) /\ Sound(u)
  BY SoundDrawn, ExpireSound DEF Sound, Follows
<1>2. IF Due(s.deactivation_deadline, s.now)
      THEN u = IF s.presented THEN cleared ELSE RefreshDemand(ended, TRUE) ELSE u = s
  BY DEF ExpireDeactivation
<1>3. /\ Mute(s, cleared) /\ (~s.presented => Mute(s, ended) /\ Drawn(ended))
      /\ cleared.deactivation_deadline = None /\ ended.deactivation_deadline = None
      /\ {"deactivation_deadline", "activation_deadline"} \subseteq DOMAIN ended
  BY <1>1 DEF IsState, Drawn, Mute, SamePace, Publications
<1> HIDE DEF cleared, ended, u
<1>4. /\ ~s.presented => Mute(ended, RefreshDemand(ended, TRUE))
      /\ RefreshDemand(ended, TRUE).deactivation_deadline = None
  BY <1>3, DemandMute, WaitsLeft DEF Mute, SameWaits
<1>5. Mute(s, u)
  BY <1>1, <1>2, <1>3, <1>4, MuteTransitive, MarkMute
<1>6. ~Due(u.deactivation_deadline, u.now)
  BY <1>2, <1>3, <1>4, <1>5 DEF Due, Mute, SamePace
<1> QED BY <1>1, <1>5, <1>6 DEF u

LEMMA ExpireFirstPaintPaced ==
  ASSUME NEW s, Sound(s), Paced(s)
  PROVE  LET u == ExpireFirstPaint(s)
         IN  /\ Sound(u) /\ Paced(u) /\ SameWaits(s, u)
             /\ u.now = s.now /\ u.lifecycle = s.lifecycle
             /\ u.display_interval = s.display_interval
             /\ \/ u.first_paint_issued
                \/ SamePace(s, u) /\ ~Due(u.first_paint_deadline, u.now)
             /\ u.first_paint_issued =>
                  u.first_paint_deadline = None \/ u = s
<1> DEFINE u == ExpireFirstPaint(s)
           p == IssueFirstPaint(s, "FirstPaintTimeout")
<1>1. Sound(u) /\ IsState(s)
  BY ExpireSound DEF Follows, Sound
<1>2. u = IF Due(s.first_paint_deadline, s.now) THEN p ELSE s
  BY DEF ExpireFirstPaint
<1>3. /\ p.first_paint_issued /\ Paced(p)
      /\ p.now = s.now /\ p.lifecycle = s.lifecycle
      /\ p.display_interval = s.display_interval
      /\ p.first_paint_deadline = None \/ p = s
  BY <1>1, SoundDrawn, IssueFirstPaintPaced
<1>4. SameWaits(s, p) /\ SameWaits(s, s) /\ SamePace(s, s)
  BY <1>1, WaitsLeft DEF IsState, SameWaits, SamePace
<1> HIDE DEF u, p
<1> QED BY <1>1, <1>2, <1>3, <1>4 DEF u, Due

LEMMA ExpireActivationPaced ==
  ASSUME NEW s, Sound(s), Paced(s)
  PROVE  LET u == ExpireActivation(s)
         IN  /\ Sound(u) /\ Paced(u) /\ SamePace(s, u)
             /\ u.deactivation_deadline = s.deactivation_deadline
             /\ ~Due(u.activation_deadline, u.now)
<1> DEFINE u == ExpireActivation(s)
           ended == [s EXCEPT !.activation_deadline = None, !.activation_waiting = {}]
           p == PublishTooltip(ended, "TooltipRefresh")
<1>1. IsState(s) /\ Drawn(s) /\ Sound(u)
  BY SoundDrawn, ExpireSound DEF Sound, Follows
<1>2. u = IF Due(s.activation_deadline, s.now) THEN p ELSE s
  BY DEF ExpireActivation
<1>3. /\ Mute(s, ended) /\ ended.activation_deadline = None
      /\ ended.deactivation_deadline = s.deactivation_deadline
      /\ {"deactivation_deadline", "activation_deadline"} \subseteq DOMAIN ended
  BY <1>1 DEF IsState, Drawn, Mute, SamePace, Publications
<1> HIDE DEF ended, u
<1>4. Paced(p) /\ SamePace(ended, p) /\ SameWaits(ended, p)
  BY <1>3, MuteOnce, RefreshOnce, PublishOnce, WaitsLeft DEF Mute
<1>5. SamePace(s, u)
  BY <1>2, <1>3, <1>4 DEF Mute, SamePace
<1> QED BY <1>1, <1>2, <1>3, <1>4, <1>5 DEF SameWaits, SamePace, Due, u

LEMMA ExpireDisplayPaced ==
  ASSUME NEW s, Sound(s), Paced(s)
  PROVE  LET u == ExpireDisplay(s)
         IN  /\ Sound(u) /\ Paced(u) /\ SameWaits(s, u)
             /\ u.first_paint_issued = s.first_paint_issued
             /\ u.first_paint_deadline = s.first_paint_deadline
             /\ u.now = s.now /\ u.lifecycle = s.lifecycle
             /\ u.display_interval = s.display_interval
             /\ ~s.first_paint_issued => u.next_display = s.next_display
             /\ u.first_paint_issued => ~Due(u.next_display, u.now)
<1> DEFINE u == ExpireDisplay(s)
           skipped == SkippedIntervals(s.next_display, s.display_interval, s.now)
           p == PublishFull(s, "DisplayDeadline", s.next_display, skipped)
           next == AdvancePast(s.next_display, s.display_interval, s.now)
           m == [p EXCEPT !.next_display = AdvancePast(@, s.display_interval, s.now)]
<1>1. IsState(s) /\ Drawn(s) /\ Sound(u)
  BY SoundDrawn, ExpireSound DEF Sound, Follows
<1>2. u = IF s.first_paint_issued /\ Due(s.next_display, s.now) THEN m ELSE s
  BY DEF ExpireDisplay
<1>3. Drawn(p) /\ SamePace(s, p) /\ SameWaits(s, p) /\ (Once(s) /\ Fresh(s) => Once(p))
  BY <1>1, PublishOnce, FullOnce, WaitsLeft DEF IsState
<1>4. DOMAIN p = DOMAIN s
  BY DEF PublishFull, IssuePublish
<1> HIDE DEF u, p, skipped
<1>5. CASE s.first_paint_issued /\ Due(s.next_display, s.now)
  <2>1. /\ Publications(m) = Publications(p) /\ m.next_display = next
        /\ m.first_paint_issued = s.first_paint_issued
        /\ m.first_paint_deadline = s.first_paint_deadline
        /\ m.now = s.now /\ m.lifecycle = s.lifecycle
        /\ m.display_interval = s.display_interval /\ SameWaits(s, m)
    BY <1>1, <1>3, <1>4 DEF Drawn, SamePace, SameWaits, Publications, IsState
  <2>2. next \in Nat /\ s.now \in Nat /\ next > s.now
    BY <1>1, <1>5, AdvancePastGrid DEF Due, IsState, OptTime
  <2> HIDE DEF m, next
  <2>3. ~Due(m.next_display, m.now)
    BY <2>1, <2>2 DEF Due
  <2>4. Once(m)
    BY <1>3, <1>5, <2>1 DEF Paced, Once, IssuedTooltips, PanelPublications
  <2> QED BY <1>1, <1>2, <1>5, <2>1, <2>3, <2>4 DEF Paced, u
<1>6. CASE ~(s.first_paint_issued /\ Due(s.next_display, s.now))
  BY <1>1, <1>2, <1>6 DEF u, SameWaits
<1> QED BY <1>5, <1>6

(* The jobs that were due are due later.                                      *)
LEMMA MarkDueJobsLater ==
  ASSUME NEW s, Sound(s)
  PROVE  LET u == MarkDueJobs(s)
         IN  /\ Sound(u) /\ Mute(s, u) /\ SameWaits(s, u)
             /\ \A j \in Jobs(u) \cap CurrentDemand(u) :
                  ~Due(Earlier(u.jobs[j].retry_due, u.jobs[j].nominal_due), u.now)
<1> DEFINE u == MarkDueJobs(s)
           Later(rt) == DueRuntime(RetriedRuntime(rt, s.now), SourceReady(s, rt), s.now)
           f == [j \in DOMAIN s.jobs |->
                  IF j \in CurrentDemand(s)
                  THEN DueRuntime(RetriedRuntime(s.jobs[j], s.now),
                                  SourceReady(s, s.jobs[j]), s.now)
                  ELSE s.jobs[j]]
<1>1. IsState(s) /\ Drawn(s) /\ s.now \in Nat /\ Sound(u) /\ Mute(s, u) /\ SameWaits(s, u)
  BY SoundDrawn, MarkDueJobsSound, MarkMute, WaitsLeft DEF Sound, Follows, IsState
<1>2. /\ u.jobs = f /\ u.demand = s.demand /\ u.effective_presented = s.effective_presented
      /\ u.selected_page = s.selected_page
  BY <1>1 DEF MarkDueJobs, IsState
<1>3. Jobs(u) = Jobs(s) /\ CurrentDemand(u) = CurrentDemand(s)
  BY <1>2 DEF Jobs, CurrentDemand
<1>4. ASSUME NEW rt \in JobRuntime, NEW ready \in BOOLEAN
      PROVE  LET rv == DueRuntime(RetriedRuntime(rt, s.now), ready, s.now)
             IN  ~Due(Earlier(rv.retry_due, rv.nominal_due), s.now)
  <2> DEFINE re == RetriedRuntime(rt, s.now)
             rv == DueRuntime(re, ready, s.now)
             next == AdvancePast(re.nominal_due, re.spec.freshness, s.now)
  <2>1. re \in JobRuntime /\ ~Due(re.retry_due, s.now)
    BY <1>1, RetriedRuntimeType DEF RetriedRuntime, MarkPending, JobRuntime, Due
  <2> HIDE DEF re
  <2>2. rv \in JobRuntime
    BY <1>1, <2>1, DueRuntimeType
  <2>3. CASE ~Due(re.nominal_due, s.now)
    <3>1. rv = re
      BY <2>3 DEF DueRuntime
    <3> HIDE DEF rv
    <3> QED BY <2>1, <2>3, <3>1 DEF Earlier, rv, re
  <2>4. CASE Due(re.nominal_due, s.now)
    <3>1. re.nominal_due \in Nat /\ re.spec.freshness \in Nat \ {0}
      BY <2>1, <2>4 DEF Due, JobRuntime, JobSpec, OptTime
    <3>2. next \in Nat /\ next > s.now
      BY <1>1, <3>1, AdvancePastGrid
    <3> DEFINE last == LatestDueAtOrBefore(re.nominal_due, re.spec.freshness, s.now)
               marked == IF ~IsHistory(re) THEN MarkPending(re, s.now)
                         ELSE IF ready THEN MarkHistoryPending(re, last) ELSE re
    <3>3. /\ marked.retry_due = re.retry_due /\ marked.nominal_due = re.nominal_due
          /\ {"retry_due", "nominal_due"} \subseteq DOMAIN marked
      BY <2>1 DEF MarkPending, MarkHistoryPending, JobRuntime
    <3>4. rv = [marked EXCEPT !.nominal_due = AdvancePast(@, re.spec.freshness, s.now)]
      BY <2>4 DEF DueRuntime
    <3> HIDE DEF marked
    <3>5. rv.retry_due = re.retry_due /\ rv.nominal_due = next
      BY <3>3, <3>4
    <3> HIDE DEF rv, next
    <3>6. ~Due(rv.nominal_due, s.now) /\ ~Due(rv.retry_due, s.now)
      BY <1>1, <2>1, <3>2, <3>5 DEF Due
    <3> QED BY <3>6 DEF Earlier, rv, re
  <2> QED BY <2>3, <2>4
<1>5. ASSUME NEW j \in Jobs(u) \cap CurrentDemand(u)
      PROVE  ~Due(Earlier(u.jobs[j].retry_due, u.jobs[j].nominal_due), u.now)
  <2>1. s.jobs[j] \in JobRuntime /\ SourceReady(s, s.jobs[j]) \in BOOLEAN
    <3>1. \A k \in Jobs(s) : s.jobs[k] \in JobRuntime
      BY <1>1, RuntimeOf
    <3> QED BY <1>3, <3>1 DEF SourceReady, JobRuntime, Jobs
  <2>2. u.jobs[j] = DueRuntime(RetriedRuntime(s.jobs[j], s.now), SourceReady(s, s.jobs[j]), s.now)
    BY <1>2, <1>3 DEF Jobs
  <2>3. u.now = s.now
    BY <1>1 DEF Mute, SamePace
  <2> HIDE DEF u
  <2> QED BY <1>4, <2>1, <2>2, <2>3
<1> QED BY <1>1, <1>5

(* Nothing is past, the display perhaps before the first paint.               *)
OnTime(s) ==
  /\ ~Due(s.deactivation_deadline, s.now) /\ ~Due(s.activation_deadline, s.now)
  /\ ~Due(s.first_paint_deadline, s.now)
  /\ s.first_paint_issued => ~Due(s.next_display, s.now)
  /\ \A j \in Jobs(s) \cap CurrentDemand(s) :
       ~Due(Earlier(s.jobs[j].retry_due, s.jobs[j].nominal_due), s.now)

(* process_time looks at every deadline.                                      *)
LEMMA ElapsePaced ==
  ASSUME NEW s, Sound(s), Paced(s), Prompt(s), s.lifecycle # "Unstarted"
  PROVE  LET u == Elapse(s)
         IN  /\ Sound(u) /\ Drawn(u) /\ Paced(u) /\ Prompt(u) /\ u.lifecycle = s.lifecycle
             /\ s.lifecycle = "Running" => OnTime(u)
<1> DEFINE a == ExpireDeactivation(s)
           b == ExpireFirstPaint(a)
           c == ExpireActivation(b)
           d == ExpireDisplay(c)
           e == MarkDueJobs(d)
           u == Elapse(s)
<1>1. u = IF s.lifecycle = "Running" THEN e ELSE s
  BY DEF Elapse, ProcessTime
<1>2. /\ Sound(a) /\ Paced(a) /\ SamePace(s, a) /\ ~Due(a.deactivation_deadline, a.now)
  BY ExpireDeactivationPaced, MuteOnce DEF Mute
<1>3. Prompt(a) /\ a.lifecycle # "Unstarted"
  BY <1>2, SamePacePrompt DEF SamePace
<1> HIDE DEF a
<1>4. /\ Sound(b) /\ Paced(b) /\ SameWaits(a, b)
      /\ b.now = a.now /\ b.lifecycle = a.lifecycle /\ b.display_interval = a.display_interval
      /\ b.first_paint_issued \/ (SamePace(a, b) /\ ~Due(b.first_paint_deadline, b.now))
      /\ b.first_paint_issued => b.first_paint_deadline = None \/ b = a
  BY <1>2, ExpireFirstPaintPaced
<1> HIDE DEF b
<1>5. Prompt(b) /\ ~Due(b.first_paint_deadline, b.now)
  BY <1>3, <1>4 DEF Prompt, SamePace, Due
<1>6. /\ Sound(c) /\ Paced(c) /\ SamePace(b, c)
      /\ c.deactivation_deadline = b.deactivation_deadline
      /\ ~Due(c.activation_deadline, c.now)
  BY <1>4, ExpireActivationPaced
<1>7. Prompt(c)
  BY <1>5, <1>6, SamePacePrompt
<1> HIDE DEF c
<1>8. /\ Sound(d) /\ Paced(d) /\ SameWaits(c, d)
      /\ d.first_paint_issued = c.first_paint_issued
      /\ d.first_paint_deadline = c.first_paint_deadline
      /\ d.now = c.now /\ d.lifecycle = c.lifecycle
      /\ d.display_interval = c.display_interval
      /\ ~c.first_paint_issued => d.next_display = c.next_display
      /\ d.first_paint_issued => ~Due(d.next_display, d.now)
  BY <1>6, ExpireDisplayPaced
<1> HIDE DEF d
<1>9. Prompt(d)
  BY <1>7, <1>8 DEF Prompt, SamePace
<1>10. /\ Sound(e) /\ Mute(d, e) /\ SamePace(d, e) /\ SameWaits(d, e)
       /\ \A j \in Jobs(e) \cap CurrentDemand(e) :
            ~Due(Earlier(e.jobs[j].retry_due, e.jobs[j].nominal_due), e.now)
  BY <1>8, MarkDueJobsLater DEF Mute
<1>11. Paced(e) /\ Prompt(e) /\ Drawn(e)
  BY <1>8, <1>9, <1>10, MuteOnce, SamePacePrompt, SoundDrawn
<1> HIDE DEF e
<1>12. /\ ~Due(e.deactivation_deadline, e.now) /\ ~Due(e.activation_deadline, e.now)
       /\ ~Due(e.first_paint_deadline, e.now)
       /\ e.first_paint_issued => ~Due(e.next_display, e.now)
  BY <1>2, <1>4, <1>5, <1>6, <1>8, <1>10 DEF SameWaits, SamePace
<1>13. OnTime(e)
  BY <1>10, <1>12 DEF OnTime
<1>14. e.lifecycle = s.lifecycle
  BY <1>2, <1>4, <1>6, <1>8, <1>10 DEF SamePace
<1> QED BY <1>1, <1>10, <1>11, <1>13, <1>14, SoundDrawn

(* Dispatch leaves the deadlines alone.                                       *)
LEMMA DispatchOnTime ==
  ASSUME NEW s, Sound(s), OnTime(s)
  PROVE  OnTime(Dispatch(s))
<1> DEFINE u == Dispatch(s)
<1>1. IsState(s) /\ Mute(s, u) /\ SameWaits(s, u)
  BY SoundDrawn, DispatchMute, WaitsLeft DEF Sound, IsState
<1>2. /\ u.demand = s.demand /\ u.effective_presented = s.effective_presented
      /\ u.selected_page = s.selected_page
  BY <1>1 DEF Dispatch, IsState
<1>3. ASSUME NEW j \in Jobs(s)
      PROVE  /\ u.jobs[j].retry_due = s.jobs[j].retry_due
             /\ u.jobs[j].nominal_due = s.jobs[j].nominal_due
  <2>1. s.jobs[j] \in JobRuntime
    BY <1>1, RuntimeOf
  <2>2. \/ u.jobs[j] = s.jobs[j]
        \/ u.jobs[j] = [s.jobs[j] EXCEPT !.pending_since = None, !.pending_history = None,
                                         !.in_flight = {NewTicket(s, j)}]
    BY <1>1 DEF Dispatch, Jobs, IsState
  <2> HIDE DEF u
  <2> QED BY <2>1, <2>2 DEF JobRuntime
<1>4. Jobs(u) = Jobs(s)
  BY <1>1 DEF Dispatch, Jobs, IsState
<1> HIDE DEF u
<1>5. CurrentDemand(u) = CurrentDemand(s)
  BY <1>2 DEF CurrentDemand
<1>6. OnTime(u)
  BY <1>1, <1>3, <1>4, <1>5 DEF OnTime, Mute, SamePace, SameWaits
<1> QED BY <1>6 DEF u

-----------------------------------------------------------------------------
(* The display deadlines.                                                     *)

(* From the deadline n of a cadence of i, what u has published accounts for   *)
(* the distance that the deadline has moved.                                  *)
Tallied(n, i, u) ==
  /\ u.display_interval = i
  /\ \A a \in Publications(u) : a.reason = "TooltipRefresh" => Counted(a) = 0
  /\ \/ Counting(u) = {} /\ u.next_display = n
     \/ \E a \in Counting(u) : Counting(u) = {a} /\ u.next_display = n + i * Counted(a)

(* The clock and the cadence are numbers.                                     *)
Timed(s) == s.now \in Nat /\ s.next_display \in OptTime /\ s.display_interval \in Nat \ {0}

(* Passing the present moves a deadline by the intervals that have passed.    *)
LEMMA PassedIntervals ==
  ASSUME NEW n \in Nat, NEW i \in Nat \ {0}, NEW now \in Nat
  PROVE  /\ n <= now =>
              /\ SkippedIntervals(n, i, now) \in Nat
              /\ DueIntervals(n, i, now) = SkippedIntervals(n, i, now) + 1
              /\ AdvancePast(n, i, now) = n + i * (SkippedIntervals(n, i, now) + 1)
         /\ ~(n <= now) => DueIntervals(n, i, now) = 0
<1>1. ASSUME n <= now
      PROVE  /\ SkippedIntervals(n, i, now) \in Nat
             /\ DueIntervals(n, i, now) = SkippedIntervals(n, i, now) + 1
             /\ AdvancePast(n, i, now) = n + i * (SkippedIntervals(n, i, now) + 1)
  <2> DEFINE k == (now - n) \div i
  <2>1. k \in Nat
    BY <1>1
  <2>2. now = n => k = 0
    OBVIOUS
  <2>3. SatSub(now, n) = now - n
    BY <1>1 DEF SatSub
  <2>4. DueIntervals(n, i, now) = SkippedIntervals(n, i, now) + 1
    BY <1>1 DEF DueIntervals
  <2>5. /\ SkippedIntervals(n, i, now) = IF now <= n THEN 0 ELSE k
        /\ AdvancePast(n, i, now) = n + (k + 1) * i
    BY <2>3 DEF SkippedIntervals, AdvancePast
  <2> HIDE DEF k
  <2>6. SkippedIntervals(n, i, now) = k
    BY <1>1, <2>2, <2>5
  <2>7. (k + 1) * i = i * (k + 1)
    BY <2>1
  <2> QED BY <2>1, <2>4, <2>5, <2>6, <2>7
<1>2. ~(n <= now) => DueIntervals(n, i, now) = 0
  BY DEF DueIntervals
<1> QED BY <1>1, <1>2

(* What shows nothing accounts for nothing.                                   *)
LEMMA MuteTallies ==
  ASSUME NEW s, NEW u, Mute(s, u), NEW n, NEW i
  PROVE  /\ Tallied(n, i, s) => Tallied(n, i, u)
         /\ Timed(s) => Timed(u)
  BY DEF Mute, SamePace, Tallied, Counting, Timed

(* Nor does a tooltip.                                                        *)
LEMMA TooltipTallies ==
  ASSUME NEW s, Drawn(s), NEW reason, NEW n, NEW i, Tallied(n, i, s)
  PROVE  Tallied(n, i, PublishTooltip(s, reason))
<1> DEFINE u == PublishTooltip(s, reason)
<1>1. /\ SamePace(s, u)
      /\ \/ Publications(u) = Publications(s)
         \/ \E out : Counted(out) = 0 /\ Publications(u) = Publications(s) \cup {out}
  BY TooltipShows
<1> HIDE DEF u
<1>2. Counting(u) = Counting(s)
  BY <1>1 DEF Counting
<1>3. Tallied(n, i, u)
  BY <1>1, <1>2 DEF SamePace, Tallied
<1> QED BY <1>3 DEF u

(* A full publication that follows refreshes at most accounts for its own     *)
(* deadlines.                                                                 *)
LEMMA FullTallies ==
  ASSUME NEW s, Drawn(s), Fresh(s), NEW reason, reason # "TooltipRefresh",
         NEW deadline, NEW skipped, NEW n, NEW i, Tallied(n, i, s)
  PROVE  LET u == PublishFull(s, reason, deadline, skipped)
             c == Count(deadline, skipped)
         IN  /\ Drawn(u) /\ SamePace(s, u) /\ s.next_display = n
             /\ \A a \in Publications(u) : a.reason = "TooltipRefresh" => Counted(a) = 0
             /\ c = 0 => Counting(u) = {}
             /\ c # 0 => \E a \in Counting(u) : Counting(u) = {a} /\ Counted(a) = c
<1> DEFINE u == PublishFull(s, reason, deadline, skipped)
           c == Count(deadline, skipped)
<1>1. Drawn(u) /\ SamePace(s, u)
  BY FullShows
<1>2. PICK out : FullShown(s, u, out) /\ out.reason = reason /\ Counted(out) = c
  BY FullShows
<1> HIDE DEF u, c
<1>3. \A a \in Publications(s) : Counted(a) = 0
  BY DEF Tallied, Fresh
<1>4. s.next_display = n
  BY <1>3 DEF Tallied, Counting
<1>5. out \in Publications(u) /\ Publications(u) \subseteq Publications(s) \cup {out}
  BY <1>2 DEF FullShown
<1>6. \A a \in Publications(u) : a = out \/ Counted(a) = 0
  BY <1>3, <1>5
<1>7. \A a \in Publications(u) : a.reason = "TooltipRefresh" => Counted(a) = 0
  BY <1>2, <1>6
<1>8. c = 0 => Counting(u) = {}
  BY <1>2, <1>6 DEF Counting
<1>9. c # 0 => Counting(u) = {out} /\ Counted(out) = c
  BY <1>2, <1>5, <1>6 DEF Counting
<1> QED BY <1>1, <1>4, <1>7, <1>8, <1>9 DEF u, c

(* The first paint accounts for the deadlines that went by while it was       *)
(* awaited.                                                                   *)
LEMMA FirstPaintTallies ==
  ASSUME NEW s, Drawn(s), Timed(s), s.first_paint_issued \/ Fresh(s),
         NEW reason, reason # "TooltipRefresh", NEW n, NEW i, Tallied(n, i, s)
  PROVE  Tallied(n, i, IssueFirstPaint(s, reason))
<1> DEFINE skipped == IF s.next_display = None THEN 0
                      ELSE DueIntervals(s.next_display, s.display_interval, s.now)
           painted == [s EXCEPT !.first_paint_issued = TRUE, !.first_paint_deadline = None,
                                !.first_paint_waiting = {}]
           shifted == [painted EXCEPT !.next_display =
                         AdvancePast(@, s.display_interval, s.now)]
           moved   == IF Due(s.next_display, s.now) THEN ReanchorFast(shifted) ELSE painted
           p == PublishFull(moved, reason, None, skipped)
           u == IssueFirstPaint(s, reason)
<1>1. u = IF s.first_paint_issued THEN s ELSE p
  BY DEF IssueFirstPaint
<1> SUFFICES ASSUME ~s.first_paint_issued
             PROVE  Tallied(n, i, p)
  BY <1>1
<1>2. \A a \in Publications(s) : Counted(a) = 0
  BY DEF Tallied, Fresh
<1>3. s.next_display = n /\ s.display_interval = i
  BY <1>2 DEF Tallied, Counting
<1>4. /\ Drawn(painted) /\ Publications(painted) = Publications(s)
      /\ painted.next_display = n /\ painted.display_interval = i
  BY <1>3 DEF Drawn, Publications
<1> HIDE DEF painted
<1>5. /\ Drawn(shifted) /\ Publications(shifted) = Publications(s)
      /\ shifted.next_display = AdvancePast(n, i, s.now) /\ shifted.display_interval = i
  BY <1>3, <1>4 DEF Drawn, Publications
<1> HIDE DEF shifted
<1>6. Mute(shifted, ReanchorFast(shifted))
  BY <1>5, MarkMute
<1>7. /\ Drawn(moved) /\ Publications(moved) = Publications(s) /\ moved.display_interval = i
      /\ moved.next_display = IF Due(n, s.now) THEN AdvancePast(n, i, s.now) ELSE n
  BY <1>3, <1>4, <1>5, <1>6 DEF Mute, SamePace
<1>8. \/ skipped = 0 /\ moved.next_display = n
      \/ /\ skipped \in Nat /\ skipped # 0
         /\ moved.next_display = n + i * skipped
  <2>1. CASE n = None
    BY <1>3, <1>7, <2>1 DEF Due
  <2>2. CASE n # None
    <3>1. n \in Nat /\ i \in Nat \ {0} /\ s.now \in Nat
      BY <1>3, <2>2 DEF Timed, OptTime
    <3>2. skipped = DueIntervals(n, i, s.now)
      BY <1>3, <2>2
    <3> HIDE DEF moved, skipped
    <3>3. CASE n <= s.now
      <4> DEFINE k == SkippedIntervals(n, i, s.now)
      <4>1. k \in Nat /\ skipped = k + 1 /\ AdvancePast(n, i, s.now) = n + i * (k + 1)
        BY <3>1, <3>2, <3>3, PassedIntervals
      <4>2. moved.next_display = AdvancePast(n, i, s.now)
        BY <1>7, <2>2, <3>3 DEF Due
      <4> HIDE DEF k
      <4> QED BY <4>1, <4>2
    <3>4. CASE ~(n <= s.now)
      BY <1>7, <2>2, <3>1, <3>2, <3>4, PassedIntervals DEF Due
    <3> QED BY <3>3, <3>4
  <2> QED BY <2>1, <2>2
<1> HIDE DEF moved, skipped
<1>9. Fresh(moved) /\ Tallied(moved.next_display, i, moved)
  BY <1>2, <1>7 DEF Fresh, Tallied, Counting
<1>10. /\ SamePace(moved, p)
       /\ \A a \in Publications(p) : a.reason = "TooltipRefresh" => Counted(a) = 0
       /\ Count(None, skipped) = 0 => Counting(p) = {}
       /\ Count(None, skipped) # 0 =>
            \E a \in Counting(p) : Counting(p) = {a} /\ Counted(a) = Count(None, skipped)
  BY <1>7, <1>9, FullTallies
<1>11. Count(None, skipped) = skipped
  BY <1>8 DEF Count
<1> HIDE DEF p
<1>12. p.display_interval = i /\ p.next_display = moved.next_display
  BY <1>7, <1>10 DEF SamePace
<1> QED BY <1>8, <1>10, <1>11, <1>12 DEF Tallied

(* The display deadline accounts for itself and for those after it.           *)
LEMMA DisplayTallies ==
  ASSUME NEW s, IsState(s), Drawn(s), Paced(s), NEW n, NEW i, Tallied(n, i, s)
  PROVE  Tallied(n, i, ExpireDisplay(s))
<1> DEFINE skipped == SkippedIntervals(s.next_display, s.display_interval, s.now)
           p == PublishFull(s, "DisplayDeadline", s.next_display, skipped)
           next == AdvancePast(s.next_display, s.display_interval, s.now)
           m == [p EXCEPT !.next_display = AdvancePast(@, s.display_interval, s.now)]
           c == Count(s.next_display, skipped)
<1>1. ExpireDisplay(s) = IF s.first_paint_issued /\ Due(s.next_display, s.now) THEN m ELSE s
  BY DEF ExpireDisplay
<1> SUFFICES ASSUME Due(s.next_display, s.now)
             PROVE  Tallied(n, i, m)
  BY <1>1
<1>2. Fresh(s)
  BY DEF Paced
<1>3. /\ Drawn(p) /\ SamePace(s, p) /\ s.next_display = n
      /\ \A a \in Publications(p) : a.reason = "TooltipRefresh" => Counted(a) = 0
      /\ c # 0 => \E a \in Counting(p) : Counting(p) = {a} /\ Counted(a) = c
  <2> DEFINE reason == "DisplayDeadline"
             deadline == s.next_display
             u == PublishFull(s, reason, deadline, skipped)
             k == Count(deadline, skipped)
  <2>1. reason # "TooltipRefresh"
    OBVIOUS
  <2> HIDE DEF skipped, next, m, reason, deadline
  <2>2. /\ Drawn(u) /\ SamePace(s, u) /\ s.next_display = n
        /\ \A a \in Publications(u) : a.reason = "TooltipRefresh" => Counted(a) = 0
        /\ k # 0 => \E a \in Counting(u) : Counting(u) = {a} /\ Counted(a) = k
    BY <1>2, <2>1, FullTallies
  <2> QED BY <2>2 DEF reason, deadline
<1> HIDE DEF p
<1>4. /\ Publications(m) = Publications(p) /\ m.next_display = next
      /\ m.display_interval = s.display_interval
  BY <1>3 DEF Drawn, SamePace, Publications
<1> HIDE DEF m
<1>5. /\ n \in Nat /\ i \in Nat \ {0} /\ s.now \in Nat /\ n <= s.now /\ s.display_interval = i
      /\ n # None
  BY <1>3 DEF Due, IsState, OptTime, Tallied
<1>6. skipped \in Nat /\ next = n + i * (skipped + 1)
  BY <1>3, <1>5, PassedIntervals
<1> HIDE DEF skipped, next
<1>7. c = skipped + 1 /\ c # 0
  BY <1>3, <1>5, <1>6 DEF Count
<1> HIDE DEF c
<1>8. PICK a \in Counting(p) : Counting(p) = {a} /\ Counted(a) = c
  BY <1>3, <1>7
<1>9. Counting(m) = {a}
  BY <1>4, <1>8 DEF Counting
<1> QED BY <1>3, <1>4, <1>5, <1>6, <1>7, <1>8, <1>9 DEF Tallied

(* The clock accounts for the deadlines it passes.                            *)
LEMMA ElapseTallies ==
  ASSUME NEW s, Sound(s), Paced(s), NEW n, NEW i, Tallied(n, i, s)
  PROVE  Tallied(n, i, Elapse(s))
<1> DEFINE a == ExpireDeactivation(s)
           b == ExpireFirstPaint(a)
           ended == [b EXCEPT !.activation_deadline = None, !.activation_waiting = {}]
           c == ExpireActivation(b)
           d == ExpireDisplay(c)
           e == MarkDueJobs(d)
<1>1. Elapse(s) = IF s.lifecycle = "Running" THEN e ELSE s
  BY DEF Elapse, ProcessTime
<1>2. Sound(a) /\ Mute(s, a)
  BY ExpireDeactivationPaced
<1>3. Drawn(a) /\ IsState(a) /\ Paced(a) /\ Tallied(n, i, a)
  BY <1>2, MuteOnce, MuteTallies, SoundDrawn DEF Sound
<1> HIDE DEF a
<1>4. Sound(b) /\ Paced(b)
  BY <1>2, <1>3, ExpireFirstPaintPaced
<1>5. Tallied(n, i, b)
  BY <1>3, FirstPaintTallies DEF ExpireFirstPaint, Timed, IsState, Paced
<1> HIDE DEF b
<1>6. Sound(c) /\ Paced(c)
  BY <1>4, ExpireActivationPaced
<1>7. c \in {b, PublishTooltip(ended, "TooltipRefresh")}
  BY DEF ExpireActivation
<1>8. Drawn(b)
  BY <1>4, SoundDrawn
<1>9. Mute(b, ended)
  BY <1>8 DEF Drawn, Mute, SamePace, Publications
<1> HIDE DEF ended
<1>10. Drawn(ended) /\ Tallied(n, i, ended)
  BY <1>5, <1>9, MuteTallies DEF Mute
<1>11. Tallied(n, i, c)
  BY <1>5, <1>7, <1>10, TooltipTallies
<1> HIDE DEF c
<1>12. Sound(d) /\ Drawn(d) /\ Tallied(n, i, d)
  BY <1>6, <1>11, DisplayTallies, ExpireDisplayPaced, SoundDrawn DEF Sound
<1> HIDE DEF d
<1>13. Tallied(n, i, e)
  BY <1>12, MarkMute, MuteTallies
<1> QED BY <1>1, <1>13

-----------------------------------------------------------------------------
(* Handlers.                                                                  *)

(* A handler begins with nothing published, and ends tidy.                    *)
Blank(s) == Drawn(s) /\ Publications(s) = {} /\ Prompt(s) /\ s.lifecycle # "Unstarted"

Tidy(s) == Drawn(s) /\ Once(s) /\ Prompt(s)

(* So it is for one that begins at the display deadline n of a cadence of i,  *)
(* and leaves the cadence.                                                    *)
Clear(n, i, s) == Blank(s) /\ Timed(s) /\ s.next_display = n /\ s.display_interval = i

Booked(n, i, s) == Tidy(s) /\ Tallied(n, i, s)

LEMMA BlankPublishes ==
  ASSUME NEW s, Blank(s)
  PROVE  /\ Tidy(s) /\ Paced(s)
         /\ \A reason : Tidy(PublishTooltip(s, reason))
         /\ \A reason, deadline, skipped : reason # "TooltipRefresh" =>
              Tidy(PublishFull(s, reason, deadline, skipped))
         /\ \A reason : reason # "TooltipRefresh" => Tidy(IssueFirstPaint(s, reason))
<1>1. Tidy(s) /\ Paced(s)
  BY DEF Blank, Tidy, Paced, Once, Fresh, IssuedTooltips, PanelPublications
<1>2. ASSUME NEW reason
      PROVE  Tidy(PublishTooltip(s, reason))
  <2>1. LET t == PublishTooltip(s, reason) IN Drawn(t) /\ SamePace(s, t) /\ Once(t)
    <3> DEFINE t == PublishTooltip(s, reason)
    <3>1. Drawn(t) /\ SamePace(s, t) /\ \E out : Publications(t) \subseteq {out}
      BY TooltipShows DEF Blank
    <3> HIDE DEF t
    <3>2. Once(t)
      BY <3>1 DEF Once, IssuedTooltips, PanelPublications
    <3> QED BY <3>1, <3>2 DEF t
  <2> QED BY <2>1, SamePacePrompt DEF Tidy, Blank
<1>3. ASSUME NEW reason, NEW deadline, NEW skipped, reason # "TooltipRefresh"
      PROVE  Tidy(PublishFull(s, reason, deadline, skipped))
  <2>1. LET p == PublishFull(s, reason, deadline, skipped)
        IN  Drawn(p) /\ SamePace(s, p) /\ Once(p)
    BY <1>3, PublishOnce DEF Blank
  <2> QED BY <2>1, SamePacePrompt DEF Tidy, Blank
<1>4. ASSUME NEW reason, reason # "TooltipRefresh"
      PROVE  Tidy(IssueFirstPaint(s, reason))
  BY <1>4, IssueFirstPaintPaced DEF Tidy, Blank
<1> QED BY <1>1, <1>2, <1>3, <1>4

LEMMA MuteBlank ==
  ASSUME NEW s, NEW u, Mute(s, u)
  PROVE  /\ Blank(s) => Blank(u)
         /\ Tidy(s) => Tidy(u)
         /\ \A n, i : Clear(n, i, s) => Clear(n, i, u)
         /\ \A n, i : Booked(n, i, s) => Booked(n, i, u)
<1>1. /\ Blank(s) => Blank(u)
      /\ Tidy(s) => Tidy(u)
  BY MuteOnce, SamePacePrompt DEF Mute, SamePace, Blank, Tidy
<1>2. \A n, i : Clear(n, i, s) => Clear(n, i, u)
  BY <1>1, MuteTallies DEF Clear, Mute, SamePace
<1> QED BY <1>1, <1>2, MuteTallies DEF Booked

(* What it publishes in between is accounted for too.                         *)
LEMMA ClearPublishes ==
  ASSUME NEW n, NEW i, NEW s, Clear(n, i, s)
  PROVE  /\ Booked(n, i, s) /\ Drawn(s)
         /\ \A reason : Booked(n, i, PublishTooltip(s, reason))
         /\ \A reason : reason # "TooltipRefresh" =>
              /\ Booked(n, i, PublishFull(s, reason, None, 0))
              /\ Booked(n, i, IssueFirstPaint(s, reason))
<1>1. Drawn(s) /\ Timed(s) /\ Tallied(n, i, s) /\ Fresh(s)
  BY DEF Clear, Blank, Tallied, Counting, Fresh
<1>2. /\ Tidy(s)
      /\ \A reason : Tidy(PublishTooltip(s, reason))
      /\ \A reason : reason # "TooltipRefresh" =>
           Tidy(PublishFull(s, reason, None, 0)) /\ Tidy(IssueFirstPaint(s, reason))
  BY BlankPublishes DEF Clear
<1>3. ASSUME NEW reason
      PROVE  Tallied(n, i, PublishTooltip(s, reason))
  BY <1>1, TooltipTallies
<1>4. ASSUME NEW reason, reason # "TooltipRefresh"
      PROVE  Tallied(n, i, PublishFull(s, reason, None, 0))
  <2> DEFINE p == PublishFull(s, reason, None, 0)
  <2>1. /\ SamePace(s, p)
        /\ \A a \in Publications(p) : a.reason = "TooltipRefresh" => Counted(a) = 0
        /\ Count(None, 0) = 0 => Counting(p) = {}
    BY <1>1, <1>4, FullTallies
  <2>2. Count(None, 0) = 0
    BY DEF Count
  <2> HIDE DEF p
  <2>3. p.next_display = n /\ p.display_interval = i
    BY <2>1 DEF SamePace, Clear
  <2> QED BY <2>1, <2>2, <2>3 DEF Tallied, p
<1>5. ASSUME NEW reason, reason # "TooltipRefresh"
      PROVE  Tallied(n, i, IssueFirstPaint(s, reason))
  BY <1>1, <1>5, FirstPaintTallies
<1> QED BY <1>1, <1>2, <1>3, <1>4, <1>5 DEF Booked

(* startup.                                                                   *)
LEMMA StartTidy ==
  ASSUME NEW s, IsState(s), Prompt(s), s.lifecycle = "Unstarted", Publications(s) = {},
         NEW plan \in Plans
  PROVE  Tidy(Start(s, plan))
<1> DEFINE display == s.now + plan.display_interval
           jobs == [j \in DOMAIN plan.jobs |-> NewRuntime(plan.jobs[j], s.now, display)]
           started == [s EXCEPT
             !.lifecycle = "Running", !.config_generation = 1, !.inventory_generation = 1,
             !.display_interval = plan.display_interval, !.demand = plan.demand,
             !.next_display = display, !.first_paint_deadline = s.now + FIRST_PAINT_TIMEOUT,
             !.jobs = jobs]
           demanded == {j \in Jobs(started) \cap CurrentDemand(started) :
                          ~IsHistory(started.jobs[j])}
           waiting == {j \in demanded : StartupPanel(started.jobs[j])}
           marked  == MarkJobs(started, demanded)
           awaited == [marked EXCEPT !.first_paint_waiting = waiting]
<1>1. Start(s, plan) \in {awaited, IssueFirstPaint(awaited, "FirstPaintReady")}
  BY DEF Start, CompleteFirstPaint
<1>2. plan.display_interval \in Nat /\ s.now \in Nat /\ FIRST_PAINT_TIMEOUT \in Nat
  BY PlansAssumption, TimesAssumption DEF IsPlan, IsState
<1>3. /\ Drawn(started) /\ Publications(started) = {}
      /\ ~started.first_paint_issued /\ started.lifecycle = "Running"
      /\ started.display_interval = plan.display_interval
      /\ started.next_display = s.now + plan.display_interval /\ started.now = s.now
      /\ started.first_paint_deadline = s.now + FIRST_PAINT_TIMEOUT
  <2> HIDE DEF jobs
  <2> QED BY DEF Drawn, Publications, IsState, Prompt
<1> HIDE DEF started, demanded, waiting
<1>4. Blank(started)
  BY <1>2, <1>3 DEF Blank, Prompt, None
<1>5. Blank(marked)
  BY <1>4, MarkMute, MuteBlank DEF Blank
<1> HIDE DEF marked
<1>6. Blank(awaited)
  BY <1>5 DEF Blank, Drawn, Publications, Prompt
<1> HIDE DEF awaited
<1> QED BY <1>1, <1>6, BlankPublishes

(* reconfigure.                                                               *)
LEMMA ReconfigureTidy ==
  ASSUME NEW s, IsState(s), Blank(s), NEW plan \in Plans
  PROVE  /\ Tidy(Reconfigure(s, plan))
         /\ Reconfigure(s, plan).config_generation = s.config_generation + 1
<1> DEFINE adopted  == [s EXCEPT !.config_generation = @ + 1,
                                 !.display_interval = plan.display_interval,
                                 !.demand = plan.demand,
                                 !.next_display = s.now + plan.display_interval]
           replaced == ReplaceJobs(adopted, plan.jobs, "ConfigChanged")
           anchored == ReanchorFast(replaced)
           demanded == RefreshDemand(anchored, FALSE)
           marked   == MarkJobs(demanded, CurrentDemand(demanded) \cap Discovery)
<1>1. Reconfigure(s, plan) \in {marked, PublishFull(marked, "ConfigChanged", None, 0)}
  BY DEF Reconfigure
<1>2. /\ plan.display_interval \in Nat /\ s.now \in Nat /\ FIRST_PAINT_TIMEOUT \in Nat
      /\ s.first_paint_deadline \in Int
  BY PlansAssumption, TimesAssumption DEF IsPlan, IsState, OptTime, None
<1>3. /\ Drawn(adopted) /\ Publications(adopted) = {} /\ adopted.lifecycle = s.lifecycle
      /\ adopted.first_paint_issued = s.first_paint_issued
      /\ adopted.first_paint_deadline = s.first_paint_deadline
      /\ adopted.display_interval = plan.display_interval
      /\ adopted.next_display = s.now + plan.display_interval /\ adopted.now = s.now
      /\ adopted.config_generation = s.config_generation + 1
  BY DEF Blank, Drawn, Publications
<1> HIDE DEF adopted
<1>4. Blank(adopted)
  BY <1>2, <1>3 DEF Blank, Prompt
<1>5. Mute(adopted, replaced)
  BY <1>4, ReplaceJobsMute DEF Blank
<1> HIDE DEF replaced
<1>6. Mute(replaced, anchored)
  BY <1>5, MarkMute DEF Mute
<1> HIDE DEF anchored
<1>7. Mute(anchored, demanded)
  BY <1>6, DemandMute DEF Mute
<1> HIDE DEF demanded
<1>8. Mute(demanded, marked)
  BY <1>7, MarkMute DEF Mute
<1> HIDE DEF marked
<1>9. Mute(adopted, marked)
  BY <1>5, <1>6, <1>7, <1>8, MuteTransitive
<1>10. Blank(marked) /\ marked.config_generation = s.config_generation + 1
  BY <1>3, <1>4, <1>9, MuteBlank DEF Mute, SamePace
<1>11. "ConfigChanged" # "TooltipRefresh"
  OBVIOUS
<1>12. SamePace(marked, PublishFull(marked, "ConfigChanged", None, 0))
  BY <1>10, <1>11, PublishOnce DEF Blank
<1> QED BY <1>1, <1>10, <1>11, <1>12, BlankPublishes DEF SamePace

(* change_inventory publishes nothing.                                        *)
LEMMA ChangeInventoryMute ==
  ASSUME NEW s, Drawn(s), NEW plan, NEW acknowledged
  PROVE  LET adopted == [s EXCEPT !.inventory_generation = @ + 1, !.demand = plan.demand]
         IN  Drawn(adopted) /\ Mute(adopted, ChangeInventory(s, plan, acknowledged))
<1> DEFINE adopted  == [s EXCEPT !.inventory_generation = @ + 1, !.demand = plan.demand]
           replaced == ReplaceJobs(adopted, plan.jobs, "SourceReplaced")
           freed    == [replaced EXCEPT !.awaiting_resume_inventory = 0]
           resumes  == acknowledged = s.awaiting_resume_inventory /\ acknowledged # 0
           released == IF resumes THEN freed ELSE replaced
           active   == ActivateJobs(released, CurrentDemand(s), CurrentDemand(released),
                                    released.effective_presented)
           demanded == RefreshDemand(active, FALSE)
           u == ChangeInventory(s, plan, acknowledged)
<1>1. u \in {demanded, RefreshAllDemanded(demanded)}
  BY DEF ChangeInventory
<1> HIDE DEF u
<1>2. Drawn(adopted)
  BY DEF Drawn
<1> HIDE DEF adopted
<1>3. Mute(adopted, replaced)
  BY <1>2, ReplaceJobsMute
<1> HIDE DEF replaced
<1>4. Mute(adopted, released)
  BY <1>3 DEF Drawn, Mute, SamePace, Publications
<1> HIDE DEF released
<1>5. Mute(adopted, active)
  BY <1>4, ActivateJobsMute, MuteTransitive DEF Mute
<1> HIDE DEF active
<1>6. Mute(adopted, demanded)
  BY <1>5, DemandMute, MuteTransitive DEF Mute
<1> HIDE DEF demanded
<1>7. Mute(adopted, RefreshAllDemanded(demanded))
  BY <1>6, MarkMute, MuteTransitive DEF Mute
<1> QED BY <1>1, <1>2, <1>6, <1>7 DEF adopted, u

LEMMA ChangeInventoryTidy ==
  ASSUME NEW n, NEW i, NEW s, Clear(n, i, s), NEW plan, NEW acknowledged
  PROVE  Booked(n, i, ChangeInventory(s, plan, acknowledged))
<1> DEFINE adopted == [s EXCEPT !.inventory_generation = @ + 1, !.demand = plan.demand]
           u == ChangeInventory(s, plan, acknowledged)
<1>1. Clear(n, i, adopted) /\ Drawn(s)
  BY DEF Clear, Timed, Blank, Drawn, Publications, Prompt
<1>2. Mute(adopted, u)
  BY <1>1, ChangeInventoryMute
<1> HIDE DEF adopted, u
<1>3. Booked(n, i, u)
  BY <1>1, <1>2, MuteBlank, ClearPublishes
<1> QED BY <1>3 DEF u

(* rebuild_first_paint_blockers.                                              *)
LEMMA BlockersTidy ==
  ASSUME NEW n, NEW i, NEW s, Clear(n, i, s)
  PROVE  Booked(n, i, RebuildFirstPaintBlockers(s))
<1> DEFINE rebuilt == [s EXCEPT !.first_paint_waiting = FirstPaintBlockers(s)]
<1>1. Clear(n, i, rebuilt)
  BY DEF Clear, Timed, Blank, Drawn, Publications, Prompt
<1>2. RebuildFirstPaintBlockers(s) \in {s, rebuilt, IssueFirstPaint(rebuilt, "FirstPaintReady")}
  BY DEF RebuildFirstPaintBlockers
<1> HIDE DEF rebuilt
<1> QED BY <1>1, <1>2, ClearPublishes

(* change_demand and change_page.                                             *)
LEMMA ChangeDemandTidy ==
  ASSUME NEW n, NEW i, NEW s, Clear(n, i, s), NEW demand, NEW page
  PROVE  Booked(n, i, ChangeDemand(s, demand)) /\ Booked(n, i, ChangePage(s, page))
<1>1. ASSUME NEW u, Clear(n, i, u), NEW before, NEW after, NEW track
      PROVE  Clear(n, i, ActivateJobs(CancelDemandEnded(u, before, after), before, after, track))
  <2> DEFINE ended == CancelDemandEnded(u, before, after)
  <2>1. Clear(n, i, ended)
    BY <1>1, DemandMute, MuteBlank, ClearPublishes
  <2> HIDE DEF ended
  <2>2. Clear(n, i, ActivateJobs(ended, before, after, track))
    BY <2>1, ActivateJobsMute, MuteBlank, ClearPublishes
  <2> QED BY <2>2 DEF ended
<1>2. Booked(n, i, ChangeDemand(s, demand))
  <2> DEFINE before == CurrentDemand(s)
             moved  == [s EXCEPT !.demand = demand]
             after  == CurrentDemand(moved)
             active == ActivateJobs(CancelDemandEnded(moved, before, after), before, after,
                                    s.effective_presented)
             demanded == RefreshDemand(active, FALSE)
  <2>1. ChangeDemand(s, demand) = RebuildFirstPaintBlockers(demanded)
    BY DEF ChangeDemand
  <2>2. Clear(n, i, moved)
    BY DEF Clear, Timed, Blank, Drawn, Publications, Prompt
  <2> HIDE DEF moved, before, after
  <2>3. Clear(n, i, active)
    BY <1>1, <2>2
  <2> HIDE DEF active
  <2>4. Clear(n, i, demanded)
    BY <2>3, DemandMute, MuteBlank, ClearPublishes
  <2> HIDE DEF demanded
  <2> QED BY <2>1, <2>4, BlockersTidy
<1>3. Booked(n, i, ChangePage(s, page))
  <2> DEFINE before == CurrentDemand(s)
             moved  == [s EXCEPT !.selected_page = page]
             after  == CurrentDemand(moved)
             active == ActivateJobs(CancelDemandEnded(moved, before, after), before, after, TRUE)
  <2>1. ChangePage(s, page) \in {s, moved, active, PublishTooltip(active, "PageChanged")}
    BY DEF ChangePage
  <2>2. Clear(n, i, moved)
    BY DEF Clear, Timed, Blank, Drawn, Publications, Prompt
  <2> HIDE DEF moved, before, after
  <2>3. Clear(n, i, active)
    BY <1>1, <2>2
  <2> HIDE DEF active
  <2> QED BY <2>1, <2>2, <2>3, ClearPublishes
<1> QED BY <1>2, <1>3

(* The tooltip is presented, once more, or dismissed.                         *)
LEMMA PresentationTidy ==
  ASSUME NEW n, NEW i, NEW s, Clear(n, i, s)
  PROVE  /\ Booked(n, i, Present(s)) /\ Booked(n, i, Dismiss(s))
         /\ Booked(n, i, RefreshActivation(s))
<1>1. ASSUME NEW u, Clear(n, i, u)
      PROVE  Booked(n, i, RefreshActivation(u))
  <2> DEFINE amd == {j \in Jobs(u) : u.jobs[j].spec.amd \in WideAmd}
             waiting == u.activation_waiting \cup amd
             deadline == u.now + ACTIVATION_REFRESH_TIMEOUT
             m == MarkJobs(u, amd)
             marked == [m EXCEPT !.activation_waiting = waiting]
             awaited == [marked EXCEPT !.activation_deadline = deadline]
  <2>1. RefreshActivation(u) \in {marked, awaited, PublishTooltip(marked, "TooltipActivated")}
    BY DEF RefreshActivation
  <2>2. Clear(n, i, m)
    BY <1>1, MarkMute, MuteBlank, ClearPublishes
  <2> HIDE DEF m, waiting, deadline
  <2>3. Clear(n, i, marked) /\ Clear(n, i, awaited)
    BY <2>2 DEF Clear, Timed, Blank, Drawn, Publications, Prompt
  <2> HIDE DEF marked, awaited
  <2> QED BY <2>1, <2>3, ClearPublishes
<1>2. Booked(n, i, Present(s))
  <2> DEFINE shown  == [s EXCEPT !.presented = TRUE, !.deactivation_deadline = None,
                                 !.effective_presented = TRUE]
             hidden == Demanded(s.demand, FALSE, s.selected_page)
             woken  == ActivateJobs(shown, hidden, CurrentDemand(shown), TRUE)
             active == IF s.effective_presented THEN shown ELSE woken
  <2>1. Present(s) \in {active, RefreshActivation(active)}
    BY DEF Present
  <2>2. Clear(n, i, shown)
    BY DEF Clear, Timed, Blank, Drawn, Publications, Prompt
  <2> HIDE DEF shown, hidden
  <2>3. Clear(n, i, woken)
    BY <2>2, ActivateTrackedMute, MuteBlank, ClearPublishes
  <2> HIDE DEF woken
  <2>4. Clear(n, i, active)
    BY <2>2, <2>3
  <2> HIDE DEF active
  <2> QED BY <1>1, <2>1, <2>4, ClearPublishes
<1>3. Booked(n, i, Dismiss(s))
  <2> DEFINE d == Dismiss(s)
  <2>1. Clear(n, i, d)
    BY DEF Clear, Timed, Blank, Drawn, Publications, Prompt, Dismiss
  <2> HIDE DEF d
  <2> QED BY <2>1, ClearPublishes DEF d
<1> QED BY <1>1, <1>2, <1>3

(* resume, suspend and stop.                                                  *)
LEMMA LifecycleTidy ==
  ASSUME NEW s, IsState(s), Blank(s), NEW reason
  PROVE  /\ Tidy(ResumeRunning(s)) /\ Tidy(Stop(s, reason))
         /\ Tidy([CancelAll(s, reason) EXCEPT !.lifecycle = "Suspended"])
         /\ \A n, i : Clear(n, i, s) =>
              /\ Booked(n, i, Stop(s, reason))
              /\ Booked(n, i, [CancelAll(s, reason) EXCEPT !.lifecycle = "Suspended"])
<1>1. Tidy(ResumeRunning(s))
  <2> DEFINE running  == [s EXCEPT !.lifecycle = "Running",
                                   !.next_display = s.now + s.display_interval]
             anchored == ReanchorFast(running)
             u == ResumeRunning(s)
  <2>1. s.now \in Nat /\ s.display_interval \in Nat /\ s.first_paint_deadline \in Int
        /\ FIRST_PAINT_TIMEOUT \in Nat
    BY TimesAssumption DEF IsState, OptTime, None
  <2>2. /\ Drawn(running) /\ Publications(running) = {} /\ running.lifecycle = "Running"
        /\ running.first_paint_issued = s.first_paint_issued
        /\ running.first_paint_deadline = s.first_paint_deadline
        /\ running.display_interval = s.display_interval
        /\ running.next_display = s.now + s.display_interval /\ running.now = s.now
    BY DEF Blank, Drawn, Publications
  <2>3. Drawn(anchored) => /\ Drawn(u) /\ SamePace(anchored, u)
                           /\ Publications(u) = Publications(anchored)
    BY DEF Drawn, Publications, SamePace, ResumeRunning
  <2> HIDE DEF running, u
  <2>4. Blank(running)
    BY <2>1, <2>2 DEF Blank, Prompt
  <2>5. Blank(anchored)
    BY <2>4, MarkMute, MuteBlank DEF Blank
  <2>6. Blank(u)
    BY <2>3, <2>5, MuteBlank DEF Blank, Mute
  <2> QED BY <2>6, BlankPublishes DEF u
<1> DEFINE c == CancelAll(s, reason)
           suspended == [c EXCEPT !.lifecycle = "Suspended"]
           stopped == [c EXCEPT !.lifecycle = "Stopped",
                                !.actions = @ \cup {[kind |-> "Terminate"]}]
<1>2. Blank(c) /\ \A n, i : Clear(n, i, s) => Clear(n, i, c)
  BY CancelMute, MuteBlank DEF Blank
<1>3. suspended = [CancelAll(s, reason) EXCEPT !.lifecycle = "Suspended"]
      /\ stopped = Stop(s, reason)
  BY DEF Stop
<1> HIDE DEF c
<1>4. Blank(suspended) /\ Blank(stopped)
  BY <1>2 DEF Blank, Drawn, Publications, Prompt
<1>5. ASSUME NEW n, NEW i, Clear(n, i, c)
      PROVE  Clear(n, i, suspended) /\ Clear(n, i, stopped)
  <2>1. /\ Timed(suspended) /\ Timed(stopped)
        /\ suspended.next_display = c.next_display /\ stopped.next_display = c.next_display
        /\ suspended.display_interval = c.display_interval
        /\ stopped.display_interval = c.display_interval
    BY <1>5 DEF Clear, Blank, Drawn, Timed
  <2> HIDE DEF suspended, stopped
  <2> QED BY <1>4, <1>5, <2>1 DEF Clear
<1> HIDE DEF suspended, stopped
<1> QED BY <1>1, <1>2, <1>3, <1>4, <1>5, BlankPublishes, ClearPublishes

(* finish_job completes the first paint and the activation it was awaited by. *)
LEMMA FinishJobTidy ==
  ASSUME NEW s, Sound(s), Paced(s), Prompt(s), s.lifecycle # "Unstarted", NEW t \in Ticket,
         CurrentTicket(s, t), NEW completion \in Completions, NEW ready \in BOOLEAN
  PROVE  LET u == FinishJob(s, t, completion, ready)
         IN  Tidy(u) /\ \A n, i : Tallied(n, i, s) => Tallied(n, i, u)
<1> DEFINE m == Settling(s, t, completion, ready)
           p == CompleteFirstPaint(m)
           e == [p EXCEPT !.activation_deadline = None]
           r == PublishTooltip(e, "TooltipRefresh")
<1>1. FinishJob(s, t, completion, ready) \in {p, r}
  BY DEF FinishJob, Settling, Released, CompleteActivation
<1>2. Sound(m) /\ Mute(s, m)
  BY FinishJobSound, SettlingMute, SoundDrawn
<1>3. Paced(m) /\ Prompt(m) /\ m.lifecycle # "Unstarted" /\ IsState(m) /\ Drawn(m)
  BY <1>2, MuteOnce, SamePacePrompt, SoundDrawn DEF Mute, SamePace, Sound
<1> HIDE DEF m
<1>4. Paced(p) /\ Prompt(p) /\ Drawn(p)
  BY <1>3, IssueFirstPaintPaced DEF CompleteFirstPaint
<1>5. ASSUME NEW n, NEW i, Tallied(n, i, s)
      PROVE  Tallied(n, i, p)
  <2>1. Tallied(n, i, m) /\ Timed(m)
    BY <1>2, <1>3, <1>5, MuteTallies DEF Timed, IsState
  <2> QED BY <1>3, <2>1, FirstPaintTallies DEF CompleteFirstPaint, Paced
<1> HIDE DEF p
<1>6. Mute(p, e)
  BY <1>4 DEF Drawn, Mute, SamePace, Publications
<1> HIDE DEF e
<1>7. Paced(e) /\ Prompt(e) /\ Drawn(e)
  BY <1>4, <1>6, MuteOnce, SamePacePrompt DEF Mute
<1>8. Drawn(r) /\ Paced(r) /\ Prompt(r)
  BY <1>7, RefreshOnce, PublishOnce, SamePacePrompt
<1>9. ASSUME NEW n, NEW i, Tallied(n, i, s)
      PROVE  Tallied(n, i, p) /\ Tallied(n, i, r)
  <2>1. Tallied(n, i, p)
    BY <1>5, <1>9
  <2>2. Tallied(n, i, e)
    BY <1>6, <2>1, MuteTallies
  <2>3. Tallied(n, i, r)
    BY <1>7, <2>2, TooltipTallies
  <2> QED BY <2>1, <2>3
<1> HIDE DEF r
<1> QED BY <1>1, <1>4, <1>8, <1>9 DEF Tidy, Paced

-----------------------------------------------------------------------------
(* Steps of the machine.                                                      *)

RenderInv == OwnershipInv /\ Tidy(sched)

(* Nothing is shown before startup.                                           *)
LEMMA InitTidy == Init => RenderInv
<1>1. Init => Drawn(sched) /\ Publications(sched) = {} /\ Prompt(sched)
  BY DEF Init, Drawn, Publications, Prompt
<1>2. Publications(sched) = {} => Once(sched)
  BY DEF Once, IssuedTooltips, PanelPublications
<1> QED BY <1>1, <1>2, InitSound DEF RenderInv, Tidy

(* An event begins with nothing published.                                    *)
LEMMA AtBlank ==
  ASSUME RenderInv, NEW at \in Times
  PROVE  /\ Sound(At(at)) /\ IsState(At(at)) /\ At(at).lifecycle = sched.lifecycle
         /\ Active => /\ Blank(At(at))
                       /\ Clear(sched.next_display, sched.display_interval, At(at))
<1>1. Sound(At(at)) /\ At(at).lifecycle = sched.lifecycle
  BY AtSound DEF Follows, RenderInv
<1>2. IsState(sched) /\ Prompt(sched)
  BY DEF RenderInv, OwnershipInv, Sound, Tidy
<1> DEFINE a == At(at)
<1>3. at \in Nat /\ sched.now \in Nat /\ at >= sched.now
      /\ sched.first_paint_deadline \in Int /\ FIRST_PAINT_TIMEOUT \in Nat
  BY <1>2, TimesAssumption DEF Times, IsState, OptTime, None
<1>4. /\ Drawn(a) /\ a.actions = {} /\ a.now = at
      /\ a.first_paint_issued = sched.first_paint_issued
      /\ a.first_paint_deadline = sched.first_paint_deadline
      /\ a.next_display = sched.next_display /\ a.display_interval = sched.display_interval
  BY <1>2 DEF At, IsState, Drawn
<1>5. a.lifecycle = sched.lifecycle
  BY <1>1
<1> HIDE DEF a
<1>6. Prompt(a)
  BY <1>2, <1>3, <1>4, <1>5 DEF Prompt
<1>7. Active => Blank(a)
  BY <1>4, <1>5, <1>6 DEF Blank, Active, Publications
<1>8. Active => Clear(sched.next_display, sched.display_interval, a)
  BY <1>2, <1>3, <1>4, <1>7 DEF Clear, Timed, IsState
<1> QED BY <1>1, <1>7, <1>8 DEF Sound, a

(* Nothing of the clock's is left to do at the time of the state.             *)
Advanced(s) == s.lifecycle = "Running" => OnTime(s)

(* The timer shows each thing once, accounts for what it passes, and leaves   *)
(* nothing due.                                                               *)
LEMMA TimerRenders ==
  ASSUME RenderInv, TimeAdvanced
  PROVE  /\ Booked(sched.next_display, sched.display_interval, sched')
         /\ Advanced(sched')
<1>1. PICK at \in Times : Active /\ Accept(Elapse(At(at)))
  BY DEF TimeAdvanced
<1> DEFINE s == At(at)
           e == Elapse(s)
           n == sched.next_display
           i == sched.display_interval
<1>2. Sound(s) /\ Blank(s) /\ Clear(n, i, s)
  BY <1>1, AtBlank
<1> HIDE DEF s, n, i
<1>3. /\ Sound(e) /\ Drawn(e) /\ Paced(e) /\ Prompt(e) /\ e.lifecycle = s.lifecycle
      /\ s.lifecycle = "Running" => OnTime(e)
      /\ Tallied(n, i, e)
  BY <1>2, ElapsePaced, ElapseTallies, BlankPublishes, ClearPublishes DEF Blank, Booked
<1>4. sched' = Dispatch(e)
  BY <1>1 DEF Accept, s
<1> HIDE DEF e
<1>5. Mute(e, sched')
  BY <1>3, <1>4, DispatchMute
<1>6. Booked(n, i, sched')
  BY <1>3, <1>5, MuteBlank DEF Booked, Tidy, Paced
<1>7. Advanced(sched')
  BY <1>3, <1>4, <1>5, DispatchOnTime DEF Advanced, Mute, SamePace
<1> QED BY <1>6, <1>7 DEF n, i

(* A step that keeps the cadence of the display.                              *)
Cadenced ==
  /\ sched' # sched
  /\ sched.lifecycle = "Running" /\ sched'.config_generation = sched.config_generation

(* One step per event.                                                        *)
LEMMA StepTidy ==
  ASSUME RenderInv, [Next]_sched
  PROVE  /\ Tidy(sched')
         /\ Cadenced => Tallied(sched.next_display, sched.display_interval, sched')
<1> DEFINE n == sched.next_display
           i == sched.display_interval
<1> SUFFICES Tidy(sched') /\ (Cadenced => Booked(n, i, sched'))
  BY DEF Booked
<1>1. Sound(sched) /\ IsState(sched) /\ Tidy(sched)
  BY DEF RenderInv, OwnershipInv, Sound
<1> HIDE DEF n, i
<1>2. ASSUME NEW s, Tidy(s), Accept(s)
      PROVE  /\ Tidy(sched') /\ (Booked(n, i, s) => Booked(n, i, sched'))
             /\ sched'.config_generation = s.config_generation
  BY <1>2, DispatchMute, MuteBlank DEF Accept, Tidy, Mute, SamePace
<1>3. ASSUME NEW at \in Times, Active
      PROVE  /\ Sound(At(at)) /\ IsState(At(at)) /\ Blank(At(at)) /\ Clear(n, i, At(at))
             /\ Tidy(At(at)) /\ Booked(n, i, At(at))
             /\ At(at).config_generation = sched.config_generation
             /\ LET e == Elapse(At(at))
                IN  /\ Sound(e) /\ Drawn(e) /\ Paced(e) /\ Prompt(e) /\ Tidy(e)
                    /\ Booked(n, i, e) /\ e.lifecycle # "Unstarted"
  <2> DEFINE s == At(at)
             e == Elapse(s)
  <2>1. /\ Sound(s) /\ IsState(s) /\ Blank(s) /\ Clear(n, i, s)
        /\ s.config_generation = sched.config_generation
    BY <1>1, <1>3, AtBlank DEF n, i, At, IsState
  <2> HIDE DEF s
  <2>2. /\ Tidy(s) /\ Paced(s) /\ Prompt(s) /\ s.lifecycle # "Unstarted"
        /\ Booked(n, i, s)
    BY <2>1, BlankPublishes, ClearPublishes DEF Blank
  <2>3. /\ Sound(e) /\ Drawn(e) /\ Paced(e) /\ Prompt(e) /\ e.lifecycle = s.lifecycle
        /\ Tallied(n, i, e)
    BY <2>1, <2>2, ElapsePaced, ElapseTallies DEF Booked
  <2> HIDE DEF e
  <2>4. Tidy(e) /\ Booked(n, i, e)
    BY <2>3 DEF Tidy, Booked, Paced
  <2> QED BY <2>1, <2>2, <2>3, <2>4 DEF s, e
<1>4. CASE Startup
  <2>1. PICK plan \in Plans : Accept(Start(At(sched.now), plan)) /\ sched.lifecycle = "Unstarted"
    BY <1>4 DEF Startup
  <2> DEFINE s == At(sched.now)
  <2>2. IsState(s)
    BY <1>1, AtNow DEF TypeOK
  <2>3. /\ s.lifecycle = sched.lifecycle /\ s.actions = {}
        /\ s.first_paint_issued = sched.first_paint_issued
        /\ s.first_paint_deadline = sched.first_paint_deadline
    BY <1>1 DEF At, IsState
  <2> HIDE DEF s
  <2>4. Prompt(s) /\ Publications(s) = {} /\ s.lifecycle = "Unstarted"
    BY <1>1, <2>1, <2>3 DEF Tidy, Prompt, Publications
  <2>5. Tidy(Start(s, plan))
    BY <2>2, <2>4, StartTidy
  <2>6. ~Cadenced
    BY <2>1 DEF Cadenced
  <2> QED BY <1>2, <2>1, <2>5, <2>6 DEF s
<1>5. CASE TimeAdvanced
  BY <1>5, TimerRenders DEF n, i, Booked
<1>6. CASE ConfigChanged
  <2>1. PICK at \in Times, plan \in Plans : Active /\ Accept(Reconfigure(At(at), plan))
    BY <1>6 DEF ConfigChanged, Raised
  <2> DEFINE s == At(at)
             u == Reconfigure(s, plan)
  <2>2. IsState(s) /\ Blank(s) /\ s.config_generation = sched.config_generation
    BY <1>3, <2>1
  <2> HIDE DEF s
  <2>3. Tidy(u) /\ u.config_generation = s.config_generation + 1
    BY <2>2, ReconfigureTidy
  <2> HIDE DEF u
  <2>4. Tidy(sched') /\ sched'.config_generation = u.config_generation
    BY <1>2, <2>1, <2>3 DEF u, s
  <2>5. ~Cadenced
    BY <1>1, <2>2, <2>3, <2>4 DEF Cadenced, IsState
  <2> QED BY <2>4, <2>5
<1>7. CASE InventoryChanged
  BY <1>2, <1>3, <1>7, ChangeInventoryTidy DEF Booked, InventoryChanged, Raised
<1>8. CASE DemandChanged
  BY <1>2, <1>3, <1>8, ChangeDemandTidy DEF Booked, DemandChanged, Raised
<1>9. CASE TooltipPresented
  BY <1>2, <1>3, <1>9, PresentationTidy DEF Booked, TooltipPresented, Raised
<1>10. CASE TooltipReactivated
  BY <1>2, <1>3, <1>10, PresentationTidy DEF Booked, TooltipReactivated, Raised
<1>11. CASE SelectedPageChanged
  BY <1>2, <1>3, <1>11, ChangeDemandTidy DEF Booked, SelectedPageChanged, Raised
<1>12. CASE DisplayRefreshRequested
  BY <1>2, <1>3, <1>12, ClearPublishes DEF Booked, DisplayRefreshRequested, Raised
<1>13. CASE TooltipRefreshRequested
  BY <1>2, <1>3, <1>13, ClearPublishes DEF Booked, TooltipRefreshRequested, Raised
<1>14. CASE JobFinished
  <2>1. PICK at \in Times, t \in InFlight(sched), completion \in Outcomes, ready \in BOOLEAN :
          /\ sched.lifecycle = "Running"
          /\ \/ /\ CurrentTicket(Elapse(At(at)), t)
                /\ Accept(FinishJob(Elapse(At(at)), t, completion, ready))
             \/ Reject(Elapse(At(at)))
    BY <1>14 DEF JobFinished
  <2> DEFINE e == Elapse(At(at))
  <2>2. t \in Ticket /\ completion \in Completions
    BY <1>1, LiveTickets, PlansAssumption DEF Live, Sound
  <2>3. /\ Sound(e) /\ Drawn(e) /\ Paced(e) /\ Prompt(e) /\ Tidy(e) /\ Booked(n, i, e)
        /\ e.lifecycle # "Unstarted"
    BY <1>3, <2>1 DEF Active
  <2> HIDE DEF e
  <2>4. CurrentTicket(e, t) => Booked(n, i, FinishJob(e, t, completion, ready))
    BY <2>2, <2>3, FinishJobTidy DEF Booked
  <2>5. Mute(e, [e EXCEPT !.accepted = FALSE])
    BY <2>3 DEF Drawn, Mute, SamePace, Publications
  <2>6. Booked(n, i, [e EXCEPT !.accepted = FALSE])
    BY <2>3, <2>5, MuteBlank
  <2> QED BY <1>2, <2>1, <2>4, <2>6 DEF Reject, Booked, e
<1>15. CASE JobCancelled
  <2>1. PICK at \in Times, t \in sched.cancelling :
          Active /\ Accept(FinishCancellation(Elapse(At(at)), t))
    BY <1>15 DEF JobCancelled
  <2> DEFINE e == Elapse(At(at))
  <2>2. Drawn(e) /\ Booked(n, i, e)
    BY <1>3, <2>1
  <2> HIDE DEF e
  <2>3. Booked(n, i, FinishCancellation(e, t))
    BY <2>2, SettlingMute, MuteBlank
  <2> QED BY <1>2, <2>1, <2>3 DEF Booked, e
<1>16. CASE RefreshTriggered
  <2>1. PICK at \in Times, job \in Jobs(sched) :
          LET e == Elapse(At(at))
              wanted == {job} \cap CurrentDemand(e)
          IN  Active /\ (Accept(e) \/ Accept(MarkJobs(e, wanted)))
    BY <1>16 DEF RefreshTriggered, Raised
  <2> DEFINE e == Elapse(At(at))
             wanted == {job} \cap CurrentDemand(e)
  <2>2. Drawn(e) /\ Booked(n, i, e)
    BY <1>3, <2>1
  <2>3. Accept(e) \/ Accept(MarkJobs(e, wanted))
    BY <2>1
  <2> HIDE DEF e, wanted
  <2>4. Booked(n, i, MarkJobs(e, wanted))
    BY <2>2, MarkMute, MuteBlank
  <2> QED BY <1>2, <2>2, <2>3, <2>4 DEF Booked
<1>17. CASE PanelPublished
  <2>1. PICK at \in Times, publication \in sched.panel_publications :
          /\ Active
          /\ Accept([At(at) EXCEPT !.panel_publications = @ \ {publication},
                                   !.notifications_armed = TRUE])
    BY <1>17 DEF PanelPublished, Raised
  <2> DEFINE s == At(at)
             m == [s EXCEPT !.panel_publications = @ \ {publication},
                            !.notifications_armed = TRUE]
  <2>2. Booked(n, i, s)
    BY <1>3, <2>1
  <2> HIDE DEF s
  <2>3. Mute(s, m)
    BY <2>2 DEF Booked, Tidy, Drawn, Mute, SamePace, Publications
  <2>4. Booked(n, i, m)
    BY <2>2, <2>3, MuteBlank
  <2> QED BY <1>2, <2>1, <2>4 DEF Booked, m, s
<1>18. CASE Suspend
  <2>1. PICK at \in Times :
          /\ Active
          /\ \/ Accept([CancelAll(At(at), "Suspend") EXCEPT !.lifecycle = "Suspended"])
             \/ Accept(At(at))
    BY <1>18 DEF Suspend, Raised
  <2>2. Booked(n, i, [CancelAll(At(at), "Suspend") EXCEPT !.lifecycle = "Suspended"])
    BY <1>3, <2>1, LifecycleTidy
  <2> QED BY <1>2, <1>3, <2>1, <2>2 DEF Booked
<1>19. CASE Resume
  <2>1. PICK at \in Times :
          /\ Active
          /\ \/ sched.lifecycle # "Running" /\ Accept(ResumeRunning(At(at)))
             \/ Accept(At(at))
    BY <1>19 DEF Resume, Raised
  <2> QED BY <1>2, <1>3, <2>1, LifecycleTidy DEF Cadenced
<1>20. CASE Shutdown
  BY <1>2, <1>3, <1>20, LifecycleTidy DEF Shutdown, Raised, Booked
<1>21. CASE UNCHANGED sched
  BY <1>1, <1>21
     DEF Cadenced, Tidy, Drawn, Once, Prompt, Publications, IssuedTooltips, PanelPublications
<1> QED
  BY <1>4, <1>5, <1>6, <1>7, <1>8, <1>9, <1>10, <1>11, <1>12, <1>13, <1>14, <1>15, <1>16, <1>17,
     <1>18, <1>19, <1>20, <1>21 DEF Next

(* The step keeps the invariant, and the timer leaves nothing due.            *)
LEMMA StepRenders ==
  ASSUME RenderInv, [Next]_sched
  PROVE  RenderInv' /\ (TimeAdvanced => Advanced(sched'))
<1>1. RenderInv'
  BY StepTidy, StepSound DEF RenderInv
<1> QED BY <1>1, TimerRenders

(* One transition renders the tooltip once at most, and the panel once at     *)
(* most, whatever deadlines and completions coincide in it.                   *)
THEOREM RendersAtMostOnce == Spec => []RendersOnce
<1>1. Once(sched) => RendersOnce
  <2>1. \A S : (\A a, b \in S : a = b) => Cardinality(S) <= 1
    <3> SUFFICES ASSUME NEW S, \A a, b \in S : a = b
                 PROVE  Cardinality(S) <= 1
      OBVIOUS
    <3>1. CASE S = {}
      <4>1. Cardinality(S) = 0
        BY <3>1, FS_EmptySet
      <4> QED BY <4>1
    <3>2. CASE \E a : S = {a}
      <4>1. Cardinality(S) = 1
        BY <3>2, FS_Singleton
      <4> QED BY <4>1
    <3> QED BY <3>1, <3>2
  <2> QED BY <2>1 DEF Once, RendersOnce, IssuedTooltips, PanelPublications
<1>2. RenderInv => RendersOnce
  BY <1>1 DEF RenderInv, Tidy
<1>3. RenderInv /\ [Next]_sched => RenderInv'
  BY StepRenders
<1> QED BY <1>2, <1>3, InitTidy, PTL DEF Spec

(* While the cadence is not restarted, every display deadline is published or *)
(* counted as skipped exactly once: the distance the deadline moves in a step *)
(* is what one publication of the step accounts for.                          *)
THEOREM DeadlinesAreCounted == Spec => DisplayDeadlinesAccounted
<1>1. ASSUME RenderInv, [Next]_sched, sched' # sched
      PROVE  DeadlinesAccounted
  <2>1. Cadenced => Tallied(sched.next_display, sched.display_interval, sched')
    BY <1>1, StepTidy
  <2>2. sched.next_display + sched.display_interval * 0 = sched.next_display
    <3>1. sched.next_display \in Int /\ sched.display_interval \in Nat
      BY <1>1 DEF RenderInv, OwnershipInv, Sound, IsState, OptTime, None
    <3> QED BY <3>1
  <2> QED BY <1>1, <2>1, <2>2 DEF Cadenced, Tallied, DeadlinesAccounted
<1>2. RenderInv /\ [Next]_sched => RenderInv' /\ [DeadlinesAccounted]_sched
  BY <1>1, StepRenders
<1> QED BY <1>2, InitTidy, PTL DEF Spec, DisplayDeadlinesAccounted

(* Where nothing is due the next wake is in the future, but for the display   *)
(* deadline that waits for the first paint.                                   *)
LEMMA WakeIsLater ==
  ASSUME NEW s, IsState(s), Prompt(s), Advanced(s)
  PROVE  \/ NextWake(s) = None \/ NextWake(s) > s.now
         \/ NextWake(s) = s.next_display /\ PaintAwaited(s)
<1> SUFFICES ASSUME NextWake(s) # None, ~(NextWake(s) > s.now)
             PROVE  NextWake(s) = s.next_display /\ PaintAwaited(s)
  OBVIOUS
<1>1. /\ NextWake(s) \in Deadlines(s) \ {None}
      /\ s.lifecycle = "Running"
  BY WakeIsLeast
<1>2. OnTime(s)
  BY <1>1 DEF Advanced
<1>3. /\ s.now \in Nat /\ s.next_display \in OptTime /\ s.first_paint_deadline \in OptTime
      /\ s.activation_deadline \in OptTime /\ s.deactivation_deadline \in OptTime
      /\ s.display_interval \in Nat /\ FIRST_PAINT_TIMEOUT \in Nat
  BY TimesAssumption DEF IsState
<1>4. \A d \in Deadlines(s) \ {s.next_display} : d \in OptTime /\ ~Due(d, s.now)
  <2>1. \A j \in Jobs(s) : Earlier(s.jobs[j].retry_due, s.jobs[j].nominal_due) \in OptTime
    BY RuntimeOf DEF JobRuntime, Earlier
  <2> QED BY <1>2, <1>3, <2>1 DEF Deadlines, OnTime
<1>5. \A d \in Deadlines(s) \ {None, s.next_display} : d > s.now
  BY <1>3, <1>4 DEF Due, OptTime, None
<1>6. NextWake(s) = s.next_display /\ Due(s.next_display, s.now)
  BY <1>1, <1>3, <1>5 DEF Due, OptTime, None
<1>7. ~s.first_paint_issued
  BY <1>2, <1>6 DEF OnTime
<1>8. /\ s.first_paint_deadline # None /\ s.first_paint_deadline <= s.now + FIRST_PAINT_TIMEOUT
      /\ s.display_interval < FIRST_PAINT_TIMEOUT \/ s.first_paint_deadline <= s.next_display
  BY <1>1, <1>7 DEF Prompt
<1>9. s.now < s.first_paint_deadline
  BY <1>2, <1>3, <1>8 DEF OnTime, Due, OptTime, None
<1>10. s.display_interval < FIRST_PAINT_TIMEOUT
  BY <1>3, <1>6, <1>8, <1>9 DEF Due, OptTime, None
<1> QED BY <1>6, <1>7, <1>8, <1>9, <1>10 DEF PaintAwaited

(* After a timer event the next wake is in the future, for every plan; where  *)
(* a display interval is shorter than the first paint may take, a passed      *)
(* display deadline may remain, until the first paint and no longer.          *)
THEOREM WakingAdvances == Spec => WakeAdvances
<1>1. RenderInv /\ [Next]_sched =>
        RenderInv' /\ (TimeAdvanced =>
                         \/ NextWake(sched') = None \/ NextWake(sched') > sched'.now
                         \/ NextWake(sched') = sched'.next_display /\ PaintAwaited(sched'))
  BY StepRenders, WakeIsLater DEF RenderInv, OwnershipInv, Sound, Tidy
<1> QED BY <1>1, InitTidy, PTL DEF Spec, WakeAdvances

-----------------------------------------------------------------------------
(* The wait of the tooltip.                                                   *)

(* A presented tooltip is demanded.                                           *)
Looked(s) == s.presented => s.effective_presented

(* The fields of the wait.                                                    *)
Awaits(s) ==
  {"activation_deadline", "deactivation_deadline", "activation_waiting"} \subseteq DOMAIN s

Gazed(s) == Drawn(s) /\ Awaits(s)

(* From s to u a wait that ends is answered, and no answer is withdrawn.      *)
Answers(s, u) ==
  /\ Gazed(u)
  /\ u.presented = s.presented
  /\ s.presented => u.effective_presented = s.effective_presented
  /\ IssuedTooltips(s) # {} => IssuedTooltips(u) # {}
  /\ s.presented /\ s.activation_deadline # None /\ u.activation_deadline = None =>
       IssuedTooltips(u) # {}

(* From s to u nothing is published, and the wait goes on.                    *)
Still(s, u) == Mute(s, u) /\ Gazed(u) /\ u.activation_deadline = s.activation_deadline

LEMMA AnswersTransitive ==
  ASSUME NEW s, NEW u, NEW v, Answers(s, u), Answers(u, v)
  PROVE  Answers(s, v)
  BY DEF Answers

LEMMA StillAnswers ==
  ASSUME NEW s, NEW u, Still(s, u)
  PROVE  Answers(s, u)
  BY DEF Still, Mute, SamePace, Answers, IssuedTooltips

LEMMA StillTransitive ==
  ASSUME NEW s, NEW u, NEW v, Still(s, u), Still(u, v)
  PROVE  Still(s, v)
  BY MuteTransitive DEF Still

LEMMA StillOn ==
  ASSUME NEW s, NEW u, NEW v, Answers(s, u), Still(u, v)
  PROVE  Answers(s, v) /\ Gazed(v)
  BY StillAnswers, AnswersTransitive DEF Still

(* Operators that show nothing leave the wait.                                *)
LEMMA Stills ==
  ASSUME NEW s, Gazed(s)
  PROVE  /\ Still(s, s) /\ Still(s, MarkDueJobs(s)) /\ Still(s, ReanchorFast(s))
         /\ Still(s, Dispatch(s))
         /\ \A J : Still(s, MarkJobs(s, J))
         /\ \A J, reason : Still(s, CancelRuns(s, J, reason))
         /\ \A reason : Still(s, CancelAll(s, reason))
         /\ \A specs, reason : Still(s, ReplaceJobs(s, specs, reason))
         /\ \A b : Still(s, RefreshDemand(s, b))
         /\ \A before, after : Still(s, CancelDemandEnded(s, before, after))
         /\ \A t, completion, ready :
              Still(s, Settling(s, t, completion, ready)) /\ Still(s, FinishCancellation(s, t))
<1>1. Drawn(s)
  BY DEF Gazed
<1> DEFINE Waits(u) == Awaits(u) /\ u.activation_deadline = s.activation_deadline
<1>2. \A u : Mute(s, u) /\ Waits(u) => Still(s, u)
  BY DEF Still, Mute, Gazed
<1>3. /\ Waits(s) /\ Waits(MarkDueJobs(s)) /\ Waits(ReanchorFast(s)) /\ Waits(Dispatch(s))
      /\ \A J : Waits(MarkJobs(s, J))
  BY DEF Gazed, Awaits, MarkDueJobs, ReanchorFast, Dispatch, MarkJobs
<1>4. \A J, reason : Waits(CancelRuns(s, J, reason))
  BY DEF Gazed, Awaits, CancelRuns
<1>5. ASSUME NEW before, NEW after
      PROVE  Waits(CancelDemandEnded(s, before, after))
  BY <1>4 DEF CancelDemandEnded, Awaits
<1>6. ASSUME NEW b
      PROVE  Waits(RefreshDemand(s, b))
  BY <1>4 DEF RefreshDemand, Awaits
<1>7. ASSUME NEW t, NEW completion, NEW ready
      PROVE  Waits(Settling(s, t, completion, ready)) /\ Waits(FinishCancellation(s, t))
  BY DEF Gazed, Awaits, Settling, Released, InvalidateHistories, FinishCancellation
<1>8. ASSUME NEW specs, NEW reason
      PROVE  Waits(ReplaceJobs(s, specs, reason))
  BY <1>4 DEF Gazed, Awaits, ReplaceJobs, CancelAll, MarkJobs
<1> HIDE DEF Waits
<1>9. /\ Mute(s, s) /\ Mute(s, MarkDueJobs(s)) /\ Mute(s, ReanchorFast(s)) /\ Mute(s, Dispatch(s))
      /\ \A J : Mute(s, MarkJobs(s, J))
      /\ \A J, reason : Mute(s, CancelRuns(s, J, reason))
      /\ \A specs, reason : Mute(s, ReplaceJobs(s, specs, reason))
  BY <1>1, MarkMute, CancelMute, ReplaceJobsMute, DispatchMute
<1>10. /\ \A b : Mute(s, RefreshDemand(s, b))
       /\ \A before, after : Mute(s, CancelDemandEnded(s, before, after))
       /\ \A t, completion, ready :
            Mute(s, Settling(s, t, completion, ready)) /\ Mute(s, FinishCancellation(s, t))
  BY <1>1, DemandMute, SettlingMute
<1>11. \A reason : Still(s, CancelAll(s, reason))
  BY <1>2, <1>4, <1>9 DEF CancelAll
<1> QED BY <1>2, <1>3, <1>4, <1>5, <1>6, <1>7, <1>8, <1>9, <1>10, <1>11

(* Woken jobs may move the deadline of the wait.                              *)
LEMMA ActivateAwaits ==
  ASSUME NEW s, Gazed(s), NEW before, NEW after, NEW track
  PROVE  Awaits(ActivateJobs(s, before, after, track))
<1> SUFFICES ASSUME NEW J, NEW w, NEW d
             PROVE  Awaits([MarkJobs(s, J) EXCEPT !.activation_waiting = w,
                                                 !.activation_deadline = d])
  BY DEF ActivateJobs
<1> DEFINE m == MarkJobs(s, J)
<1>1. Awaits(m)
  BY Stills DEF Still, Gazed
<1> HIDE DEF m
<1>2. Awaits([m EXCEPT !.activation_waiting = w, !.activation_deadline = d])
  BY <1>1 DEF Awaits
<1> QED BY <1>2 DEF m

(* A publication answers; one of the tooltip to a presented tooltip always    *)
(* leaves one issued.                                                         *)
LEMMA TooltipAnswers ==
  ASSUME NEW s, Gazed(s), NEW reason
  PROVE  LET u == PublishTooltip(s, reason)
         IN  /\ Answers(s, u) /\ u.activation_deadline = s.activation_deadline
             /\ s.presented => IssuedTooltips(u) # {}
<1> DEFINE u == PublishTooltip(s, reason)
           out == PublishAction(s.next_publication_id, reason, None, 0, FALSE,
                                TRUE /\ s.presented)
           n == [s EXCEPT !.actions = @ \cup {out},
                          !.panel_publications = IF FALSE THEN @ \cup {s.next_publication_id}
                                                 ELSE @,
                          !.next_publication_id = @ + 1]
<1>1. \/ u = s /\ (s.presented => IssuedTooltips(s) # {})
      \/ s.presented /\ u = n
  BY DEF PublishTooltip, IssuePublish
<1>2. out.kind = "PublishDisplay" /\ (s.presented => out.tooltip)
  BY DEF PublishAction
<1> HIDE DEF out, u
<1>3. /\ Gazed(n) /\ n.presented = s.presented /\ n.effective_presented = s.effective_presented
      /\ n.activation_deadline = s.activation_deadline
      /\ Publications(n) = Publications(s) \cup {out}
  BY <1>2 DEF Gazed, Drawn, Awaits, Publications
<1> HIDE DEF n
<1>4. s.presented => IssuedTooltips(n) # {} /\ Answers(s, n)
  BY <1>2, <1>3 DEF Answers, IssuedTooltips
<1> QED BY <1>1, <1>3, <1>4 DEF Answers, u

LEMMA FullAnswers ==
  ASSUME NEW s, Gazed(s), NEW reason, reason # "TooltipRefresh", NEW deadline, NEW skipped
  PROVE  LET u == PublishFull(s, reason, deadline, skipped)
         IN  Answers(s, u) /\ u.activation_deadline = s.activation_deadline
<1> DEFINE u == PublishFull(s, reason, deadline, skipped)
<1>1. Drawn(s)
  BY DEF Gazed
<1>2. Drawn(u) /\ SamePace(s, u) /\ \E out : FullShown(s, u, out)
  BY <1>1, FullShows
<1>3. Awaits(u) /\ u.activation_deadline = s.activation_deadline
  BY DEF Gazed, Awaits, PublishFull, IssuePublish
<1> HIDE DEF u
<1>4. IssuedTooltips(s) # {} => IssuedTooltips(u) # {}
  BY <1>2 DEF FullShown, IssuedTooltips
<1> QED BY <1>2, <1>3, <1>4 DEF Answers, Gazed, SamePace, u

LEMMA FirstPaintAnswers ==
  ASSUME NEW s, Gazed(s), NEW reason, reason # "TooltipRefresh"
  PROVE  Answers(s, IssueFirstPaint(s, reason))
<1> DEFINE skipped == IF s.next_display = None THEN 0
                      ELSE DueIntervals(s.next_display, s.display_interval, s.now)
           painted == [s EXCEPT !.first_paint_issued = TRUE, !.first_paint_deadline = None,
                                !.first_paint_waiting = {}]
           shifted == [painted EXCEPT !.next_display =
                         AdvancePast(@, s.display_interval, s.now)]
           moved   == IF Due(s.next_display, s.now) THEN ReanchorFast(shifted) ELSE painted
           p == PublishFull(moved, reason, None, skipped)
<1>1. IssueFirstPaint(s, reason) = IF s.first_paint_issued THEN s ELSE p
  BY DEF IssueFirstPaint
<1> HIDE DEF skipped
<1>2. Answers(s, painted) /\ Gazed(painted)
  BY DEF Gazed, Drawn, Awaits, Answers, Publications, IssuedTooltips
<1> HIDE DEF painted
<1>3. Answers(painted, shifted) /\ Gazed(shifted)
  BY <1>2 DEF Gazed, Drawn, Awaits, Answers, Publications, IssuedTooltips
<1> HIDE DEF shifted
<1>4. Answers(shifted, ReanchorFast(shifted))
  BY <1>3, Stills, StillAnswers
<1>5. Answers(s, moved)
  BY <1>2, <1>3, <1>4, AnswersTransitive
<1> HIDE DEF moved
<1>6. Answers(moved, p)
  BY <1>5, FullAnswers DEF Answers
<1> HIDE DEF p
<1>7. Answers(s, s)
  BY Stills, StillAnswers
<1> QED BY <1>1, <1>5, <1>6, <1>7, AnswersTransitive

(* A wait that is given up is answered.                                       *)
LEMMA EndedAnswers ==
  ASSUME NEW s, Gazed(s), NEW waiting
  PROVE  LET ended == [s EXCEPT !.activation_deadline = None, !.activation_waiting = waiting]
             done  == [s EXCEPT !.activation_deadline = None]
         IN  /\ Answers(s, PublishTooltip(ended, "TooltipRefresh"))
             /\ Answers(s, PublishTooltip(done, "TooltipRefresh"))
<1> SUFFICES ASSUME NEW e, Gazed(e), e.presented = s.presented,
                    e.effective_presented = s.effective_presented,
                    Publications(e) = Publications(s)
             PROVE  Answers(s, PublishTooltip(e, "TooltipRefresh"))
  BY DEF Gazed, Drawn, Awaits, Publications
<1> DEFINE u == PublishTooltip(e, "TooltipRefresh")
<1>1. Answers(e, u) /\ (e.presented => IssuedTooltips(u) # {})
  BY TooltipAnswers
<1> HIDE DEF u
<1> QED BY <1>1 DEF Answers, IssuedTooltips, u

(* The clock.                                                                 *)
LEMMA ElapseAnswers ==
  ASSUME NEW s, Sound(s), Paced(s)
  PROVE  Answers(s, Elapse(s))
<1> DEFINE cleared == [s EXCEPT !.deactivation_deadline = None]
           hidden  == [cleared EXCEPT !.effective_presented = FALSE]
           a == ExpireDeactivation(s)
           b == ExpireFirstPaint(a)
           ended == [b EXCEPT !.activation_deadline = None, !.activation_waiting = {}]
           c == ExpireActivation(b)
           skipped == SkippedIntervals(c.next_display, c.display_interval, c.now)
           p == PublishFull(c, "DisplayDeadline", c.next_display, skipped)
           d == ExpireDisplay(c)
           e == MarkDueJobs(d)
<1>1. Elapse(s) = IF s.lifecycle = "Running" THEN e ELSE s
  BY DEF Elapse, ProcessTime
<1>2. Gazed(s) /\ Answers(s, s)
  <2>1. Gazed(s)
    BY SoundDrawn DEF Sound, IsState, Gazed, Awaits
  <2> QED BY <2>1, Stills, StillAnswers
<1>3. Answers(s, a)
  <2>1. a \in {s, cleared} \/ (~s.presented /\ a = RefreshDemand(hidden, TRUE))
    BY DEF ExpireDeactivation
  <2>2. Answers(s, cleared)
    BY <1>2 DEF Gazed, Drawn, Awaits, Answers, Publications, IssuedTooltips
  <2>3. ~s.presented => Gazed(hidden) /\ Answers(s, hidden)
    BY <1>2 DEF Gazed, Drawn, Awaits, Answers, Publications, IssuedTooltips
  <2> HIDE DEF a, cleared, hidden
  <2>4. ASSUME ~s.presented
        PROVE  Answers(s, RefreshDemand(hidden, TRUE))
    <3>1. Still(hidden, RefreshDemand(hidden, TRUE))
      BY <2>3, <2>4, Stills
    <3> QED BY <2>3, <2>4, <3>1, StillOn
  <2> QED BY <1>2, <2>1, <2>2, <2>4
<1> HIDE DEF a
<1>4. "FirstPaintTimeout" # "TooltipRefresh" /\ "DisplayDeadline" # "TooltipRefresh"
  OBVIOUS
<1>5. Answers(a, b)
  <2>1. Gazed(a) /\ Answers(a, a)
    BY <1>3, Stills, StillAnswers DEF Answers
  <2>2. Answers(a, IssueFirstPaint(a, "FirstPaintTimeout"))
    BY <1>4, <2>1, FirstPaintAnswers
  <2> QED BY <2>1, <2>2 DEF ExpireFirstPaint
<1> HIDE DEF b
<1>6. Answers(b, c)
  <2>1. Gazed(b) /\ Answers(b, b)
    BY <1>5, Stills, StillAnswers DEF Answers
  <2>2. c \in {b, PublishTooltip(ended, "TooltipRefresh")}
    BY DEF ExpireActivation
  <2> QED BY <2>1, <2>2, EndedAnswers
<1> HIDE DEF c, ended
<1>7. Answers(c, d)
  <2>1. Gazed(c) /\ Answers(c, c)
    BY <1>6, Stills, StillAnswers DEF Answers
  <2> DEFINE next == AdvancePast(p.next_display, c.display_interval, c.now)
             m == [p EXCEPT !.next_display = next]
  <2>2. d \in {c, m}
    BY DEF ExpireDisplay
  <2> HIDE DEF skipped, next
  <2>3. Answers(c, p)
    <3> DEFINE reason == "DisplayDeadline"
               deadline == c.next_display
    <3>1. reason # "TooltipRefresh"
      OBVIOUS
    <3> HIDE DEF reason, deadline
    <3>2. Answers(c, PublishFull(c, reason, deadline, skipped))
      BY <2>1, <3>1, FullAnswers
    <3> QED BY <3>2 DEF reason, deadline
  <2> HIDE DEF p
  <2>4. Answers(p, m)
    BY <2>3 DEF Gazed, Drawn, Awaits, Answers, Publications, IssuedTooltips
  <2> HIDE DEF m, d
  <2> QED BY <2>1, <2>2, <2>3, <2>4, AnswersTransitive
<1> HIDE DEF d
<1>8. Answers(d, e)
  <2>1. Gazed(d)
    BY <1>7 DEF Answers
  <2> QED BY <2>1, Stills, StillAnswers
<1> HIDE DEF e
<1> QED BY <1>1, <1>2, <1>3, <1>5, <1>6, <1>7, <1>8, AnswersTransitive

(* finish_job.                                                                *)
LEMMA FinishJobAnswers ==
  ASSUME NEW s, Gazed(s), NEW t, NEW completion, NEW ready
  PROVE  Answers(s, FinishJob(s, t, completion, ready))
<1> DEFINE m == Settling(s, t, completion, ready)
           p == CompleteFirstPaint(m)
           done == [p EXCEPT !.activation_deadline = None]
<1>1. FinishJob(s, t, completion, ready) \in {p, PublishTooltip(done, "TooltipRefresh")}
  BY DEF FinishJob, Settling, Released, CompleteActivation
<1>2. Answers(s, m)
  BY Stills, StillAnswers
<1> HIDE DEF m
<1>3. Gazed(m) /\ Answers(m, m)
  BY <1>2, Stills, StillAnswers DEF Answers
<1>4. Answers(m, p)
  <2>1. "FirstPaintReady" # "TooltipRefresh"
    OBVIOUS
  <2>2. Answers(m, IssueFirstPaint(m, "FirstPaintReady"))
    BY <1>3, <2>1, FirstPaintAnswers
  <2> QED BY <1>3, <2>2 DEF CompleteFirstPaint
<1> HIDE DEF p
<1>5. Answers(s, p) /\ Gazed(p)
  BY <1>2, <1>4, AnswersTransitive DEF Answers
<1>6. Answers(p, PublishTooltip(done, "TooltipRefresh"))
  BY <1>5, EndedAnswers
<1> QED BY <1>1, <1>5, <1>6, AnswersTransitive

(* startup and reconfigure: jobs are replaced, the wait goes on.              *)
LEMMA PlanAnswers ==
  ASSUME NEW s, Gazed(s), NEW plan
  PROVE  Answers(s, Start(s, plan)) /\ Answers(s, Reconfigure(s, plan))
<1>1. Answers(s, Start(s, plan))
  <2> DEFINE display == s.now + plan.display_interval
             jobs == [j \in DOMAIN plan.jobs |-> NewRuntime(plan.jobs[j], s.now, display)]
             started == [s EXCEPT
               !.lifecycle = "Running", !.config_generation = 1, !.inventory_generation = 1,
               !.display_interval = plan.display_interval, !.demand = plan.demand,
               !.next_display = display, !.first_paint_deadline = s.now + FIRST_PAINT_TIMEOUT,
               !.jobs = jobs]
             demanded == {j \in Jobs(started) \cap CurrentDemand(started) :
                            ~IsHistory(started.jobs[j])}
             waiting == {j \in demanded : StartupPanel(started.jobs[j])}
             marked  == MarkJobs(started, demanded)
             awaited == [marked EXCEPT !.first_paint_waiting = waiting]
  <2>1. Start(s, plan) \in {awaited, IssueFirstPaint(awaited, "FirstPaintReady")}
    BY DEF Start, CompleteFirstPaint
  <2> HIDE DEF display, jobs
  <2>2. Gazed(started) /\ Answers(s, started)
    BY DEF Gazed, Drawn, Awaits, Answers, Publications, IssuedTooltips
  <2> HIDE DEF started, demanded, waiting
  <2>3. Answers(started, marked) /\ Gazed(marked)
    BY <2>2, Stills, StillAnswers DEF Answers
  <2> HIDE DEF marked
  <2>4. Gazed(awaited) /\ Answers(marked, awaited)
    BY <2>3 DEF Gazed, Drawn, Awaits, Answers, Publications, IssuedTooltips
  <2> HIDE DEF awaited
  <2>5. "FirstPaintReady" # "TooltipRefresh"
    OBVIOUS
  <2>6. Answers(awaited, IssueFirstPaint(awaited, "FirstPaintReady"))
    BY <2>4, <2>5, FirstPaintAnswers
  <2> QED BY <2>1, <2>2, <2>3, <2>4, <2>6, AnswersTransitive
<1>2. Answers(s, Reconfigure(s, plan))
  <2> DEFINE adopted  == [s EXCEPT !.config_generation = @ + 1,
                                   !.display_interval = plan.display_interval,
                                   !.demand = plan.demand,
                                   !.next_display = s.now + plan.display_interval]
             replaced == ReplaceJobs(adopted, plan.jobs, "ConfigChanged")
             anchored == ReanchorFast(replaced)
             demanded == RefreshDemand(anchored, FALSE)
             marked   == MarkJobs(demanded, CurrentDemand(demanded) \cap Discovery)
  <2>1. Reconfigure(s, plan) \in {marked, PublishFull(marked, "ConfigChanged", None, 0)}
    BY DEF Reconfigure
  <2>2. Gazed(adopted) /\ Answers(s, adopted)
    BY DEF Gazed, Drawn, Awaits, Answers, Publications, IssuedTooltips
  <2> HIDE DEF adopted
  <2>3. Answers(s, replaced) /\ Gazed(replaced)
    BY <2>2, Stills, StillOn
  <2> HIDE DEF replaced
  <2>4. Answers(s, anchored) /\ Gazed(anchored)
    BY <2>3, Stills, StillOn
  <2> HIDE DEF anchored
  <2>5. Answers(s, demanded) /\ Gazed(demanded)
    BY <2>4, Stills, StillOn
  <2> HIDE DEF demanded
  <2>6. Answers(s, marked) /\ Gazed(marked)
    BY <2>5, Stills, StillOn
  <2> HIDE DEF marked
  <2>7. "ConfigChanged" # "TooltipRefresh"
    OBVIOUS
  <2>8. Answers(marked, PublishFull(marked, "ConfigChanged", None, 0))
    BY <2>6, <2>7, FullAnswers
  <2> QED BY <2>1, <2>6, <2>8, AnswersTransitive
<1> QED BY <1>1, <1>2

(* change_page: when nothing of the new page is awaited it is shown at once.  *)
LEMMA ChangePageAnswers ==
  ASSUME NEW s, Gazed(s), Looked(s), s.now \in Nat, NEW page
  PROVE  Answers(s, ChangePage(s, page))
<1> DEFINE before == CurrentDemand(s)
           moved  == [s EXCEPT !.selected_page = page]
           after  == CurrentDemand(moved)
           ended  == CancelDemandEnded(moved, before, after)
           fresh  == {j \in (after \ before) \cap Jobs(ended) : ~IsHistory(ended.jobs[j])}
           waiting == (ended.activation_waiting \cap after) \cup fresh
           deadline == IF waiting = {} THEN None
                       ELSE IF TRUE /\ ended.activation_deadline = None
                            THEN ended.now + ACTIVATION_REFRESH_TIMEOUT
                            ELSE ended.activation_deadline
           marked == MarkJobs(ended, fresh)
           active == ActivateJobs(ended, before, after, TRUE)
           shown  == PublishTooltip(active, "PageChanged")
<1>1. ChangePage(s, page) = IF page = s.selected_page THEN s
                            ELSE IF ~s.effective_presented THEN moved
                            ELSE IF s.presented /\ active.activation_waiting = {} THEN shown
                            ELSE active
  BY DEF ChangePage
<1>2. Gazed(moved) /\ Still(s, moved) /\ Answers(s, s)
  <2>1. Gazed(moved) /\ Still(s, moved)
    BY DEF Gazed, Drawn, Awaits, Still, Mute, SamePace, Publications
  <2> QED BY <2>1, Stills, StillAnswers
<1> HIDE DEF moved, before, after
<1>3. Still(s, ended) /\ Gazed(ended)
  BY <1>2, Stills, StillTransitive DEF Still
<1> HIDE DEF ended
<1>4. active = [marked EXCEPT !.activation_waiting = waiting, !.activation_deadline = deadline]
  BY DEF ActivateJobs
<1> HIDE DEF active, fresh
<1>5. Still(ended, marked) /\ Gazed(marked)
  BY <1>3, Stills DEF Still
<1> HIDE DEF marked
<1>6. /\ Gazed(active) /\ active.presented = marked.presented
      /\ active.effective_presented = marked.effective_presented
      /\ Publications(active) = Publications(marked)
      /\ active.activation_deadline = deadline
  BY <1>4, <1>5 DEF Gazed, Drawn, Awaits, Publications
<1>7. active.activation_waiting = waiting
  BY <1>4, <1>5 DEF Gazed
<1>8. Still(s, marked)
  BY <1>3, <1>5, StillTransitive
<1>9. s.activation_deadline # None /\ active.activation_deadline = None => waiting = {}
  <2>1. ended.now \in Nat /\ ended.activation_deadline = s.activation_deadline
    BY <1>3 DEF Still, Mute, SamePace
  <2>2. ended.now + ACTIVATION_REFRESH_TIMEOUT # None
    BY <2>1, TimesAssumption DEF None
  <2> HIDE DEF waiting
  <2> QED BY <1>6, <2>1, <2>2
<1> HIDE DEF waiting, deadline
<1>10. waiting # {} \/ ~s.presented => Answers(s, active)
  BY <1>6, <1>8, <1>9 DEF Still, Mute, SamePace, Answers, IssuedTooltips
<1>11. waiting = {} /\ s.presented => Answers(s, shown)
  <2>1. Answers(active, shown) /\ (active.presented => IssuedTooltips(shown) # {})
    BY <1>6, TooltipAnswers
  <2> HIDE DEF shown
  <2> QED BY <1>6, <1>8, <2>1 DEF Still, Mute, SamePace, Answers
<1>12. Answers(s, moved)
  BY <1>2, StillAnswers
<1> QED BY <1>1, <1>2, <1>7, <1>10, <1>11, <1>12 DEF Looked

(* The presentation of the tooltip, and the wait it begins.                   *)
LEMMA PresentationAnswers ==
  ASSUME NEW s, Gazed(s)
  PROVE  /\ Answers(s, RefreshActivation(s))
         /\ Looked(Present(s)) /\ Gazed(Present(s))
         /\ Looked(Dismiss(s)) /\ Gazed(Dismiss(s)) /\ ~Dismiss(s).presented
         /\ s.presented /\ Looked(s) => Answers(s, Present(s))
<1>1. ASSUME NEW u, Gazed(u)
      PROVE  Answers(u, RefreshActivation(u))
  <2> DEFINE amd == {j \in Jobs(u) : u.jobs[j].spec.amd \in WideAmd}
             waiting == u.activation_waiting \cup amd
             deadline == u.now + ACTIVATION_REFRESH_TIMEOUT
             m == MarkJobs(u, amd)
             marked == [m EXCEPT !.activation_waiting = waiting]
             awaited == [marked EXCEPT !.activation_deadline = deadline]
  <2>1. \/ RefreshActivation(u) \in {marked, PublishTooltip(marked, "TooltipActivated")}
        \/ u.activation_deadline = None /\ RefreshActivation(u) = awaited
    BY DEF RefreshActivation
  <2>2. Still(u, m) /\ Gazed(m)
    BY <1>1, Stills DEF Still
  <2> HIDE DEF m, waiting, deadline
  <2>3. /\ Still(m, marked) /\ Gazed(marked) /\ Gazed(awaited)
        /\ awaited.presented = m.presented /\ awaited.effective_presented = m.effective_presented
        /\ Publications(awaited) = Publications(m)
    BY <2>2 DEF Gazed, Drawn, Awaits, Still, Mute, SamePace, Publications
  <2> HIDE DEF marked, awaited
  <2>4. Answers(u, marked)
    BY <2>2, <2>3, StillAnswers, AnswersTransitive
  <2>5. Answers(marked, PublishTooltip(marked, "TooltipActivated"))
    BY <2>3, TooltipAnswers
  <2>6. u.activation_deadline = None => Answers(u, awaited)
    BY <2>2, <2>3 DEF Still, Mute, SamePace, Answers, IssuedTooltips
  <2> QED BY <2>1, <2>4, <2>5, <2>6, AnswersTransitive
<1> DEFINE shown  == [s EXCEPT !.presented = TRUE, !.deactivation_deadline = None,
                               !.effective_presented = TRUE]
           hidden == Demanded(s.demand, FALSE, s.selected_page)
           woken  == ActivateJobs(shown, hidden, CurrentDemand(shown), TRUE)
           active == IF s.effective_presented THEN shown ELSE woken
<1>2. Present(s) = IF s.presented THEN active ELSE RefreshActivation(active)
  BY DEF Present
<1>3. /\ Gazed(shown) /\ shown.presented /\ shown.effective_presented
      /\ s.presented /\ s.effective_presented => Answers(s, shown)
  BY DEF Gazed, Drawn, Awaits, Answers, Publications, IssuedTooltips
<1> HIDE DEF shown, hidden
<1>4. Gazed(woken) /\ woken.presented /\ woken.effective_presented
  <2>1. Mute(shown, woken)
    BY <1>3, ActivateTrackedMute DEF Gazed
  <2>2. Awaits(woken)
    BY <1>3, ActivateAwaits DEF Gazed
  <2> QED BY <1>3, <2>1, <2>2 DEF Gazed, Mute, SamePace
<1> HIDE DEF woken
<1>5. Gazed(active) /\ active.presented /\ active.effective_presented
  BY <1>3, <1>4
<1>6. Looked(Present(s)) /\ Gazed(Present(s))
  BY <1>1, <1>2, <1>5 DEF Looked, Answers
<1>7. s.presented /\ Looked(s) => Answers(s, Present(s))
  BY <1>2, <1>3 DEF Looked
<1>8. Looked(Dismiss(s)) /\ Gazed(Dismiss(s)) /\ ~Dismiss(s).presented
  BY DEF Looked, Dismiss, Gazed, Drawn, Awaits
<1> QED BY <1>1, <1>6, <1>7, <1>8

(* An inventory is another plan.                                              *)
LEMMA InventoryLooked ==
  ASSUME NEW s, IsState(s), Looked(s), NEW plan, NEW acknowledged
  PROVE  LET u == ChangeInventory(s, plan, acknowledged)
         IN  Gazed(u) /\ Looked(u) /\ u.inventory_generation # s.inventory_generation
<1> DEFINE adopted == [s EXCEPT !.inventory_generation = @ + 1, !.demand = plan.demand]
           u == ChangeInventory(s, plan, acknowledged)
<1>1. Mute(adopted, u)
  BY ChangeInventoryMute DEF IsState, Drawn
<1>2. /\ adopted.presented = s.presented /\ adopted.effective_presented = s.effective_presented
      /\ adopted.inventory_generation # s.inventory_generation
  BY DEF IsState
<1>3. Awaits(u)
  <2> DEFINE replaced == ReplaceJobs(adopted, plan.jobs, "SourceReplaced")
             freed    == [replaced EXCEPT !.awaiting_resume_inventory = 0]
             resumes  == acknowledged = s.awaiting_resume_inventory /\ acknowledged # 0
             released == IF resumes THEN freed ELSE replaced
             active   == ActivateJobs(released, CurrentDemand(s), CurrentDemand(released),
                                      released.effective_presented)
             demanded == RefreshDemand(active, FALSE)
  <2>1. u \in {demanded, RefreshAllDemanded(demanded)}
    BY DEF ChangeInventory
  <2>2. Gazed(adopted)
    BY DEF IsState, Gazed, Drawn, Awaits
  <2> HIDE DEF adopted, u
  <2>3. Gazed(replaced)
    BY <2>2, Stills DEF Still
  <2> HIDE DEF replaced
  <2>4. Gazed(released)
    BY <2>3 DEF Gazed, Drawn, Awaits
  <2> HIDE DEF released
  <2>5. Gazed(active)
    BY <2>4, ActivateJobsMute, ActivateAwaits DEF Gazed, Mute
  <2> HIDE DEF active
  <2>6. Gazed(demanded)
    BY <2>5, Stills DEF Still
  <2> HIDE DEF demanded
  <2>7. Awaits(RefreshAllDemanded(demanded))
    BY <2>6 DEF Gazed, Awaits, RefreshAllDemanded
  <2> QED BY <2>1, <2>6, <2>7 DEF Gazed
<1> HIDE DEF adopted, u
<1> QED BY <1>1, <1>2, <1>3 DEF Gazed, Looked, Mute, SamePace, u

(* suspend, resume and stop.                                                  *)
LEMMA LifecycleAnswers ==
  ASSUME NEW s, Gazed(s), NEW reason
  PROVE  /\ Answers(s, ResumeRunning(s)) /\ Answers(s, Stop(s, reason))
         /\ Answers(s, [CancelAll(s, reason) EXCEPT !.lifecycle = "Suspended"])
<1>1. Answers(s, ResumeRunning(s))
  <2> DEFINE running  == [s EXCEPT !.lifecycle = "Running",
                                   !.next_display = s.now + s.display_interval]
             anchored == ReanchorFast(running)
  <2>1. Gazed(running) /\ Answers(s, running)
    BY DEF Gazed, Drawn, Awaits, Answers, Publications, IssuedTooltips
  <2> HIDE DEF running
  <2>2. Answers(running, anchored) /\ Gazed(anchored)
    BY <2>1, Stills, StillAnswers DEF Answers
  <2>3. ResumeRunning(s) = [anchored EXCEPT
          !.jobs = [j \in DOMAIN @ |-> ResumedRuntime(anchored, j, CurrentDemand(s))],
          !.awaiting_resume_inventory = s.next_resume_reconciliation_id,
          !.next_resume_reconciliation_id = s.next_resume_reconciliation_id + 1,
          !.actions = @ \cup {[kind |-> "RescanHardware",
                               reconciliation |-> s.next_resume_reconciliation_id]}
                        \cup {[kind |-> "ResetCounterBaseline", job |-> j] :
                                j \in {k \in Jobs(s) : s.jobs[k].spec.counter}}]
    BY DEF ResumeRunning, running
  <2> HIDE DEF anchored
  <2>4. Answers(anchored, ResumeRunning(s))
    BY <2>2, <2>3 DEF Gazed, Drawn, Awaits, Answers, Publications, IssuedTooltips
  <2> QED BY <2>1, <2>2, <2>4, AnswersTransitive
<1> DEFINE c == CancelAll(s, reason)
           suspended == [c EXCEPT !.lifecycle = "Suspended"]
           stopped == [c EXCEPT !.lifecycle = "Stopped",
                                !.actions = @ \cup {[kind |-> "Terminate"]}]
<1>2. Answers(s, c) /\ Gazed(c)
  BY Stills, StillAnswers DEF Answers
<1>3. stopped = Stop(s, reason)
  BY DEF Stop
<1> HIDE DEF c
<1>4. Answers(c, suspended) /\ Answers(c, stopped)
  BY <1>2 DEF Gazed, Drawn, Awaits, Answers, Publications, IssuedTooltips
<1> HIDE DEF suspended, stopped
<1>5. Answers(s, suspended) /\ Answers(s, stopped)
  BY <1>2, <1>4, AnswersTransitive
<1> QED BY <1>1, <1>3, <1>5 DEF suspended, c

GazeInv == RenderInv /\ Looked(sched)

(* A step that leaves the plan answers the wait it ends.                      *)
Awaited ==
  /\ sched' # sched
  /\ sched.presented /\ sched'.presented
  /\ sched'.inventory_generation = sched.inventory_generation
  /\ sched.activation_deadline # None /\ sched'.activation_deadline = None

(* One step per event; the daemon sends no demand of its own.                 *)
LEMMA StepAnswers ==
  ASSUME GazeInv, [Next]_sched, "Demand" \notin Inputs
  PROVE  Looked(sched') /\ (Awaited => IssuedTooltips(sched') # {})
<1> DEFINE Good == Looked(sched') /\ (Awaited => IssuedTooltips(sched') # {})
<1>1. Sound(sched) /\ IsState(sched) /\ Looked(sched)
  BY DEF GazeInv, RenderInv, OwnershipInv, Sound
<1>2. ASSUME NEW at
      PROVE  LET s == At(at)
             IN  /\ Gazed(s) /\ Looked(s) /\ s.presented = sched.presented /\ s.now = at
                 /\ s.effective_presented = sched.effective_presented
                 /\ s.activation_deadline = sched.activation_deadline
                 /\ s.inventory_generation = sched.inventory_generation
                 /\ Answers(s, s)
  <2> DEFINE s == At(at)
  <2>1. /\ Gazed(s) /\ Looked(s) /\ s.presented = sched.presented /\ s.now = at
        /\ s.effective_presented = sched.effective_presented
        /\ s.activation_deadline = sched.activation_deadline
        /\ s.inventory_generation = sched.inventory_generation
    BY <1>1 DEF At, IsState, Gazed, Drawn, Awaits, Looked
  <2> HIDE DEF s
  <2>2. Answers(s, s)
    BY <2>1, Stills, StillAnswers
  <2> QED BY <2>1, <2>2 DEF s
<1>3. ASSUME NEW u, Gazed(u), Accept(u)
      PROVE  Answers(u, sched') /\ sched'.inventory_generation = u.inventory_generation
  <2>1. Still(u, Dispatch(u))
    BY <1>3, Stills
  <2> QED BY <1>3, <2>1, StillAnswers DEF Accept, Still, Mute, SamePace
<1>4. ASSUME NEW at, NEW u, Answers(At(at), u), Accept(u)
      PROVE  Good
  <2> DEFINE s == At(at)
  <2>1. Answers(u, sched')
    BY <1>3, <1>4 DEF Answers
  <2>2. Answers(s, sched')
    BY <1>4, <2>1, AnswersTransitive
  <2>3. /\ Looked(s) /\ s.presented = sched.presented
        /\ s.activation_deadline = sched.activation_deadline
    BY <1>2
  <2> HIDE DEF s
  <2> QED BY <2>2, <2>3 DEF Answers, Looked, Awaited
<1>5. ASSUME NEW at \in Times, Active
      PROVE  LET e == Elapse(At(at))
             IN  Answers(At(at), e) /\ Gazed(e)
  <2>1. Sound(At(at)) /\ Paced(At(at))
    BY <1>5, AtBlank, BlankPublishes DEF GazeInv
  <2> QED BY <2>1, ElapseAnswers DEF Answers
<1> SUFFICES Good
  OBVIOUS
<1> HIDE DEF Good
<1>6. CASE Startup
  <2>1. PICK plan \in Plans : Accept(Start(At(sched.now), plan))
    BY <1>6 DEF Startup
  <2>2. Answers(At(sched.now), Start(At(sched.now), plan))
    BY <1>2, PlanAnswers
  <2> QED BY <1>4, <2>1, <2>2
<1>7. CASE TimeAdvanced
  BY <1>4, <1>5, <1>7 DEF TimeAdvanced
<1>8. CASE ConfigChanged
  <2>1. PICK at \in Times, plan \in Plans : Accept(Reconfigure(At(at), plan))
    BY <1>8 DEF ConfigChanged
  <2>2. Answers(At(at), Reconfigure(At(at), plan))
    BY <1>2, PlanAnswers
  <2> QED BY <1>4, <2>1, <2>2
<1>9. CASE InventoryChanged
  <2>1. PICK at \in Times, plan \in Plans, acknowledged \in 0..MaxResumes :
          Active /\ Accept(ChangeInventory(At(at), plan, acknowledged))
    BY <1>9 DEF InventoryChanged, Raised
  <2> DEFINE s == At(at)
             u == ChangeInventory(s, plan, acknowledged)
  <2>2. /\ IsState(s) /\ Looked(s)
        /\ s.inventory_generation = sched.inventory_generation
    BY <1>2, <2>1, AtBlank DEF GazeInv
  <2> HIDE DEF s
  <2>3. Gazed(u) /\ Looked(u) /\ u.inventory_generation # s.inventory_generation
    BY <2>2, InventoryLooked
  <2> HIDE DEF u
  <2>4. Answers(u, sched') /\ sched'.inventory_generation = u.inventory_generation
    BY <1>3, <2>1, <2>3 DEF u, s
  <2> QED BY <2>2, <2>3, <2>4 DEF Good, Looked, Answers, Awaited
<1>10. CASE DemandChanged
  BY <1>10 DEF DemandChanged, Raised
<1>11. CASE TooltipPresented
  <2>1. PICK at \in Times, presented \in BOOLEAN :
          Accept(IF presented THEN Present(At(at)) ELSE Dismiss(At(at)))
    BY <1>11 DEF TooltipPresented
  <2> DEFINE s == At(at)
  <2>2. Gazed(s) /\ Looked(s) /\ s.presented = sched.presented
    BY <1>2
  <2>3. CASE s.presented /\ presented
    <3>1. Answers(s, Present(s))
      BY <2>2, <2>3, PresentationAnswers
    <3> QED BY <1>4, <2>1, <2>3, <3>1
  <2>4. CASE ~s.presented /\ presented
    <3>1. Looked(Present(s)) /\ Gazed(Present(s))
      BY <2>2, PresentationAnswers
    <3>2. Answers(Present(s), sched')
      BY <1>3, <2>1, <2>4, <3>1
    <3> HIDE DEF s
    <3> QED BY <2>2, <2>4, <3>1, <3>2 DEF Good, Looked, Answers, Awaited
  <2>5. CASE ~presented
    <3>1. ~Dismiss(s).presented /\ Gazed(Dismiss(s))
      BY <2>2, PresentationAnswers
    <3>2. Answers(Dismiss(s), sched')
      BY <1>3, <2>1, <2>5, <3>1
    <3> HIDE DEF s
    <3> QED BY <3>1, <3>2 DEF Good, Looked, Answers, Awaited
  <2> QED BY <2>3, <2>4, <2>5
<1>12. CASE TooltipReactivated
  <2>1. PICK at \in Times : Accept(RefreshActivation(At(at))) \/ Accept(At(at))
    BY <1>12 DEF TooltipReactivated
  <2> QED BY <1>2, <1>4, <2>1, PresentationAnswers
<1>13. CASE SelectedPageChanged
  <2>1. PICK at \in Times, page \in PageId : Accept(ChangePage(At(at), page))
    BY <1>13 DEF SelectedPageChanged
  <2>2. at \in Nat
    BY <1>1 DEF Times, IsState
  <2>3. Answers(At(at), ChangePage(At(at), page))
    BY <1>2, <2>2, ChangePageAnswers
  <2> QED BY <1>4, <2>1, <2>3
<1>14. CASE DisplayRefreshRequested
  <2>1. PICK at \in Times : Accept(PublishFull(At(at), "ConfigChanged", None, 0))
    BY <1>14 DEF DisplayRefreshRequested
  <2>2. "ConfigChanged" # "TooltipRefresh"
    OBVIOUS
  <2>3. Answers(At(at), PublishFull(At(at), "ConfigChanged", None, 0))
    BY <1>2, <2>2, FullAnswers
  <2> QED BY <1>4, <2>1, <2>3
<1>15. CASE TooltipRefreshRequested
  <2>1. PICK at \in Times : Accept(PublishTooltip(At(at), "TooltipRefresh"))
    BY <1>15 DEF TooltipRefreshRequested
  <2> QED BY <1>2, <1>4, <2>1, TooltipAnswers
<1>16. CASE JobFinished
  <2>1. PICK at \in Times, t \in InFlight(sched), completion \in Outcomes, ready \in BOOLEAN :
          /\ sched.lifecycle = "Running"
          /\ \/ Accept(FinishJob(Elapse(At(at)), t, completion, ready))
             \/ Reject(Elapse(At(at)))
    BY <1>16 DEF JobFinished
  <2> DEFINE s == At(at)
             e == Elapse(s)
             r == [e EXCEPT !.accepted = FALSE]
  <2>2. Answers(s, e) /\ Gazed(e)
    BY <1>5, <2>1 DEF Active
  <2>3. /\ Looked(s) /\ s.presented = sched.presented
        /\ s.activation_deadline = sched.activation_deadline
    BY <1>2
  <2>4. Accept(FinishJob(e, t, completion, ready)) \/ sched' = r
    BY <2>1 DEF Reject
  <2>5. Accept(FinishJob(e, t, completion, ready)) => Good
    BY <1>4, <2>2, FinishJobAnswers, AnswersTransitive
  <2> HIDE DEF s, e
  <2>6. Answers(e, r)
    BY <2>2 DEF Gazed, Drawn, Awaits, Answers, Publications, IssuedTooltips
  <2> HIDE DEF r
  <2>7. Answers(s, r)
    BY <2>2, <2>6, AnswersTransitive
  <2> QED BY <2>3, <2>4, <2>5, <2>7 DEF Good, Answers, Looked, Awaited
<1>17. CASE JobCancelled
  <2>1. PICK at \in Times, t \in sched.cancelling :
          Active /\ Accept(FinishCancellation(Elapse(At(at)), t))
    BY <1>17 DEF JobCancelled
  <2> DEFINE e == Elapse(At(at))
  <2>2. Answers(At(at), e) /\ Gazed(e)
    BY <1>5, <2>1
  <2>3. Answers(e, FinishCancellation(e, t))
    BY <2>2, Stills, StillAnswers
  <2> QED BY <1>4, <2>1, <2>2, <2>3, AnswersTransitive
<1>18. CASE RefreshTriggered
  <2>1. PICK at \in Times, job \in Jobs(sched) :
          LET e == Elapse(At(at))
              wanted == {job} \cap CurrentDemand(e)
          IN  Active /\ (Accept(e) \/ Accept(MarkJobs(e, wanted)))
    BY <1>18 DEF RefreshTriggered, Raised
  <2> DEFINE e == Elapse(At(at))
             wanted == {job} \cap CurrentDemand(e)
  <2>2. Answers(At(at), e) /\ Gazed(e)
    BY <1>5, <2>1
  <2>3. Accept(e) \/ Accept(MarkJobs(e, wanted))
    BY <2>1
  <2> HIDE DEF e, wanted
  <2>4. Answers(e, MarkJobs(e, wanted))
    BY <2>2, Stills, StillAnswers
  <2> QED BY <1>4, <2>2, <2>3, <2>4, AnswersTransitive
<1>19. CASE PanelPublished
  <2>1. PICK at \in Times, publication \in sched.panel_publications :
          Accept([At(at) EXCEPT !.panel_publications = @ \ {publication},
                                !.notifications_armed = TRUE])
    BY <1>19 DEF PanelPublished
  <2> DEFINE s == At(at)
             m == [s EXCEPT !.panel_publications = @ \ {publication},
                            !.notifications_armed = TRUE]
  <2>2. Gazed(s)
    BY <1>2
  <2> HIDE DEF s
  <2>3. Answers(s, m)
    BY <2>2 DEF Gazed, Drawn, Awaits, Answers, Publications, IssuedTooltips
  <2> QED BY <1>4, <2>1, <2>3 DEF m, s
<1>20. CASE Suspend
  <2>1. PICK at \in Times :
          \/ Accept([CancelAll(At(at), "Suspend") EXCEPT !.lifecycle = "Suspended"])
          \/ Accept(At(at))
    BY <1>20 DEF Suspend
  <2> QED BY <1>2, <1>4, <2>1, LifecycleAnswers
<1>21. CASE Resume
  <2>1. PICK at \in Times : Accept(ResumeRunning(At(at))) \/ Accept(At(at))
    BY <1>21 DEF Resume
  <2> QED BY <1>2, <1>4, <2>1, LifecycleAnswers
<1>22. CASE Shutdown
  <2>1. PICK at \in Times, reason \in {"Shutdown", "CriticalFailure"} :
          Accept(Stop(At(at), reason))
    BY <1>22 DEF Shutdown
  <2> QED BY <1>2, <1>4, <2>1, LifecycleAnswers
<1>23. CASE UNCHANGED sched
  BY <1>1, <1>23 DEF Good, Looked, Awaited
<1> QED
  BY <1>6, <1>7, <1>8, <1>9, <1>10, <1>11, <1>12, <1>13, <1>14, <1>15, <1>16, <1>17, <1>18,
     <1>19, <1>20, <1>21, <1>22, <1>23 DEF Next

(* The wait of a presented tooltip ends with a tooltip that is published,     *)
(* unless the plan of jobs changed under it.  The demand changes only with    *)
(* the plan: the daemon sends no DemandChanged.                               *)
THEOREM WaitsAreAnswered ==
  ASSUME "Demand" \notin Inputs
  PROVE  Spec => ActivationAnswered
<1>1. Init => GazeInv
  <2>1. Init => Looked(sched)
    BY DEF Init, Looked
  <2> QED BY <2>1, InitTidy DEF GazeInv
<1>2. GazeInv /\ [Next]_sched => GazeInv' /\ (Awaited => IssuedTooltips(sched') # {})
  BY StepAnswers, StepRenders DEF GazeInv
<1>3. (Awaited => IssuedTooltips(sched') # {}) =>
        [ sched.presented /\ sched'.presented /\ ~Replanned
            /\ sched.activation_deadline # None /\ sched'.activation_deadline = None
          => \E a \in Publications(sched') : a.tooltip ]_sched
  BY DEF Awaited, Replanned, IssuedTooltips
<1> QED BY <1>1, <1>2, <1>3, PTL DEF Spec, ActivationAnswered
=============================================================================
