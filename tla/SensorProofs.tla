----------------------------- MODULE SensorProofs -----------------------------
(* What is kept and shown of the network is of one interface, and what is of  *)
(* the graphics cards is of one card: for every inventory, every length of    *)
(* the series, and every order of reads, discoveries, demands, completions    *)
(* and resumes.  Both proofs give the samples and series types that say whose *)
(* they are and when they were measured; every commit and every reset is then *)
(* a matter of types.                                                         *)
EXTENDS NetworkSamples, GpuSamples, TLAPS

-----------------------------------------------------------------------------
(* Values that may be missing, and series.                                    *)

(* A value that may be missing.                                               *)
Maybe(S) == {None} \cup {Some(x) : x \in S}

(* A value is never mistaken for its absence.                                  *)
LEMMA SomeIsNotNone ==
  ASSUME NEW x
  PROVE  Some(x) # None /\ Some(x)[1] = x
  BY DEF Some, None

(* A value that may be missing is missing or there.                           *)
LEMMA MaybeEither ==
  ASSUME NEW S, NEW m \in Maybe(S)
  PROVE  m = None \/ (m[1] \in S /\ m = Some(m[1]) /\ m # None)
  BY SomeIsNotNone DEF Maybe

(* More values, more that may be missing.                                     *)
LEMMA MaybeMonotonic ==
  ASSUME NEW S, NEW T, S \subseteq T
  PROVE  Maybe(S) \subseteq Maybe(T)
  BY DEF Maybe

(* A trimmed series keeps its newest points and no other.                     *)
LEMMA TrimmedSeries ==
  ASSUME NEW S, NEW series \in Seq(S), NEW length \in Nat
  PROVE  Trimmed(series, length) \in Seq(S)
<1>1. CASE Len(series) > length
  <2> DEFINE from == Len(series) - length + 1
  <2>1. Len(series) \in Nat /\ from \in 1..Len(series) + 1
    BY <1>1
  <2>2. SubSeq(series, from, Len(series)) \in Seq(S)
    BY <2>1
  <2> QED BY <1>1, <2>2 DEF Trimmed
<1>2. CASE ~(Len(series) > length)
  BY <1>2 DEF Trimmed
<1> QED BY <1>1, <1>2

(* A series of some points is one of more points.                             *)
LEMMA SeriesMonotonic ==
  ASSUME NEW S, NEW T, S \subseteq T
  PROVE  Seq(S) \subseteq Seq(T)
  OBVIOUS

(* The retained samples at or before a cutoff are retained samples.           *)
LEMMA SampleIsRetained ==
  ASSUME NEW S, NEW r, r.latest \in Maybe(S), r.previous \in Maybe(S), NEW cutoff
  PROVE  LET found == SampleAtOrBefore(r, cutoff)
         IN  /\ found \in Maybe(S)
             /\ found # None => found[1] \in S /\ found[1].at <= cutoff
<1> DEFINE found == SampleAtOrBefore(r, cutoff)
<1>1. found \in Maybe(S)
  BY DEF SampleAtOrBefore, LatestAtOrBefore, NoLater, Maybe
<1>2. found # None => found[1].at <= cutoff
  BY DEF SampleAtOrBefore, LatestAtOrBefore, NoLater
<1> QED BY <1>1, <1>2, MaybeEither

(* A commit keeps old samples and adds the one it commits, if any.            *)
LEMMA CommitKeeps ==
  ASSUME NEW S, NEW r, r.latest \in Maybe(S), NEW at,
         NEW outcome, outcome \in {Baseline, Failed, Absent}
                       \/ \E v : outcome = Value(v) /\ Sample(v, at) \in S
  PROVE  LET new == CommitAttempt(r, outcome, at)
         IN  /\ new.latest \in Maybe(S)
             /\ r.previous \in Maybe(S) => new.previous \in Maybe(S)
<1> DEFINE new == CommitAttempt(r, outcome, at)
<1>1. CASE outcome = Baseline
  <2>1. new = r
    BY <1>1 DEF CommitAttempt, Baseline, RecordBaseline
  <2> QED BY <2>1
<1>2. CASE outcome = Failed
  <2>1. new = r
    BY <1>2 DEF CommitAttempt, Failed, RecordFailure
  <2> QED BY <2>1
<1>3. CASE outcome = Absent
  <2>1. new = NotRetained
    BY <1>3 DEF CommitAttempt, Absent, RecordAbsence
  <2>2. NotRetained.latest = None /\ NotRetained.previous = None
    BY DEF NotRetained
  <2>3. None \in Maybe(S)
    BY DEF Maybe
  <2> QED BY <2>1, <2>2, <2>3
<1>4. CASE \E v : outcome = Value(v) /\ Sample(v, at) \in S
  <2>1. PICK v : outcome = Value(v) /\ Sample(v, at) \in S
    BY <1>4
  <2>2. outcome.kind = "Value" /\ outcome.value = v
    BY <2>1 DEF Value
  <2>3. new = RecordValue(r, v, at)
    BY <2>2 DEF CommitAttempt
  <2>4. new.latest = Some(Sample(v, at)) /\ new.previous = r.latest
    BY <2>3 DEF RecordValue
  <2>5. Some(Sample(v, at)) \in Maybe(S)
    BY <2>1 DEF Maybe
  <2> QED BY <2>4, <2>5
<1> QED BY <1>1, <1>2, <1>3, <1>4

-----------------------------------------------------------------------------
(* What the network owner keeps.                                              *)

(* The interface the rate job reads, and the one the history job charts: none *)
(* when the job does not exist.                                               *)
Tracked(device, wanted) == IF "rate" \in wanted THEN device ELSE None
Charted(device, wanted) == IF "history" \in wanted THEN Tracked(device, wanted) ELSE None

(* The rates of one interface, if any, that were measured by now and not      *)
(* across the gap.                                                            *)
MeasuredRates(device, now, gap) ==
  {s \in [value : [interface : Interface, since : Nat, moved : Nat], at : 0..now] :
     /\ Some(s.value.interface) = device
     /\ s.value.since < s.at
     /\ s.at > gap => s.value.since >= gap}

PointsOf(rates) ==
  {p \in [deadline : Nat, sample : rates] : p.sample.at <= p.deadline}

(* What the owner keeps is of the interface its jobs read: no job, nothing    *)
(* kept.  The counter was read after the last gap.                            *)
NetworkFields(n) ==
  {"rate", "device", "bytes", "counted", "history", "info", "wifi", "source"} \subseteq DOMAIN n

RateKept(n, device, now, gap) ==
  /\ n.rate.latest \in Maybe(MeasuredRates(device, now, gap))
  /\ n.rate.previous \in Maybe(MeasuredRates(device, now, gap))
  /\ n.device \in {None, device}
  /\ n.bytes \in Nat
  /\ n.counted \in Maybe(gap..now)

SeriesKept(series, device, now, gap) == series \in Seq(PointsOf(MeasuredRates(device, now, gap)))

NetworkKept(n, device, wanted, now, gap) ==
  /\ NetworkFields(n)
  /\ RateKept(n, Tracked(device, wanted), now, gap)
  /\ SeriesKept(n.history, Charted(device, wanted), now, gap)

(* And so is what the display shows of it.                                    *)
NetworkDisplayed(shown, device, wanted, now, gap) ==
  /\ {"rate", "history", "device", "wifi"} \subseteq DOMAIN shown
  /\ shown.rate \in Maybe(MeasuredRates(Tracked(device, wanted), now, gap))
  /\ SeriesKept(shown.history, Charted(device, wanted), now, gap)
  /\ shown.wifi # None => shown.wifi = shown.device

NetworkTypes ==
  /\ netDevice \in Maybe(Interface)
  /\ {"route", "bytes", "moves"} \subseteq DOMAIN wire
  /\ wire.route \in Maybe(Interface)
  /\ wire.bytes \in [Interface -> Nat]
  /\ netNow \in Nat
  /\ netGap \in 0..netNow

NetworkInv ==
  /\ NetworkTypes
  /\ NetworkKept(net, netDevice, netWanted, netNow, netGap)
  /\ NetworkDisplayed(netShown, netDevice, netWanted, netNow, netGap)

-----------------------------------------------------------------------------
(* Measured rates.                                                            *)

(* No rate is of no interface.                                                *)
LEMMA NoInterfaceNoRates ==
  ASSUME NEW now, NEW gap
  PROVE  MeasuredRates(None, now, gap) = {}
  BY SomeIsNotNone DEF MeasuredRates

(* A rate stays measured as time goes on, and across a new gap.               *)
LEMMA RatesStayMeasured ==
  ASSUME NEW device, NEW now \in Nat, NEW gap \in 0..now, NEW later \in Nat, now <= later
  PROVE  /\ MeasuredRates(device, now, gap) \subseteq MeasuredRates(device, later, gap)
         /\ MeasuredRates(device, now, gap) \subseteq MeasuredRates(device, now, now)
<1>1. \A s \in MeasuredRates(device, now, gap) :
        /\ s \in [value : [interface : Interface, since : Nat, moved : Nat], at : 0..now]
        /\ s.at \in 0..now
  BY DEF MeasuredRates
<1>2. \A s \in MeasuredRates(device, now, gap) :
        s \in [value : [interface : Interface, since : Nat, moved : Nat], at : 0..later]
  BY <1>1
<1> QED BY <1>1, <1>2 DEF MeasuredRates

(* More rates, more points.                                                   *)
LEMMA PointsMonotonic ==
  ASSUME NEW S, NEW T, S \subseteq T
  PROVE  PointsOf(S) \subseteq PointsOf(T)
  BY DEF PointsOf

(* What is kept of one interface is kept later, across a gap the counter is   *)
(* not kept over, and of another interface when nothing is kept of it.        *)
LEMMA RatesOfNone ==
  ASSUME NEW device, NEW now, NEW gap
  PROVE  /\ Maybe(MeasuredRates(None, now, gap)) = {None}
         /\ Seq(PointsOf(MeasuredRates(None, now, gap))) \subseteq
              Seq(PointsOf(MeasuredRates(device, now, gap)))
         /\ \A series \in Seq(PointsOf(MeasuredRates(None, now, gap))) : series = <<>>
<1>1. Maybe({}) = {None}
  BY DEF Maybe
<1>2. PointsOf({}) = {}
  BY DEF PointsOf
<1>3. \A series \in Seq({}) : series = <<>>
  OBVIOUS
<1>4. Seq({}) \subseteq Seq(PointsOf(MeasuredRates(device, now, gap)))
  BY SeriesMonotonic
<1> QED BY <1>1, <1>2, <1>3, <1>4, NoInterfaceNoRates

-----------------------------------------------------------------------------
(* What happens to the fields of the owner.                                   *)

(* A reset forgets what it names and leaves the rest.                         *)
LEMMA ResetsForget ==
  ASSUME NEW n, NetworkFields(n), NEW now, NEW gap
  PROVE  /\ NetworkFields(ResetRate(n))
         /\ \A device : RateKept(ResetRate(n), device, now, gap)
         /\ ResetRate(n).history = n.history
         /\ NetworkFields(ResetNetHistory(n))
         /\ \A device : SeriesKept(ResetNetHistory(n).history, device, now, gap)
         /\ \A device : RateKept(n, device, now, gap)
                          => RateKept(ResetNetHistory(n), device, now, gap)
         /\ ResetNetHistory(n).device = n.device
         /\ NetworkFields(ResetInfo(n))
         /\ ResetInfo(n).history = n.history
         /\ ResetInfo(n).device = n.device
         /\ \A device : RateKept(n, device, now, gap) => RateKept(ResetInfo(n), device, now, gap)
<1>1. NetworkFields(ResetRate(n)) /\ ResetRate(n).history = n.history
  BY DEF NetworkFields, ResetRate
<1>2. /\ ResetRate(n).rate = NotRetained /\ ResetRate(n).device = None
      /\ ResetRate(n).bytes = 0 /\ ResetRate(n).counted = None
  BY DEF NetworkFields, ResetRate
<1>3. \A device : RateKept(ResetRate(n), device, now, gap)
  <2>1. NotRetained.latest = None /\ NotRetained.previous = None
    BY DEF NotRetained
  <2>2. \A S : None \in Maybe(S)
    BY DEF Maybe
  <2> QED BY <1>2, <2>1, <2>2 DEF RateKept
<1>4. /\ NetworkFields(ResetNetHistory(n)) /\ ResetNetHistory(n).history = <<>>
      /\ \A f \in {"rate", "device", "bytes", "counted"} : ResetNetHistory(n)[f] = n[f]
  BY DEF NetworkFields, ResetNetHistory
<1>5. \A device : SeriesKept(ResetNetHistory(n).history, device, now, gap)
  BY <1>4 DEF SeriesKept
<1>6. /\ NetworkFields(ResetInfo(n))
      /\ \A f \in {"rate", "device", "bytes", "counted", "history"} : ResetInfo(n)[f] = n[f]
  BY DEF NetworkFields, ResetInfo
<1>7. \A device : RateKept(n, device, now, gap) => RateKept(ResetNetHistory(n), device, now, gap)
  BY <1>4 DEF RateKept
<1>8. \A device : RateKept(n, device, now, gap) => RateKept(ResetInfo(n), device, now, gap)
  BY <1>6 DEF RateKept
<1> QED BY <1>1, <1>3, <1>4, <1>5, <1>6, <1>7, <1>8

(* What is kept now is kept as time goes on, and when the sampling is broken  *)
(* off now and the counter forgotten.                                         *)
LEMMA KeptLater ==
  ASSUME NEW now \in Nat, NEW gap \in 0..now, NEW later \in Nat, now <= later,
         NEW n, NEW shown, NEW device, NEW wanted,
         NetworkKept(n, device, wanted, now, gap), NetworkDisplayed(shown, device, wanted, now, gap)
  PROVE  /\ NetworkKept(n, device, wanted, later, gap)
         /\ NetworkDisplayed(shown, device, wanted, later, gap)
         /\ NetworkKept(InvalidateRateBaseline(n), device, wanted, now, now)
         /\ NetworkDisplayed(shown, device, wanted, now, now)
<1> DEFINE old(d) == MeasuredRates(d, now, gap)
<1>1. \A d : \A new \in {MeasuredRates(d, later, gap), MeasuredRates(d, now, now)} :
        /\ Maybe(old(d)) \subseteq Maybe(new)
        /\ Seq(PointsOf(old(d))) \subseteq Seq(PointsOf(new))
  <2> SUFFICES ASSUME NEW d,
                      NEW new \in {MeasuredRates(d, later, gap), MeasuredRates(d, now, now)}
               PROVE  /\ Maybe(old(d)) \subseteq Maybe(new)
                      /\ Seq(PointsOf(old(d))) \subseteq Seq(PointsOf(new))
    OBVIOUS
  <2>1. /\ old(d) \subseteq MeasuredRates(d, later, gap)
        /\ old(d) \subseteq MeasuredRates(d, now, now)
    <3> HIDE DEF old
    <3> QED BY RatesStayMeasured DEF old
  <2>2. PointsOf(old(d)) \subseteq PointsOf(new)
    <3>1. old(d) \subseteq new
      BY <2>1
    <3> QED BY <3>1, PointsMonotonic
  <2> QED BY <2>1, <2>2, MaybeMonotonic, SeriesMonotonic
<1>2. Maybe(gap..now) \subseteq Maybe(gap..later)
  BY DEF Maybe
<1>3. /\ NetworkFields(InvalidateRateBaseline(n))
      /\ InvalidateRateBaseline(n).counted = None /\ InvalidateRateBaseline(n).bytes = 0
      /\ \A f \in {"rate", "device", "history"} : InvalidateRateBaseline(n)[f] = n[f]
  BY DEF NetworkKept, NetworkFields, InvalidateRateBaseline
<1>4. NetworkKept(n, device, wanted, later, gap)
  BY <1>1, <1>2 DEF NetworkKept, RateKept, SeriesKept
<1>5. NetworkKept(InvalidateRateBaseline(n), device, wanted, now, now)
  <2>1. None \in Maybe(now..now) /\ 0 \in Nat
    BY DEF Maybe
  <2> QED BY <1>1, <1>3, <2>1 DEF NetworkKept, RateKept, SeriesKept
<1>6. /\ NetworkDisplayed(shown, device, wanted, later, gap)
      /\ NetworkDisplayed(shown, device, wanted, now, now)
  BY <1>1 DEF NetworkDisplayed, SeriesKept
<1> QED BY <1>4, <1>5, <1>6

(* reconcile_sources keeps what is of the interface in force.                 *)
LEMMA ReconcileKeeps ==
  ASSUME NEW n, NEW now, NEW gap, NetworkKept(n, netDevice, netWanted, now, gap)
  PROVE  /\ NetworkKept(ReconcileNetwork(n), netDevice, netWanted, now, gap)
         /\ "rate" \in netWanted => ReconcileNetwork(n).device \in {None, netDevice}
<1> DEFINE rated == ReconcileRate(n)
           informed == ReconcileInfo(rated)
           tracked == Tracked(netDevice, netWanted)
           charted == Charted(netDevice, netWanted)
<1>1. NetworkFields(rated) /\ RateKept(rated, tracked, now, gap)
      /\ SeriesKept(rated.history, charted, now, gap)
  <2>1. /\ NetworkFields(n) /\ RateKept(n, tracked, now, gap)
        /\ SeriesKept(n.history, charted, now, gap)
    BY DEF NetworkKept
  <2>2. CASE rated = n
    BY <2>1, <2>2
  <2>3. CASE rated = ResetRate(n)
    BY <2>1, <2>3, ResetsForget
  <2>4. CASE rated = ResetNetHistory(ResetRate(n))
    BY <2>1, <2>4, ResetsForget
  <2> QED BY <2>2, <2>3, <2>4 DEF ReconcileRate
<1>2. /\ NetworkFields(informed)
      /\ \A f \in {"rate", "device", "bytes", "counted", "history"} : informed[f] = rated[f]
  <2>1. /\ NetworkFields(ResetInfo(rated))
        /\ \A f \in {"rate", "device", "bytes", "counted", "history"} :
             ResetInfo(rated)[f] = rated[f]
    BY <1>1 DEF NetworkFields, ResetInfo
  <2> DEFINE reset == ResetInfo(rated)
  <2> HIDE DEF reset
  <2>2. \A s : /\ NetworkFields([reset EXCEPT !.source = s])
               /\ \A f \in {"rate", "device", "bytes", "counted", "history"} :
                    [reset EXCEPT !.source = s][f] = reset[f]
    BY <2>1 DEF NetworkFields, reset
  <2>3. CASE informed = rated
    BY <1>1, <2>3
  <2>4. CASE informed # rated
    <3>1. \E s : informed = [reset EXCEPT !.source = s]
      BY <2>4 DEF ReconcileInfo, reset
    <3> QED BY <3>1, <2>1, <2>2 DEF reset
  <2> QED BY <2>3, <2>4
<1>3. RateKept(informed, tracked, now, gap) /\ SeriesKept(informed.history, charted, now, gap)
  BY <1>1, <1>2 DEF RateKept
<1> HIDE DEF informed
<1>4. ReconcileNetwork(n) \in {informed, ResetNetHistory(informed)}
  BY DEF ReconcileNetwork, informed
<1>5. NetworkKept(ReconcileNetwork(n), netDevice, netWanted, now, gap)
  BY <1>2, <1>3, <1>4, ResetsForget DEF NetworkKept
<1>6. "rate" \in netWanted => tracked = netDevice
  BY DEF Tracked
<1> QED BY <1>5, <1>6 DEF NetworkKept, RateKept

-----------------------------------------------------------------------------
(* Jobs.                                                                      *)

(* A network job exists for a device and only on demand.                      *)
LEMMA NetworkJobsDemanded ==
  ASSUME NEW device, NEW wanted
  PROVE  LET jobs == NetworkJobs(device, wanted)
         IN  /\ "NetworkRate" \in DOMAIN jobs <=> Tracked(device, wanted) # None
             /\ "NetworkHistory" \in DOMAIN jobs <=> Charted(device, wanted) # None
             /\ \A k \in {"NetworkRate", "NetworkHistory"} :
                  k \in DOMAIN jobs => jobs[k] = device
<1> DEFINE rate == "rate" \in wanted /\ device # None
           kinds == {k \in {"NetworkRate", "NetworkIdentity", "NetworkHistory"} :
                       CASE k = "NetworkRate" -> rate
                         [] k = "NetworkHistory" -> rate /\ "history" \in wanted
                         [] OTHER -> "info" \in wanted}
<1>1. NetworkJobs(device, wanted) = [k \in kinds |-> IF k = "NetworkIdentity" THEN None ELSE device]
  BY DEF NetworkJobs
<1>2. /\ "NetworkRate" \in kinds <=> rate
      /\ "NetworkHistory" \in kinds <=> rate /\ "history" \in wanted
  OBVIOUS
<1>3. /\ Tracked(device, wanted) # None <=> rate
      /\ Charted(device, wanted) # None <=> rate /\ "history" \in wanted
  BY DEF Tracked, Charted
<1> HIDE DEF kinds
<1> QED BY <1>1, <1>2, <1>3

(* A job that is not retired read nothing, or goes on with its interface.     *)
LEMMA WhatIsNotRetired ==
  ASSUME NEW device, NEW wanted
  PROVE  /\ "NetworkRate" \notin NetworkRetired(device, wanted)
              => Tracked(netDevice, netWanted) \in {None, Tracked(device, wanted)}
         /\ "NetworkHistory" \notin NetworkRetired(device, wanted)
              => Charted(netDevice, netWanted) \in {None, Charted(device, wanted)}
<1> DEFINE old == NetworkJobs(netDevice, netWanted)
           new == NetworkJobs(device, wanted)
<1> HIDE DEF old, new
<1>1. NetworkRetired(device, wanted) = {k \in DOMAIN old : k \notin DOMAIN new \/ old[k] # new[k]}
  BY DEF NetworkRetired, old, new
<1>2. /\ "NetworkRate" \in DOMAIN old <=> Tracked(netDevice, netWanted) # None
      /\ "NetworkHistory" \in DOMAIN old <=> Charted(netDevice, netWanted) # None
      /\ \A k \in {"NetworkRate", "NetworkHistory"} : k \in DOMAIN old => old[k] = netDevice
  BY NetworkJobsDemanded DEF old
<1>3. /\ "NetworkRate" \in DOMAIN new <=> Tracked(device, wanted) # None
      /\ "NetworkHistory" \in DOMAIN new <=> Charted(device, wanted) # None
      /\ \A k \in {"NetworkRate", "NetworkHistory"} : k \in DOMAIN new => new[k] = device
  BY NetworkJobsDemanded DEF new
<1>4. \A d, w : /\ Tracked(d, w) \in {None, d}
                /\ Charted(d, w) \in {None, d}
  BY DEF Tracked, Charted
<1>5. ASSUME "NetworkRate" \notin NetworkRetired(device, wanted),
             Tracked(netDevice, netWanted) # None
      PROVE  Tracked(netDevice, netWanted) = Tracked(device, wanted)
  <2>1. "NetworkRate" \in DOMAIN new /\ old["NetworkRate"] = new["NetworkRate"]
    BY <1>1, <1>2, <1>5
  <2>2. netDevice = device
    BY <2>1, <1>2, <1>3, <1>5
  <2> QED BY <2>1, <2>2, <1>3, <1>4, <1>5
<1>6. ASSUME "NetworkHistory" \notin NetworkRetired(device, wanted),
             Charted(netDevice, netWanted) # None
      PROVE  Charted(netDevice, netWanted) = Charted(device, wanted)
  <2>1. "NetworkHistory" \in DOMAIN new /\ old["NetworkHistory"] = new["NetworkHistory"]
    BY <1>1, <1>2, <1>6
  <2>2. netDevice = device
    BY <2>1, <1>2, <1>3, <1>6
  <2> QED BY <2>1, <2>2, <1>3, <1>4, <1>6
<1> QED BY <1>5, <1>6

(* Owner and display forget what the retired jobs read, and keep no more than *)
(* what the new jobs read.                                                    *)
LEMMA RetiredIsForgotten ==
  ASSUME NEW n, NEW shown, NEW device, NEW wanted, NEW now, NEW gap,
         NetworkKept(n, netDevice, netWanted, now, gap),
         NetworkDisplayed(shown, netDevice, netWanted, now, gap)
  PROVE  LET gone == NetworkRetired(device, wanted)
         IN  /\ NetworkKept(InvalidateNetwork(n, gone), device, wanted, now, gap)
             /\ NetworkDisplayed(InvalidateShownNetwork(shown, gone), device, wanted, now, gap)
<1> DEFINE gone == NetworkRetired(device, wanted)
           t == Tracked(netDevice, netWanted)
           u == Tracked(device, wanted)
           c == Charted(netDevice, netWanted)
           d == Charted(device, wanted)
           rated == IF "NetworkRate" \in gone THEN ResetRate(n) ELSE n
           informed == IF "NetworkIdentity" \in gone THEN ResetInfo(rated) ELSE rated
           drawn == IF "NetworkHistory" \in gone THEN ResetNetHistory(informed) ELSE informed
<1>1. /\ "NetworkRate" \notin gone => t \in {None, u}
      /\ "NetworkHistory" \notin gone => c \in {None, d}
  BY WhatIsNotRetired
<1> HIDE DEF gone, t, u, c, d
<1>2. NetworkFields(n) /\ RateKept(n, t, now, gap) /\ SeriesKept(n.history, c, now, gap)
  BY DEF NetworkKept, t, c
<1>3. \A m : RateKept(m, None, now, gap) => RateKept(m, u, now, gap)
  BY RatesOfNone DEF RateKept, Maybe
<1>4. \A series : SeriesKept(series, None, now, gap) => SeriesKept(series, d, now, gap)
  BY RatesOfNone DEF SeriesKept
<1>5. NetworkFields(rated) /\ RateKept(rated, u, now, gap) /\ rated.history = n.history
  BY <1>1, <1>2, <1>3, ResetsForget
<1> HIDE DEF rated
<1>6. NetworkFields(informed) /\ RateKept(informed, u, now, gap) /\ informed.history = n.history
  BY <1>5, ResetsForget
<1> HIDE DEF informed
<1>7. /\ NetworkFields(drawn) /\ RateKept(drawn, u, now, gap)
      /\ SeriesKept(drawn.history, d, now, gap)
  <2>1. CASE "NetworkHistory" \in gone
    BY <2>1, <1>6, ResetsForget
  <2>2. CASE "NetworkHistory" \notin gone
    <3>1. SeriesKept(n.history, d, now, gap)
      BY <2>2, <1>1, <1>2, <1>4
    <3> QED BY <3>1, <2>2, <1>6
  <2> QED BY <2>1, <2>2
<1>8. InvalidateNetwork(n, gone) = drawn
  BY DEF InvalidateNetwork, informed, rated
<1>9. NetworkKept(InvalidateNetwork(n, gone), device, wanted, now, gap)
  BY <1>7, <1>8 DEF NetworkKept, u, d
<1>10. NetworkDisplayed(InvalidateShownNetwork(shown, gone), device, wanted, now, gap)
  <2> DEFINE new == InvalidateShownNetwork(shown, gone)
  <2>1. /\ {"rate", "history", "device", "wifi"} \subseteq DOMAIN new
        /\ new.rate = IF "NetworkRate" \in gone THEN None ELSE shown.rate
        /\ new.history = IF "NetworkHistory" \in gone THEN <<>> ELSE shown.history
        /\ new.device = IF "NetworkIdentity" \in gone THEN None ELSE shown.device
        /\ new.wifi = IF "NetworkIdentity" \in gone THEN None ELSE shown.wifi
    BY DEF InvalidateShownNetwork
  <2> HIDE DEF new
  <2>2. /\ shown.rate \in Maybe(MeasuredRates(t, now, gap))
        /\ SeriesKept(shown.history, c, now, gap)
        /\ shown.wifi # None => shown.wifi = shown.device
    BY DEF NetworkDisplayed, t, c
  <2>3. new.rate \in Maybe(MeasuredRates(u, now, gap))
    <3>1. \A S : None \in Maybe(S)
      BY DEF Maybe
    <3>2. shown.rate \in Maybe(MeasuredRates(None, now, gap)) => shown.rate = None
      BY RatesOfNone
    <3> QED BY <2>1, <2>2, <3>1, <3>2, <1>1
  <2>4. SeriesKept(new.history, d, now, gap)
    <3>1. SeriesKept(<<>>, d, now, gap)
      BY DEF SeriesKept
    <3> QED BY <2>1, <2>2, <3>1, <1>1, <1>4
  <2>5. new.wifi # None => new.wifi = new.device
    BY <2>1, <2>2
  <2> QED BY <2>1, <2>3, <2>4, <2>5 DEF NetworkDisplayed, new, u, d
<1> QED BY <1>9, <1>10 DEF gone

-----------------------------------------------------------------------------
(* One run.                                                                   *)

(* The interface of a rate job.                                               *)
LEMMA DemandedInterface ==
  ASSUME NetworkTypes
  PROVE  /\ Demanded("NetworkRate") =>
              /\ netDevice = Some(netDevice[1]) /\ netDevice[1] \in Interface
              /\ Tracked(netDevice, netWanted) = netDevice
         /\ Demanded("NetworkHistory") =>
              /\ Demanded("NetworkRate")
              /\ Charted(netDevice, netWanted) = Tracked(netDevice, netWanted)
<1>1. netDevice = None \/ (netDevice[1] \in Interface /\ netDevice = Some(netDevice[1]))
  BY MaybeEither DEF NetworkTypes
<1>2. /\ Demanded("NetworkRate") <=> Tracked(netDevice, netWanted) # None
      /\ Demanded("NetworkHistory") <=> Charted(netDevice, netWanted) # None
  BY NetworkJobsDemanded DEF Demanded
<1> QED BY <1>1, <1>2 DEF Tracked, Charted

(* A new rate is measured: the counter was read before, after the last gap,   *)
(* and has not gone back.                                                     *)
LEMMA AttemptKeeps ==
  ASSUME NetworkTypes, Demanded("NetworkRate"), NEW readable,
         NEW n, NetworkKept(n, netDevice, netWanted, netNow, netGap)
  PROVE  NetworkKept(AttemptNetworkSpeed(n, netDevice[1], readable),
                     netDevice, netWanted, netNow, netGap)
<1> DEFINE i == netDevice[1]
           rates == MeasuredRates(netDevice, netNow, netGap)
           outcome == NetSpeedOutcome(n, i)
           state == NetSpeedState(n, i)
           retained == CommitAttempt(n.rate, outcome, netNow)
           charted == Charted(netDevice, netWanted)
<1>1. netDevice = Some(i) /\ i \in Interface /\ Tracked(netDevice, netWanted) = netDevice
  BY DemandedInterface
<1>2. /\ netNow \in Nat /\ netGap \in 0..netNow /\ wire.bytes[i] \in Nat
  BY <1>1 DEF NetworkTypes
<1>3. /\ NetworkFields(n) /\ RateKept(n, netDevice, netNow, netGap)
      /\ SeriesKept(n.history, charted, netNow, netGap)
  BY <1>1 DEF NetworkKept
<1> HIDE DEF i, charted
<1>4. ASSUME NEW m, NEW r, NetworkFields(m), RateKept(m, netDevice, netNow, netGap),
             SeriesKept(m.history, charted, netNow, netGap),
             r.latest \in Maybe(rates), r.previous \in Maybe(rates)
      PROVE  NetworkKept([m EXCEPT !.rate = r], netDevice, netWanted, netNow, netGap)
  <2> DEFINE new == [m EXCEPT !.rate = r]
  <2>1. /\ NetworkFields(new) /\ new.rate = r
        /\ \A f \in {"device", "bytes", "counted", "history"} : new[f] = m[f]
    BY <1>4 DEF NetworkFields
  <2> HIDE DEF new
  <2>2. RateKept(new, netDevice, netNow, netGap)
    BY <2>1, <1>4 DEF RateKept
  <2> QED BY <2>1, <2>2, <1>1, <1>4 DEF NetworkKept, charted, new
<1>5. n.rate.latest \in Maybe(rates) /\ n.rate.previous \in Maybe(rates)
  BY <1>3 DEF RateKept
<1>6. CASE ~readable
  <2>1. CommitAttempt(n.rate, Failed, netNow) = n.rate
    BY DEF CommitAttempt, Failed, RecordFailure
  <2>2. AttemptNetworkSpeed(n, i, readable) = [n EXCEPT !.rate = n.rate]
    BY <2>1, <1>6 DEF AttemptNetworkSpeed
  <2> QED BY <2>2, <1>3, <1>4, <1>5 DEF i
<1>7. CASE readable
  <2>1. outcome \in {Baseline, Failed, Absent}
          \/ \E v : outcome = Value(v) /\ Sample(v, netNow) \in rates
    <3>1. CASE outcome = Baseline
      BY <3>1
    <3>2. CASE outcome # Baseline
      <4> DEFINE v == [interface |-> i, since |-> n.counted[1], moved |-> wire.bytes[i] - n.bytes]
                 sample == Sample(v, netNow)
      <4>1. /\ outcome = Value(v) /\ ComparableCounter(n, i) /\ n.counted # Some(netNow)
        BY <3>2 DEF NetSpeedOutcome
      <4>2. n.counted[1] \in netGap..netNow /\ n.counted[1] # netNow
        <5>1. n.counted \in Maybe(netGap..netNow)
          BY <1>3 DEF RateKept
        <5>2. n.counted[1] \in netGap..netNow /\ n.counted = Some(n.counted[1])
          BY <5>1, <4>1, MaybeEither DEF ComparableCounter
        <5> QED BY <5>2, <4>1
      <4>3. wire.bytes[i] - n.bytes \in Nat
        BY <4>1, <1>2, <1>3 DEF ComparableCounter, RateKept
      <4>4. /\ v.interface = i /\ v.since = n.counted[1] /\ v.moved = wire.bytes[i] - n.bytes
            /\ v \in [interface : Interface, since : Nat, moved : Nat]
        BY <4>2, <4>3, <1>1, <1>2 DEF i
      <4> HIDE DEF v
      <4>5. /\ sample.value = v /\ sample.at = netNow
            /\ sample \in [value : [interface : Interface, since : Nat, moved : Nat],
                           at : 0..netNow]
        BY <4>4, <1>2 DEF Sample
      <4>6. sample.value.since < sample.at /\ sample.value.since >= netGap
        BY <4>2, <4>4, <4>5, <1>2
      <4>7. Some(sample.value.interface) = netDevice
        BY <4>4, <4>5, <1>1
      <4> HIDE DEF sample
      <4>8. sample \in rates
        BY <4>5, <4>6, <4>7 DEF MeasuredRates
      <4> QED BY <4>1, <4>8 DEF sample
    <3> QED BY <3>1, <3>2
  <2> HIDE DEF outcome, rates
  <2>2. retained.latest \in Maybe(rates) /\ retained.previous \in Maybe(rates)
    BY <2>1, <1>5, CommitKeeps DEF rates
  <2>3. LET m == Counted(n, i)
        IN  NetworkFields(m) /\ RateKept(m, netDevice, netNow, netGap)
            /\ m.history = n.history /\ m.rate = n.rate
    <3> DEFINE m == Counted(n, i)
    <3>1. /\ NetworkFields(m) /\ m.device = Some(i) /\ m.bytes = wire.bytes[i]
          /\ m.counted = Some(netNow) /\ m.history = n.history /\ m.rate = n.rate
      BY <1>3 DEF NetworkFields, Counted
    <3> HIDE DEF m
    <3>2. m.counted \in Maybe(netGap..netNow)
      <4>1. netNow \in netGap..netNow
        BY <1>2
      <4> QED BY <3>1, <4>1 DEF Maybe
    <3>3. RateKept(m, netDevice, netNow, netGap)
      BY <3>1, <3>2, <1>1, <1>2, <1>5 DEF RateKept, rates
    <3> QED BY <3>1, <3>3 DEF m
  <2>4. /\ NetworkFields(state) /\ RateKept(state, netDevice, netNow, netGap)
        /\ SeriesKept(state.history, charted, netNow, netGap) /\ state.rate = n.rate
    <3>1. CASE state = n
      BY <3>1, <1>3
    <3>2. CASE state = Counted(n, i)
      BY <3>2, <2>3, <1>3
    <3>3. CASE state = ResetNetHistory(Counted(n, i))
      <4> DEFINE m == Counted(n, i)
      <4>1. NetworkFields(m) /\ RateKept(m, netDevice, netNow, netGap) /\ m.rate = n.rate
        BY <2>3
      <4> HIDE DEF m
      <4>2. ResetNetHistory(m).rate = m.rate
        BY <4>1 DEF ResetNetHistory, NetworkFields
      <4> QED BY <3>3, <4>1, <4>2, ResetsForget DEF m
    <3> QED BY <3>1, <3>2, <3>3 DEF NetSpeedState
  <2> HIDE DEF state
  <2>5. AttemptNetworkSpeed(n, i, readable) =
          [state EXCEPT !.rate = CommitAttempt(state.rate, outcome, netNow)]
    BY <1>7 DEF AttemptNetworkSpeed, state, outcome
  <2>6. AttemptNetworkSpeed(n, i, readable) = [state EXCEPT !.rate = retained]
    BY <2>5, <2>4
  <2> QED BY <2>2, <2>4, <2>6, <1>4 DEF i, rates
<1> QED BY <1>6, <1>7

(* The route and the Wi-Fi name are apart from what is measured.              *)
LEMMA RouteIsApart ==
  ASSUME NEW device, NEW wanted, NEW now, NEW gap,
         NEW n, NetworkKept(n, device, wanted, now, gap), NEW m, NetworkFields(m),
         \A f \in {"rate", "device", "bytes", "counted", "history"} : m[f] = n[f]
  PROVE  NetworkKept(m, device, wanted, now, gap)
<1>1. /\ m.rate = n.rate /\ m.device = n.device /\ m.bytes = n.bytes
      /\ m.counted = n.counted /\ m.history = n.history
  OBVIOUS
<1> QED BY <1>1 DEF NetworkKept, RateKept

(* Invalidations of the jobs that go are heard by owner and display.          *)
LEMMA RejobKeeps ==
  ASSUME NetworkTypes, NEW n, NEW shown, NEW device \in Maybe(Interface), NEW wanted,
         NetworkKept(n, netDevice, netWanted, netNow, netGap),
         NetworkDisplayed(shown, netDevice, netWanted, netNow, netGap),
         Rejob(n, shown, device, wanted), UNCHANGED <<netNow, netGap>>
  PROVE  /\ NetworkKept(net', netDevice', netWanted', netNow', netGap')
         /\ NetworkDisplayed(netShown', netDevice', netWanted', netNow', netGap')
         /\ netDevice' \in Maybe(Interface)
  BY RetiredIsForgotten DEF Rejob

-----------------------------------------------------------------------------
(* Every step keeps the invariant.                                            *)

(* The network begins with nothing kept and nothing shown.                    *)
LEMMA NetworkInitHolds ==
  ASSUME NetworkInit
  PROVE  NetworkInv
<1>1. NetworkTypes
  <2>1. wire \in [route : {Some(i) : i \in Interface}, bytes : [Interface -> {0}], moves : {0}]
    BY DEF NetworkInit
  <2>2. /\ {"route", "bytes", "moves"} \subseteq DOMAIN wire
        /\ wire.route \in {Some(i) : i \in Interface} /\ wire.bytes \in [Interface -> {0}]
    BY <2>1
  <2>3. wire.bytes \in [Interface -> Nat]
    BY <2>2
  <2> QED BY <2>2, <2>3 DEF NetworkInit, NetworkTypes, Maybe
<1>2. NotRetained.latest = None /\ NotRetained.previous = None
  BY DEF NotRetained
<1>3. \A S : None \in Maybe(S)
  BY DEF Maybe
<1>4. NetworkKept(net, netDevice, netWanted, netNow, netGap)
  <2>1. /\ NetworkFields(net) /\ net.rate = NotRetained /\ net.device = None /\ net.bytes = 0
        /\ net.counted = None /\ net.history = <<>>
    BY DEF NetworkInit, NewNetwork, NetworkFields
  <2> QED BY <2>1, <1>2, <1>3 DEF NetworkKept, RateKept, SeriesKept
<1>5. NetworkDisplayed(netShown, netDevice, netWanted, netNow, netGap)
  <2>1. /\ {"rate", "history", "device", "wifi"} \subseteq DOMAIN netShown
        /\ netShown.rate = None /\ netShown.history = <<>> /\ netShown.wifi = None
    BY DEF NetworkInit, NothingShown
  <2> QED BY <2>1, <1>3 DEF NetworkDisplayed, SeriesKept
<1> QED BY <1>1, <1>4, <1>5 DEF NetworkInv

(* The rate job: reconcile, one attempt, and the publication of its latest    *)
(* rate.                                                                      *)
LEMMA RunNetworkRateKeeps ==
  ASSUME NetworkInv, NEW readable \in BOOLEAN, RunNetworkRate(readable)
  PROVE  NetworkInv'
<1>1. NetworkTypes /\ NetworkKept(net, netDevice, netWanted, netNow, netGap)
      /\ NetworkDisplayed(netShown, netDevice, netWanted, netNow, netGap)
  BY DEF NetworkInv
<1>2. /\ Demanded("NetworkRate")
      /\ net' = AttemptNetworkSpeed(ReconcileNetwork(net), netDevice[1], readable)
      /\ netShown' = [netShown EXCEPT !.rate = net'.rate.latest]
      /\ UNCHANGED <<netDevice, netWanted, wire, netNow, netGap>>
  BY DEF RunNetworkRate
<1>3. NetworkKept(ReconcileNetwork(net), netDevice, netWanted, netNow, netGap)
  BY <1>1, ReconcileKeeps
<1>4. NetworkKept(net', netDevice, netWanted, netNow, netGap)
  BY <1>1, <1>2, <1>3, AttemptKeeps
<1>5. NetworkDisplayed(netShown', netDevice, netWanted, netNow, netGap)
  <2>1. net'.rate.latest \in Maybe(MeasuredRates(Tracked(netDevice, netWanted), netNow, netGap))
    BY <1>4 DEF NetworkKept, RateKept
  <2>2. /\ {"rate", "history", "device", "wifi"} \subseteq DOMAIN netShown'
        /\ netShown'.rate = net'.rate.latest /\ netShown'.history = netShown.history
        /\ netShown'.device = netShown.device /\ netShown'.wifi = netShown.wifi
    BY <1>1, <1>2 DEF NetworkDisplayed
  <2> QED BY <1>1, <2>1, <2>2 DEF NetworkDisplayed
<1> QED BY <1>1, <1>2, <1>4, <1>5 DEF NetworkInv, NetworkTypes

(* The identity job fails to read the name.                                   *)
LEMMA IdentityFailedKeeps ==
  ASSUME NetworkInv, IdentityFailed
  PROVE  NetworkInv'
<1>1. NetworkTypes /\ NetworkKept(net, netDevice, netWanted, netNow, netGap)
      /\ NetworkDisplayed(netShown, netDevice, netWanted, netNow, netGap)
  BY DEF NetworkInv
<1> DEFINE known == ReconcileNetwork(net)
<1>2. NetworkKept(known, netDevice, netWanted, netNow, netGap)
  BY <1>1, ReconcileKeeps
<1> HIDE DEF known
<1>3. /\ net' = [known EXCEPT !.info = CommitAttempt(@, Failed, netNow)]
      /\ UNCHANGED <<netDevice, netWanted, wire, netNow, netGap>>
  BY DEF IdentityFailed, known
<1>4. NetworkKept(net', netDevice, netWanted, netNow, netGap)
  <2>1. /\ NetworkFields(net')
        /\ \A f \in {"rate", "device", "bytes", "counted", "history"} : net'[f] = known[f]
    BY <1>2, <1>3 DEF NetworkKept, NetworkFields
  <2> QED BY <2>1, <1>2, RouteIsApart
<1>5. NetworkDisplayed(netShown', netDevice, netWanted, netNow, netGap)
  <2> DEFINE name == net'.info.latest[1].value
             wifi == IF net'.wifi.latest # None /\ net'.wifi.latest[1].value = name
                     THEN Some(net'.wifi.latest[1].value) ELSE None
  <2>1. CASE netShown' = netShown
    BY <2>1, <1>1
  <2>2. CASE netShown' = [netShown EXCEPT !.device = Some(name), !.wifi = wifi]
    <3>1. wifi # None => wifi = Some(name)
      OBVIOUS
    <3> HIDE DEF wifi, name
    <3>2. /\ {"rate", "history", "device", "wifi"} \subseteq DOMAIN netShown'
          /\ netShown'.rate = netShown.rate /\ netShown'.history = netShown.history
          /\ netShown'.device = Some(name) /\ netShown'.wifi = wifi
      BY <1>1, <2>2 DEF NetworkDisplayed
    <3> QED BY <1>1, <3>1, <3>2 DEF NetworkDisplayed
  <2>3. netShown' \in {netShown, [netShown EXCEPT !.device = Some(name), !.wifi = wifi]}
    BY DEF IdentityFailed
  <2> QED BY <2>1, <2>2, <2>3
<1> QED BY <1>1, <1>3, <1>4, <1>5 DEF NetworkInv, NetworkTypes

(* The identity job reads a name, and the route moves on to it.               *)
LEMMA IdentityReadKeeps ==
  ASSUME NetworkInv, NEW answered \in BOOLEAN, IdentityRead(answered)
  PROVE  NetworkInv'
<1>1. NetworkTypes /\ NetworkKept(net, netDevice, netWanted, netNow, netGap)
      /\ NetworkDisplayed(netShown, netDevice, netWanted, netNow, netGap)
  BY DEF NetworkInv
<1> DEFINE i == wire.route[1]
           reconciled == ReconcileNetwork(net)
           known == AttemptRoute(reconciled, i, answered)
           wifi == IF known.wifi.latest # None /\ known.wifi.latest[1].value = i
                   THEN Some(known.wifi.latest[1].value) ELSE None
           seen == MovedDisplay(netShown, i)
           shown == [seen EXCEPT !.device = Some(i), !.wifi = wifi]
<1>2. /\ Rejob(Moved(known, i), shown, Some(i), netWanted)
      /\ UNCHANGED <<wire, netNow, netGap>> /\ wire.route # None
  BY DEF IdentityRead
<1>3. i \in Interface /\ Some(i) \in Maybe(Interface)
  <2>1. wire.route \in Maybe(Interface)
    BY <1>1 DEF NetworkTypes
  <2>2. i \in Interface
    BY <1>2, <2>1, MaybeEither
  <2> QED BY <2>2 DEF Maybe
<1>4. wifi # None => wifi = Some(i)
  OBVIOUS
<1> HIDE DEF i, wifi
<1>5. NetworkKept(reconciled, netDevice, netWanted, netNow, netGap)
  BY <1>1, ReconcileKeeps
<1> HIDE DEF reconciled
<1>6. NetworkKept(known, netDevice, netWanted, netNow, netGap)
  <2>1. /\ NetworkFields(known)
        /\ \A f \in {"rate", "device", "bytes", "counted", "history"} : known[f] = reconciled[f]
    BY <1>5 DEF NetworkKept, NetworkFields, AttemptRoute
  <2> HIDE DEF known
  <2> QED BY <2>1, <1>5, RouteIsApart
<1> HIDE DEF known
<1>7. NetworkKept(Moved(known, i), netDevice, netWanted, netNow, netGap)
  <2>1. CASE Moved(known, i) = known
    BY <2>1, <1>6
  <2>2. CASE Moved(known, i) = ResetNetHistory(ResetRate(known))
    BY <2>2, <1>6, ResetsForget DEF NetworkKept
  <2> QED BY <2>1, <2>2 DEF Moved
<1>8. NetworkDisplayed(shown, netDevice, netWanted, netNow, netGap)
  <2>1. /\ {"rate", "history", "device", "wifi"} \subseteq DOMAIN seen
        /\ seen.rate \in {None, netShown.rate} /\ seen.history \in {<<>>, netShown.history}
    BY <1>1 DEF MovedDisplay, NetworkDisplayed
  <2> HIDE DEF seen
  <2>2. /\ {"rate", "history", "device", "wifi"} \subseteq DOMAIN shown
        /\ shown.rate = seen.rate /\ shown.history = seen.history
        /\ shown.device = Some(i) /\ shown.wifi = wifi
    BY <2>1
  <2> HIDE DEF shown
  <2>3. \A S : None \in Maybe(S)
    BY DEF Maybe
  <2>4. \A S : <<>> \in Seq(S)
    OBVIOUS
  <2> QED BY <2>1, <2>2, <2>3, <2>4, <1>1, <1>4 DEF NetworkDisplayed, SeriesKept
<1> HIDE DEF shown
<1>9. /\ NetworkKept(net', netDevice', netWanted', netNow', netGap')
      /\ NetworkDisplayed(netShown', netDevice', netWanted', netNow', netGap')
      /\ netDevice' \in Maybe(Interface)
  BY <1>1, <1>2, <1>3, <1>7, <1>8, RejobKeeps
<1> QED BY <1>1, <1>2, <1>9 DEF NetworkInv, NetworkTypes

(* The history job charts the rate at or before its deadline.                 *)
LEMMA RunNetworkHistoryKeeps ==
  ASSUME NetworkInv, NEW deadline \in 0..netNow, RunNetworkHistory(deadline)
  PROVE  NetworkInv'
<1>1. NetworkTypes /\ NetworkKept(net, netDevice, netWanted, netNow, netGap)
      /\ NetworkDisplayed(netShown, netDevice, netWanted, netNow, netGap)
  BY DEF NetworkInv
<1> DEFINE n == ReconcileNetwork(net)
           sample == SampleAtOrBefore(n.rate, deadline)
           point == [deadline |-> deadline, sample |-> sample[1]]
           rates == MeasuredRates(Charted(netDevice, netWanted), netNow, netGap)
           grown == Trimmed(Append(n.history, point), NetGraphLength)
<1>2. /\ Demanded("NetworkHistory")
      /\ net' = IF sample = None THEN n ELSE [n EXCEPT !.history = grown]
      /\ netShown' = IF sample = None THEN netShown
                     ELSE [netShown EXCEPT !.history = net'.history]
      /\ UNCHANGED <<netDevice, netWanted, wire, netNow, netGap>>
  BY DEF RunNetworkHistory
<1>3. NetworkKept(n, netDevice, netWanted, netNow, netGap)
  BY <1>1, ReconcileKeeps
<1>4. Charted(netDevice, netWanted) = Tracked(netDevice, netWanted)
  BY <1>1, <1>2, DemandedInterface
<1> HIDE DEF n
<1>5. n.rate.latest \in Maybe(rates) /\ n.rate.previous \in Maybe(rates)
  BY <1>3, <1>4 DEF NetworkKept, RateKept
<1>6. n.history \in Seq(PointsOf(rates))
  BY <1>3 DEF NetworkKept, SeriesKept
<1> HIDE DEF sample, rates
<1>7. sample # None => sample[1] \in rates /\ sample[1].at <= deadline
  BY <1>5, SampleIsRetained DEF sample
<1>8. sample # None => grown \in Seq(PointsOf(rates))
  <2> SUFFICES ASSUME sample # None
               PROVE  grown \in Seq(PointsOf(rates))
    OBVIOUS
  <2>1. deadline \in Nat
    BY <1>1 DEF NetworkTypes
  <2>2. point \in PointsOf(rates)
    <3>1. /\ point.sample = sample[1] /\ point.deadline = deadline
          /\ point \in [deadline : Nat, sample : rates]
      BY <2>1, <1>7
    <3> HIDE DEF point
    <3> QED BY <3>1, <1>7 DEF PointsOf
  <2> HIDE DEF point
  <2>3. Append(n.history, point) \in Seq(PointsOf(rates))
    BY <2>2, <1>6
  <2>4. NetGraphLength \in Nat
    BY NetworkAssumption
  <2> QED BY <2>3, <2>4, TrimmedSeries
<1> HIDE DEF grown
<1>9. CASE sample = None
  BY <1>1, <1>2, <1>3, <1>9 DEF NetworkInv, NetworkTypes
<1>10. CASE sample # None
  <2>1. /\ net' = [n EXCEPT !.history = grown]
        /\ netShown' = [netShown EXCEPT !.history = net'.history]
    BY <1>2, <1>10
  <2>2. /\ NetworkFields(net') /\ net'.history = grown
        /\ \A f \in {"rate", "device", "bytes", "counted"} : net'[f] = n[f]
    BY <1>3, <2>1 DEF NetworkKept, NetworkFields
  <2>3. NetworkKept(net', netDevice, netWanted, netNow, netGap)
    <3>1. RateKept(net', Tracked(netDevice, netWanted), netNow, netGap)
      BY <1>3, <2>2 DEF NetworkKept, RateKept
    <3>2. SeriesKept(net'.history, Charted(netDevice, netWanted), netNow, netGap)
      BY <1>8, <1>10, <2>2 DEF SeriesKept, rates
    <3> QED BY <2>2, <3>1, <3>2 DEF NetworkKept
  <2>4. /\ {"rate", "history", "device", "wifi"} \subseteq DOMAIN netShown'
        /\ netShown'.history = net'.history
        /\ \A f \in {"rate", "device", "wifi"} : netShown'[f] = netShown[f]
    BY <1>1, <2>1 DEF NetworkDisplayed
  <2>5. NetworkDisplayed(netShown', netDevice, netWanted, netNow, netGap)
    BY <1>1, <2>3, <2>4 DEF NetworkDisplayed, NetworkKept
  <2> QED BY <1>1, <1>2, <2>3, <2>5 DEF NetworkInv, NetworkTypes
<1> QED BY <1>9, <1>10

(* The machine moves on by itself.                                            *)
LEMMA MachineKeeps ==
  ASSUME NetworkInv, ResetNetworkBaseline \/ NetTraffic \/ WireChanges
  PROVE  NetworkInv'
<1>1. NetworkTypes /\ NetworkKept(net, netDevice, netWanted, netNow, netGap)
      /\ NetworkDisplayed(netShown, netDevice, netWanted, netNow, netGap)
  BY DEF NetworkInv
<1>2. netNow \in Nat /\ netGap \in 0..netNow
  BY <1>1 DEF NetworkTypes
<1>3. CASE ResetNetworkBaseline
  <2>1. /\ net' = InvalidateRateBaseline(net) /\ netGap' = netNow
        /\ UNCHANGED <<netShown, netDevice, netWanted, wire, netNow>>
    BY <1>3 DEF ResetNetworkBaseline
  <2>2. /\ NetworkKept(InvalidateRateBaseline(net), netDevice, netWanted, netNow, netNow)
        /\ NetworkDisplayed(netShown, netDevice, netWanted, netNow, netNow)
    BY <1>1, <1>2, KeptLater
  <2> QED BY <1>1, <1>2, <2>1, <2>2 DEF NetworkInv, NetworkTypes
<1>4. CASE NetTraffic
  <2>1. /\ netNow' = netNow + 1 /\ UNCHANGED <<net, netShown, netDevice, netWanted, netGap>>
    BY <1>4 DEF NetTraffic
  <2>2. PICK grown \in SUBSET Interface :
          wire' = [wire EXCEPT !.bytes = [i \in Interface |->
                     IF i \in grown /\ @[i] < MaxBytes THEN @[i] + 1 ELSE @[i]]]
    BY <1>4 DEF NetTraffic
  <2>3. /\ {"route", "bytes", "moves"} \subseteq DOMAIN wire'
        /\ wire'.route = wire.route
        /\ wire'.bytes = [i \in Interface |-> IF i \in grown /\ wire.bytes[i] < MaxBytes
                                               THEN wire.bytes[i] + 1 ELSE wire.bytes[i]]
    BY <1>1, <2>2 DEF NetworkTypes
  <2>4. wire'.bytes \in [Interface -> Nat]
    BY <1>1, <2>3 DEF NetworkTypes
  <2>5. /\ NetworkKept(net, netDevice, netWanted, netNow + 1, netGap)
        /\ NetworkDisplayed(netShown, netDevice, netWanted, netNow + 1, netGap)
    <3>1. netNow + 1 \in Nat /\ netNow <= netNow + 1
      BY <1>2
    <3> QED BY <1>1, <1>2, <3>1, KeptLater
  <2>6. NetworkTypes'
    BY <1>1, <1>2, <2>1, <2>3, <2>4 DEF NetworkTypes
  <2> QED BY <2>1, <2>5, <2>6 DEF NetworkInv
<1>5. CASE WireChanges
  <2>1. UNCHANGED <<net, netShown, netDevice, netWanted, netNow, netGap>>
    BY <1>5 DEF WireChanges
  <2>2. /\ {"route", "bytes", "moves"} \subseteq DOMAIN wire'
        /\ wire'.route \in Maybe(Interface)
        /\ wire'.bytes \in [Interface -> Nat]
    <3>1. CASE \E route \in {None} \cup {Some(i) : i \in Interface} :
                 wire' = [wire EXCEPT !.route = route, !.moves = @ + 1]
      BY <1>1, <3>1 DEF NetworkTypes, Maybe
    <3>2. CASE \E i \in Interface : wire' = [wire EXCEPT !.bytes[i] = 0, !.moves = @ + 1]
      <4>1. PICK i \in Interface : wire' = [wire EXCEPT !.bytes[i] = 0, !.moves = @ + 1]
        BY <3>2
      <4>2. /\ {"route", "bytes", "moves"} \subseteq DOMAIN wire'
            /\ wire'.route = wire.route /\ wire'.bytes = [wire.bytes EXCEPT ![i] = 0]
        BY <1>1, <4>1 DEF NetworkTypes
      <4>3. [wire.bytes EXCEPT ![i] = 0] \in [Interface -> Nat]
        BY <1>1 DEF NetworkTypes
      <4> QED BY <1>1, <4>2, <4>3 DEF NetworkTypes
    <3> QED BY <1>5, <3>1, <3>2 DEF WireChanges
  <2> QED BY <1>1, <2>1, <2>2 DEF NetworkInv, NetworkTypes
<1> QED BY <1>3, <1>4, <1>5

(* Discoveries and demands reset the owners of the jobs that end.             *)
LEMMA JobsChangeKeeps ==
  ASSUME NetworkInv, NetworkDiscovered \/ \E wanted \in Demands : NetworkDemand(wanted)
  PROVE  NetworkInv'
<1>1. NetworkTypes /\ NetworkKept(net, netDevice, netWanted, netNow, netGap)
      /\ NetworkDisplayed(netShown, netDevice, netWanted, netNow, netGap)
  BY DEF NetworkInv
<1>2. netDevice \in Maybe(Interface) /\ wire.route \in Maybe(Interface)
  BY <1>1 DEF NetworkTypes
<1>3. CASE NetworkDiscovered
  <2>1. Rejob(net, netShown, wire.route, netWanted) /\ UNCHANGED <<wire, netNow, netGap>>
    BY <1>3 DEF NetworkDiscovered
  <2>2. /\ NetworkKept(net', netDevice', netWanted', netNow', netGap')
        /\ NetworkDisplayed(netShown', netDevice', netWanted', netNow', netGap')
        /\ netDevice' \in Maybe(Interface)
    BY <1>1, <1>2, <2>1, RejobKeeps
  <2> QED BY <1>1, <2>1, <2>2 DEF NetworkInv, NetworkTypes
<1>4. CASE \E wanted \in Demands : NetworkDemand(wanted)
  <2>1. PICK wanted \in Demands :
          /\ Rejob(net, netShown, netDevice, wanted) /\ UNCHANGED <<netNow, netGap>>
          /\ wire' = [wire EXCEPT !.moves = @ + 1]
    BY <1>4 DEF NetworkDemand
  <2>2. /\ NetworkKept(net', netDevice', netWanted', netNow', netGap')
        /\ NetworkDisplayed(netShown', netDevice', netWanted', netNow', netGap')
        /\ netDevice' \in Maybe(Interface)
    BY <1>1, <1>2, <2>1, RejobKeeps
  <2>3. /\ {"route", "bytes", "moves"} \subseteq DOMAIN wire'
        /\ wire'.route = wire.route /\ wire'.bytes = wire.bytes
    BY <1>1, <2>1 DEF NetworkTypes
  <2> QED BY <1>1, <2>1, <2>2, <2>3 DEF NetworkInv, NetworkTypes
<1> QED BY <1>3, <1>4

(* Every step of the network keeps its invariant.                             *)
LEMMA NetworkStepKeeps ==
  ASSUME NetworkInv, [NetworkNext]_networkVars
  PROVE  NetworkInv'
<1>1. CASE \E readable \in BOOLEAN : RunNetworkRate(readable)
  BY <1>1, RunNetworkRateKeeps
<1>2. CASE IdentityFailed
  BY <1>2, IdentityFailedKeeps
<1>3. CASE \E answered \in BOOLEAN : IdentityRead(answered)
  BY <1>3, IdentityReadKeeps
<1>4. CASE \E deadline \in 0..netNow : RunNetworkHistory(deadline)
  BY <1>4, RunNetworkHistoryKeeps
<1>5. CASE ResetNetworkBaseline \/ NetTraffic \/ WireChanges
  BY <1>5, MachineKeeps
<1>6. CASE NetworkDiscovered \/ \E wanted \in Demands : NetworkDemand(wanted)
  BY <1>6, JobsChangeKeeps
<1>7. CASE UNCHANGED networkVars
  BY <1>7 DEF networkVars, NetworkInv, NetworkTypes
<1> QED BY <1>1, <1>2, <1>3, <1>4, <1>5, <1>6, <1>7 DEF NetworkNext

(* What the invariant says of the display.                                    *)
LEMMA NetworkInvShows ==
  ASSUME NetworkInv
  PROVE  NetworkSamplesHold
<1>1. NetworkTypes /\ NetworkKept(net, netDevice, netWanted, netNow, netGap)
      /\ NetworkDisplayed(netShown, netDevice, netWanted, netNow, netGap)
  BY DEF NetworkInv
<1> DEFINE tracked == MeasuredRates(Tracked(netDevice, netWanted), netNow, netGap)
           charted == MeasuredRates(Charted(netDevice, netWanted), netNow, netGap)
<1>2. \A s \in tracked \cup charted :
        /\ Some(s.value.interface) = netDevice
        /\ s.value.moved >= 0 /\ s.value.since < s.at
        /\ s.at > netGap => s.value.since >= netGap
  <2>1. \A d : \A s \in MeasuredRates(d, netNow, netGap) :
          /\ Some(s.value.interface) = d
          /\ s.value.moved >= 0 /\ s.value.since < s.at
          /\ s.at > netGap => s.value.since >= netGap
    BY DEF MeasuredRates
  <2>2. /\ Tracked(netDevice, netWanted) \in {None, netDevice}
        /\ Charted(netDevice, netWanted) \in {None, netDevice}
    BY DEF Tracked, Charted
  <2>3. MeasuredRates(None, netNow, netGap) = {}
    BY NoInterfaceNoRates
  <2> QED BY <2>1, <2>2, <2>3
<1> HIDE DEF tracked, charted
<1>3. \A series \in {net.history, netShown.history} :
        /\ series \in Seq(PointsOf(charted))
        /\ \A p \in DOMAIN series : /\ series[p].sample \in charted
                                    /\ series[p].sample.at <= series[p].deadline
  <2>1. \A series \in {net.history, netShown.history} : series \in Seq(PointsOf(charted))
    BY <1>1 DEF NetworkKept, NetworkDisplayed, SeriesKept, charted
  <2>2. \A series \in Seq(PointsOf(charted)) : \A p \in DOMAIN series :
          series[p] \in PointsOf(charted)
    OBVIOUS
  <2>3. \A p \in PointsOf(charted) : p.sample \in charted /\ p.sample.at <= p.deadline
    BY DEF PointsOf
  <2> QED BY <2>1, <2>2, <2>3
<1>4. NetworkAgrees
  <2>1. netShown.rate # None => Some(netShown.rate[1].value.interface) = netDevice
    <3>1. netShown.rate \in Maybe(tracked)
      BY <1>1 DEF NetworkDisplayed, tracked
    <3> QED BY <3>1, <1>2, MaybeEither
  <2>2. netShown.wifi # None => netShown.wifi = netShown.device
    BY <1>1 DEF NetworkDisplayed
  <2>3. \A series \in {net.history, netShown.history} : \A p \in DOMAIN series :
          Some(series[p].sample.value.interface) = netDevice
    BY <1>2, <1>3
  <2> QED BY <2>1, <2>2, <2>3 DEF NetworkAgrees
<1>5. Values(net.rate) \subseteq tracked
  <2>1. \A m \in Maybe(tracked) : \A k \in DOMAIN m : m[k] \in tracked
    BY DEF Maybe, Some, None
  <2>2. net.rate.latest \in Maybe(tracked) /\ net.rate.previous \in Maybe(tracked)
    BY <1>1 DEF NetworkKept, RateKept, tracked
  <2> QED BY <2>1, <2>2 DEF Values
<1>6. RatesAreMeasured
  BY <1>2, <1>3, <1>5 DEF RatesAreMeasured
<1> QED BY <1>4, <1>6 DEF NetworkSamplesHold

(* What is shown of the network is of the interface beside it, and measured:  *)
(* reconcile_sources, read_net_speed_once and invalidate_scheduled_job, in    *)
(* any order of their runs.                                                   *)
THEOREM NetworkShowsItsInterface == NetworkSpec => []NetworkSamplesHold
<1>1. NetworkInit => NetworkInv
  BY NetworkInitHolds
<1>2. NetworkInv /\ [NetworkNext]_networkVars => NetworkInv'
  BY NetworkStepKeeps
<1>3. NetworkInv => NetworkSamplesHold
  BY NetworkInvShows
<1> QED BY <1>1, <1>2, <1>3, PTL DEF NetworkSpec

-----------------------------------------------------------------------------
(* What the inventories name.                                                 *)
AmdCards == {hw.amd[1].pci : hw \in {h \in GpuHardware : h.amd # None}}
CodecPaths == {None} \cup {hw.amd[1].codec : hw \in {h \in GpuHardware : h.amd # None}}

(* The loads of one card, if any, by now, and the samples of such loads.      *)
LoadsOf(source, now) ==
  {l \in [card : Cards, path : CodecPaths, at : 0..now] : Some(l.card) = source}

LoadSamples(source, now) ==
  {s \in [value : LoadsOf(source, now), at : 0..now] : s.value.at <= s.at}

OutcomesOf(source, now) ==
  {Baseline, Failed, Absent} \cup {Value(l) : l \in LoadsOf(source, now)}

(* A codec value of an AMD card was read from the file the inventory names.   *)
OfNamedCodec(outcome, card, hw, at) ==
  card \in AmdCards /\ outcome.kind = "Value" =>
    /\ hw.amd # None /\ hw.amd[1].pci = card
    /\ outcome.value.path = hw.amd[1].codec
    /\ outcome.value.at <= at

(* What the loop keeps of the completions of a card.                          *)
CardPoints(card, hw, now) ==
  {s \in [value : [usage   : Maybe(LoadsOf(Some(card), now)),
                   decoder : Maybe(LoadsOf(Some(card), now)),
                   outcome : OutcomesOf(Some(card), now)],
          at : 0..now] :
     /\ s.value.usage # None => s.value.usage[1].at <= s.at
     /\ OfNamedCodec(s.value.outcome, card, hw, s.at)}

(* The points of a series of one card.                                        *)
UsagePoints(source, now) ==
  {p \in [deadline : Nat, value : LoadsOf(source, now), codec : CodecPaths] :
     p.value.at <= p.deadline}

DecoderPoints(source, now) ==
  {p \in [deadline : Nat, value : LoadsOf(source, now), codec : CodecPaths] :
     source \in {Some(card) : card \in AmdCards} =>
       p.value.at <= p.deadline /\ p.value.path = p.codec}

(* The owners of the cards keep loads of the card they read.                  *)
NvidiaKept(n, now) ==
  LET loads == Maybe(LoadsOf(Some("nvidia"), now))
  IN  /\ {"samples", "decoder", "nvmlFailed", "initFailed", "fallbackAt"} \subseteq DOMAIN n
      /\ n.decoder.latest \in Maybe(LoadSamples(Some("nvidia"), now))
      /\ n.samples.latest # None =>
           LET s == n.samples.latest[1]
           IN  /\ s.at \in 0..now
               /\ s.value.usage \in loads /\ s.value.decoder \in loads
               /\ s.value.usage # None => s.value.usage[1].at <= s.at

AmdCard(a) == IF a.source = None THEN None ELSE Some(a.source[1].pci)

AmdKept(a, now) ==
  /\ {"source", "usage", "codec"} \subseteq DOMAIN a
  /\ a.usage.latest \in Maybe(LoadSamples(AmdCard(a), now))
  /\ a.codec.latest \in Maybe(LoadSamples(AmdCard(a), now))
  /\ a.codec.latest # None => a.codec.latest[1].value.path = a.source[1].codec

IntelKept(i, now) ==
  /\ {"source", "usage", "counted"} \subseteq DOMAIN i
  /\ i.usage.latest \in Maybe(LoadSamples(i.source, now))

(* The owner of the series keeps one card's.                                  *)
GpuHistoryKept(h, selected, now) ==
  /\ {"source", "usage", "decoder", "latest"} \subseteq DOMAIN h
  /\ h.source \in {None, selected}
  /\ h.usage \in Seq(UsagePoints(h.source, now))
  /\ h.decoder \in Seq(DecoderPoints(h.source, now))
  /\ h.latest \in Maybe(LoadsOf(h.source, now))

GpuDisplayed(shown, selected, now) ==
  /\ {"nvidia", "amd", "intel", "usage", "decoder"} \subseteq DOMAIN shown
  /\ shown.nvidia.decoder \in Maybe(LoadsOf(Some("nvidia"), now))
  /\ shown.usage \in Seq(UsagePoints(selected, now))
  /\ shown.decoder \in Seq(DecoderPoints(selected, now))

PointsKept(kept, hw, now) ==
  /\ DOMAIN kept = Cards
  /\ \A card \in Cards :
       /\ kept[card].latest \in Maybe(CardPoints(card, hw, now))
       /\ kept[card].previous \in Maybe(CardPoints(card, hw, now))

DecodersKept(kept, hw, now) ==
  /\ {"nvidia", "intel"} \subseteq DOMAIN kept
  /\ kept.nvidia \in Maybe(OutcomesOf(Some("nvidia"), now))
  /\ kept.intel \in Maybe(OutcomesOf(hw.intel, now))

(* The run of the series has its point of the selected card.                  *)
RunKept(run, hw, now) ==
  run # None =>
    /\ SelectedCard(hw) # None
    /\ run[1].deadline \in Nat
    /\ run[1].decoder \in OutcomesOf(SelectedCard(hw), now)
    /\ run[1].point \in Maybe(CardPoints(SelectedCard(hw)[1], hw, now))
    /\ run[1].point # None => run[1].point[1].at <= run[1].deadline

GpuInv ==
  /\ gpuHw \in GpuHardware /\ gpuNow \in Nat
  /\ {"nvidia", "amd", "intel", "history"} \subseteq DOMAIN gpu
  /\ NvidiaKept(gpu.nvidia, gpuNow)
  /\ AmdKept(gpu.amd, gpuNow)
  /\ IntelKept(gpu.intel, gpuNow)
  /\ GpuHistoryKept(gpu.history, SelectedCard(gpuHw), gpuNow)
  /\ PointsKept(points, gpuHw, gpuNow)
  /\ DecodersKept(decoders, gpuHw, gpuNow)
  /\ RunKept(gpuRun, gpuHw, gpuNow)
  /\ GpuDisplayed(gpuShown, SelectedCard(gpuHw), gpuNow)

-----------------------------------------------------------------------------
(* Cards, loads and outcomes.                                                 *)

(* The cards of an inventory, and which of them are AMD cards.                *)
LEMMA HardwareShape ==
  ASSUME NEW hw \in GpuHardware
  PROVE  /\ hw.amd # None =>
              /\ hw.amd = Some(hw.amd[1]) /\ hw.amd[1].pci \in Cards
              /\ hw.amd[1].pci \in AmdCards /\ hw.amd[1].codec \in CodecPaths
         /\ hw.intel # None =>
              /\ hw.intel = Some(hw.intel[1]) /\ hw.intel[1] \in Cards
              /\ hw.intel[1] \notin AmdCards
         /\ "nvidia" \in Cards /\ "nvidia" \notin AmdCards
<1>1. hw.amd # None => /\ hw.amd = Some(hw.amd[1]) /\ hw.amd[1].pci \in AmdCards
                       /\ hw.amd[1].codec \in CodecPaths
  BY GpuAssumption DEF AmdCards, CodecPaths
<1>2. hw.intel # None => hw.intel = Some(hw.intel[1]) /\ hw.intel[1] \notin AmdCards
  BY GpuAssumption DEF AmdCards
<1>3. "nvidia" \in Cards /\ "nvidia" \notin AmdCards
  BY GpuAssumption DEF AmdCards, Cards
<1>4. \A x : 1 \in DOMAIN Some(x)
  BY DEF Some
<1>5. hw.amd # None => hw.amd[1].pci \in Cards
  <2> SUFFICES ASSUME hw.amd # None PROVE hw.amd[1].pci \in Cards
    OBVIOUS
  <2>1. 1 \in DOMAIN hw.amd
    BY <1>1, <1>4
  <2>2. hw.amd[1].pci \in {hw.amd[i].pci : i \in DOMAIN hw.amd}
                          \cup {hw.intel[i] : i \in DOMAIN hw.intel}
    BY <2>1
  <2> QED BY <2>2 DEF Cards
<1>6. hw.intel # None => hw.intel[1] \in Cards
  <2> SUFFICES ASSUME hw.intel # None PROVE hw.intel[1] \in Cards
    OBVIOUS
  <2>1. 1 \in DOMAIN hw.intel
    BY <1>2, <1>4
  <2>2. hw.intel[1] \in {hw.amd[i].pci : i \in DOMAIN hw.amd}
                        \cup {hw.intel[i] : i \in DOMAIN hw.intel}
    BY <2>1
  <2> QED BY <2>2 DEF Cards
<1> QED BY <1>1, <1>2, <1>3, <1>5, <1>6

(* The NVIDIA card has a name in every inventory, and no codec file is a      *)
(* path.                                                                      *)
LEMMA NamesThatAreAlways == "nvidia" \in Cards /\ None \in CodecPaths
<1>1. "nvidia" \in Cards
  BY DEF Cards
<1>2. None \in CodecPaths
  BY Zenon DEF CodecPaths
<1> QED BY <1>1, <1>2

(* The selected card; it is an AMD card only when one is selected.            *)
LEMMA SelectedShape ==
  ASSUME NEW hw \in GpuHardware
  PROVE  /\ SelectedCard(hw) # None =>
              SelectedCard(hw) = Some(SelectedCard(hw)[1]) /\ SelectedCard(hw)[1] \in Cards
         /\ hw.nvidia => SelectedCard(hw) = Some("nvidia")
         /\ ~hw.nvidia /\ hw.amd # None => SelectedCard(hw) = Some(hw.amd[1].pci)
         /\ ~hw.nvidia /\ hw.amd = None => SelectedCard(hw) = hw.intel
         /\ SelectedCard(hw) \in {Some(card) : card \in AmdCards} <=> ~hw.nvidia /\ hw.amd # None
<1>1. /\ hw.nvidia => SelectedCard(hw) = Some("nvidia")
      /\ ~hw.nvidia /\ hw.amd # None => SelectedCard(hw) = Some(hw.amd[1].pci)
      /\ ~hw.nvidia /\ hw.amd = None => SelectedCard(hw) = hw.intel
  BY DEF SelectedCard
<1>2. \A x : Some(x) # None /\ Some(x)[1] = x
  BY SomeIsNotNone
<1>3. \A x : Some(x) \in {Some(card) : card \in AmdCards} <=> x \in AmdCards
  BY <1>2
<1>4. None \notin {Some(card) : card \in AmdCards}
  BY <1>2
<1> DEFINE selected == SelectedCard(hw)
           amd == {Some(card) : card \in AmdCards}
<1> HIDE DEF amd
<1>5. CASE hw.nvidia
  BY <1>1, <1>2, <1>3, <1>5, HardwareShape DEF amd
<1>6. CASE ~hw.nvidia /\ hw.amd # None
  BY <1>1, <1>2, <1>3, <1>6, HardwareShape DEF amd
<1>7. CASE ~hw.nvidia /\ hw.amd = None
  <2>1. selected = hw.intel
    BY <1>1, <1>7
  <2>2. selected # None => selected = Some(selected[1]) /\ selected[1] \in Cards
                           /\ selected[1] \notin AmdCards
    BY <2>1, HardwareShape
  <2>3. selected \notin amd
    <3>1. CASE selected = None
      BY <3>1, <1>4 DEF amd
    <3>2. CASE selected # None
      BY <3>2, <2>2, <1>3 DEF amd
    <3> QED BY <3>1, <3>2
  <2> QED BY <1>7, <2>1, <2>2, <2>3 DEF amd
<1> QED BY <1>5, <1>6, <1>7

(* No load is of no card.                                                     *)
LEMMA NoCardNoLoads ==
  ASSUME NEW now
  PROVE  LoadsOf(None, now) = {}
  BY SomeIsNotNone DEF LoadsOf

(* As time goes on the loads are those there were.                            *)
LEMMA LoadsLater ==
  ASSUME NEW now \in Nat, NEW later \in Nat, now <= later, NEW source
  PROVE  /\ LoadsOf(source, now) \subseteq LoadsOf(source, later)
         /\ LoadSamples(source, now) \subseteq LoadSamples(source, later)
         /\ OutcomesOf(source, now) \subseteq OutcomesOf(source, later)
         /\ UsagePoints(source, now) \subseteq UsagePoints(source, later)
         /\ DecoderPoints(source, now) \subseteq DecoderPoints(source, later)
<1>1. LoadsOf(source, now) \subseteq LoadsOf(source, later)
  <2>1. [card : Cards, path : CodecPaths, at : 0..now]
          \subseteq [card : Cards, path : CodecPaths, at : 0..later]
    OBVIOUS
  <2> QED BY <2>1 DEF LoadsOf
<1> DEFINE old == LoadsOf(source, now)
           new == LoadsOf(source, later)
<1> HIDE DEF old, new
<1>2. old \subseteq new
  BY <1>1 DEF old, new
<1>3. [value : old, at : 0..now] \subseteq [value : new, at : 0..later]
  BY <1>2
<1>4. LoadSamples(source, now) \subseteq LoadSamples(source, later)
  BY <1>3 DEF LoadSamples, old, new
<1>5. OutcomesOf(source, now) \subseteq OutcomesOf(source, later)
  BY <1>1 DEF OutcomesOf
<1>6. [deadline : Nat, value : old, codec : CodecPaths]
        \subseteq [deadline : Nat, value : new, codec : CodecPaths]
  BY <1>2
<1>7. UsagePoints(source, now) \subseteq UsagePoints(source, later)
  BY <1>6 DEF UsagePoints, old, new
<1>8. DecoderPoints(source, now) \subseteq DecoderPoints(source, later)
  BY <1>6 DEF DecoderPoints, old, new
<1> QED BY <1>1, <1>4, <1>5, <1>7, <1>8

(* As time goes on the completions kept of a card are those there were.       *)
LEMMA CardPointsLater ==
  ASSUME NEW now \in Nat, NEW later \in Nat, now <= later, NEW card, NEW hw
  PROVE  CardPoints(card, hw, now) \subseteq CardPoints(card, hw, later)
<1> DEFINE old == Maybe(LoadsOf(Some(card), now))
           new == Maybe(LoadsOf(Some(card), later))
           told == OutcomesOf(Some(card), now)
           tell == OutcomesOf(Some(card), later)
<1>1. old \subseteq new /\ told \subseteq tell
  BY LoadsLater, MaybeMonotonic
<1> HIDE DEF old, new, told, tell
<1>2. [value : [usage : old, decoder : old, outcome : told], at : 0..now] \subseteq
        [value : [usage : new, decoder : new, outcome : tell], at : 0..later]
  BY <1>1
<1> QED BY <1>2 DEF CardPoints, old, new, told, tell

(* A load by now.                                                             *)
LEMMA LoadIsOf ==
  ASSUME NEW card \in Cards, NEW path \in CodecPaths, NEW now \in Nat, NEW at \in 0..now
  PROVE  /\ Load(card, path, at) \in LoadsOf(Some(card), now)
         /\ Load(card, path, at).at = at /\ Load(card, path, at).path = path
         /\ Sample(Load(card, path, at), at) \in LoadSamples(Some(card), now)
<1> DEFINE l == Load(card, path, at)
           s == Sample(l, at)
<1>1. /\ l \in [card : Cards, path : CodecPaths, at : 0..now]
      /\ l.card = card /\ l.at = at /\ l.path = path
  BY DEF Load
<1> HIDE DEF l
<1>2. l \in LoadsOf(Some(card), now)
  BY <1>1 DEF LoadsOf
<1>3. /\ s \in [value : LoadsOf(Some(card), now), at : 0..now]
      /\ s.value = l /\ s.at = at
  BY <1>2 DEF Sample
<1> HIDE DEF s
<1>4. s \in LoadSamples(Some(card), now)
  BY <1>1, <1>3 DEF LoadSamples
<1> QED BY <1>1, <1>2, <1>4 DEF l, s

(* The latest load of what is retained.                                       *)
LEMMA LatestLoadIsOf ==
  ASSUME NEW source, NEW now, NEW r, r.latest \in Maybe(LoadSamples(source, now))
  PROVE  /\ LatestLoad(r) \in Maybe(LoadsOf(source, now))
         /\ r.latest # None <=> LatestLoad(r) # None
         /\ r.latest # None => /\ LatestLoad(r)[1] = r.latest[1].value
                               /\ r.latest[1].at \in 0..now
                               /\ r.latest[1].value.at <= r.latest[1].at
<1>1. r.latest # None => /\ r.latest[1].value \in LoadsOf(source, now)
                         /\ r.latest[1].at \in 0..now
                         /\ r.latest[1].value.at <= r.latest[1].at
  BY MaybeEither DEF LoadSamples
<1> QED BY <1>1, SomeIsNotNone DEF LatestLoad, Maybe

-----------------------------------------------------------------------------
(* The owners.                                                                *)

(* The fields of the NVIDIA owner that a run leaves alone or sets.            *)
LEMMA NvidiaFrame ==
  ASSUME NEW n, NEW m, NEW now, NvidiaKept(n, now),
         {"samples", "decoder", "nvmlFailed", "initFailed", "fallbackAt"} \subseteq DOMAIN m,
         m.samples = n.samples, m.decoder = n.decoder
  PROVE  NvidiaKept(m, now)
  BY DEF NvidiaKept

(* What the driver or the command answers of the decoder.                     *)
LEMMA DecoderReadIsOutcome ==
  ASSUME NEW kind \in {"Value", "Absent", "Failed"}, NEW now \in Nat,
         NEW n, NvidiaKept(n, now)
  PROVE  CommitAttempt(n.decoder, DecoderRead(kind, now), now).latest
           \in Maybe(LoadSamples(Some("nvidia"), now))
<1> DEFINE outcome == DecoderRead(kind, now)
           S == LoadSamples(Some("nvidia"), now)
           l == Load("nvidia", None, now)
<1>1. "nvidia" \in Cards /\ None \in CodecPaths /\ now \in 0..now
  BY NamesThatAreAlways
<1>2. Sample(l, now) \in S
  BY <1>1, LoadIsOf
<1> HIDE DEF S, l
<1>3. outcome \in {Baseline, Failed, Absent} \/ outcome = Value(l)
  BY DEF DecoderRead, Failed, Absent, l
<1> HIDE DEF outcome
<1>4. n.decoder.latest \in Maybe(S)
  BY DEF NvidiaKept, S
<1> QED BY <1>2, <1>3, <1>4, CommitKeeps DEF outcome, S

(* A new pair of usage and decoder.                                           *)
LEMMA NvidiaSampled ==
  ASSUME NEW n, NEW now \in Nat, NvidiaKept(n, now),
         NEW known, known.latest \in Maybe(LoadSamples(Some("nvidia"), now)),
         NEW m, {"samples", "decoder", "nvmlFailed", "initFailed", "fallbackAt"} \subseteq DOMAIN m,
         m.decoder = known,
         m.samples = RecordValue(n.samples, [usage |-> Some(Load("nvidia", None, now)),
                                             decoder |-> LatestLoad(known)], now)
  PROVE  NvidiaKept(m, now)
<1> DEFINE l == Load("nvidia", None, now)
           loads == Maybe(LoadsOf(Some("nvidia"), now))
           pair == [usage |-> Some(l), decoder |-> LatestLoad(known)]
<1>1. "nvidia" \in Cards /\ None \in CodecPaths /\ now \in 0..now
  BY NamesThatAreAlways
<1>2. l \in LoadsOf(Some("nvidia"), now) /\ l.at = now
  BY <1>1, LoadIsOf
<1>3. Some(l) \in loads /\ LatestLoad(known) \in loads /\ Some(l)[1] = l
  BY <1>2, LatestLoadIsOf, SomeIsNotNone DEF Maybe
<1> HIDE DEF l, loads
<1>4. pair.usage = Some(l) /\ pair.decoder = LatestLoad(known)
  OBVIOUS
<1>5. m.samples.latest = Some(Sample(pair, now))
  BY DEF RecordValue, l
<1> HIDE DEF pair
<1>6. /\ m.samples.latest[1] = Sample(pair, now)
      /\ Sample(pair, now).value = pair /\ Sample(pair, now).at = now
  BY <1>5, SomeIsNotNone DEF Sample
<1>7. /\ m.samples.latest[1].value = pair /\ m.samples.latest[1].at = now
  BY <1>6
<1> QED BY <1>1, <1>2, <1>3, <1>4, <1>7 DEF NvidiaKept, loads

(* An NVML attempt keeps loads of the NVIDIA card.                            *)
LEMMA AttemptNvmlKeeps ==
  ASSUME NEW n, NEW now \in Nat, NvidiaKept(n, now), NEW result,
         NEW kind \in {"Value", "Absent", "Failed"}
  PROVE  NvidiaKept(AttemptNvml(n, result, DecoderRead(kind, now), now), now)
<1> DEFINE known == CommitAttempt(n.decoder, DecoderRead(kind, now), now)
           pair == [usage |-> Some(Load("nvidia", None, now)), decoder |-> LatestLoad(known)]
           m == AttemptNvml(n, result, DecoderRead(kind, now), now)
           failed == n.initFailed \/ result = "init"
<1>1. known.latest \in Maybe(LoadSamples(Some("nvidia"), now))
  BY DecoderReadIsOutcome
<1>2. m = IF result # "ok" THEN [n EXCEPT !.nvmlFailed = TRUE, !.initFailed = @ \/ result = "init"]
          ELSE [n EXCEPT !.decoder = known, !.nvmlFailed = FALSE,
                         !.samples = RecordValue(@, pair, now)]
  BY DEF AttemptNvml
<1> HIDE DEF m, known
<1>3. {"samples", "decoder", "nvmlFailed", "initFailed", "fallbackAt"} \subseteq DOMAIN n
  BY DEF NvidiaKept
<1>4. CASE result # "ok"
  <2>1. m.samples = n.samples /\ m.decoder = n.decoder /\ DOMAIN m = DOMAIN n
    BY <1>2, <1>3, <1>4
  <2> QED BY <2>1, <1>3, NvidiaFrame DEF m
<1>5. CASE result = "ok"
  <2> HIDE DEF pair
  <2>1. m.samples = RecordValue(n.samples, pair, now) /\ m.decoder = known /\ DOMAIN m = DOMAIN n
    BY <1>2, <1>3, <1>5
  <2> QED BY <2>1, <1>1, <1>3, NvidiaSampled DEF m, pair
<1> QED BY <1>4, <1>5

(* So does an attempt of the fallback command.                                *)
LEMMA AttemptFallbackKeeps ==
  ASSUME NEW n, NEW now \in Nat, NvidiaKept(n, now), NEW answered,
         NEW kind \in {"Value", "Absent", "Failed"}
  PROVE  NvidiaKept(AttemptFallback(n, answered, DecoderRead(kind, now), now), now)
<1> DEFINE known == CommitAttempt(n.decoder, DecoderRead(kind, now), now)
           pair == [usage |-> Some(Load("nvidia", None, now)), decoder |-> LatestLoad(known)]
           m == AttemptFallback(n, answered, DecoderRead(kind, now), now)
           tried == [n EXCEPT !.fallbackAt = Some(now)]
<1>1. known.latest \in Maybe(LoadSamples(Some("nvidia"), now))
  BY DecoderReadIsOutcome
<1>2. m = IF ~answered THEN tried
          ELSE [tried EXCEPT !.decoder = known, !.samples = RecordValue(@, pair, now)]
  BY DEF AttemptFallback
<1> HIDE DEF m, known
<1>3. {"samples", "decoder", "nvmlFailed", "initFailed", "fallbackAt"} \subseteq DOMAIN n
  BY DEF NvidiaKept
<1>4. tried.samples = n.samples /\ tried.decoder = n.decoder /\ DOMAIN tried = DOMAIN n
  BY <1>3
<1> HIDE DEF tried
<1>5. CASE ~answered
  BY <1>2, <1>3, <1>4, <1>5, NvidiaFrame DEF m
<1>6. CASE answered
  <2> HIDE DEF pair
  <2>1. m.samples = RecordValue(n.samples, pair, now) /\ m.decoder = known /\ DOMAIN m = DOMAIN n
    BY <1>2, <1>3, <1>4, <1>6
  <2> QED BY <2>1, <1>1, <1>3, NvidiaSampled DEF m, pair
<1> QED BY <1>5, <1>6

(* An AMD owner that is told another card or another file forgets.            *)
LEMMA ReconcileAmdKeeps ==
  ASSUME NEW a, NEW now, AmdKept(a, now)
  PROVE  AmdKept(ReconcileAmd(a), now) /\ ReconcileAmd(a).source = gpuHw.amd
<1> DEFINE m == ReconcileAmd(a)
<1>1. NotRetained.latest = None
  BY DEF NotRetained
<1>2. \A S : None \in Maybe(S)
  BY DEF Maybe
<1>3. {"source", "usage", "codec"} \subseteq DOMAIN a
  BY DEF AmdKept
<1>4. CASE a.source = gpuHw.amd
  BY <1>4 DEF ReconcileAmd
<1>5. CASE a.source # gpuHw.amd /\ a.source # None /\ gpuHw.amd # None
             /\ a.source[1].pci = gpuHw.amd[1].pci
  <2>1. m = [a EXCEPT !.source = gpuHw.amd, !.codec = NotRetained]
    BY <1>5 DEF ReconcileAmd
  <2>2. /\ {"source", "usage", "codec"} \subseteq DOMAIN m /\ m.source = gpuHw.amd
        /\ m.usage = a.usage /\ m.codec = NotRetained
    BY <2>1, <1>3
  <2> HIDE DEF m
  <2>3. AmdCard(m) = AmdCard(a)
    BY <2>2, <1>5 DEF AmdCard
  <2> QED BY <2>2, <2>3, <1>1, <1>2 DEF AmdKept, m
<1>6. CASE a.source # gpuHw.amd /\ ~(a.source # None /\ gpuHw.amd # None
             /\ a.source[1].pci = gpuHw.amd[1].pci)
  <2>1. m = [NewAmd EXCEPT !.source = gpuHw.amd]
    BY <1>6 DEF ReconcileAmd
  <2>2. /\ {"source", "usage", "codec"} \subseteq DOMAIN m /\ m.source = gpuHw.amd
        /\ m.usage = NotRetained /\ m.codec = NotRetained
    BY <2>1 DEF NewAmd
  <2> HIDE DEF m
  <2> QED BY <2>2, <1>1, <1>2 DEF AmdKept, m
<1> QED BY <1>4, <1>5, <1>6

(* An AMD attempt keeps loads of the card it reads, and of its codec file.    *)
LEMMA SampleAmdKeeps ==
  ASSUME NEW a, NEW now \in Nat, AmdKept(a, now), NEW usageRead, NEW codecRead,
         a.source # None, a.source[1].pci \in Cards, a.source[1].codec \in CodecPaths
  PROVE  LET m == SampleAmd(a, usageRead, codecRead, now)
         IN  AmdKept(m, now) /\ m.source = a.source
<1> DEFINE card == a.source[1].pci
           codec == a.source[1].codec
           used == IF usageRead THEN Value(Load(card, None, now)) ELSE Failed
           coded == IF codec = None THEN Absent
                    ELSE IF codecRead THEN Value(Load(card, codec, now)) ELSE Failed
           usage == CommitAttempt(a.usage, used, now)
           codecs == CommitAttempt(a.codec, coded, now)
           S == LoadSamples(Some(card), now)
           C == {s \in S : s.value.path = codec}
           m == SampleAmd(a, usageRead, codecRead, now)
<1>1. None \in CodecPaths /\ now \in 0..now
  BY NamesThatAreAlways
<1>2. /\ Sample(Load(card, None, now), now) \in S
      /\ Sample(Load(card, codec, now), now) \in S /\ Load(card, codec, now).path = codec
  BY <1>1, LoadIsOf
<1>3. Sample(Load(card, codec, now), now) \in C
  BY <1>2 DEF Sample
<1>4. AmdCard(a) = Some(card)
  BY DEF AmdCard
<1>5. /\ a.usage.latest \in Maybe(S)
      /\ a.codec.latest \in Maybe(C)
  <2> HIDE DEF S, card, codec
  <2>1. a.usage.latest \in Maybe(S) /\ a.codec.latest \in Maybe(S)
    BY <1>4 DEF AmdKept, S
  <2>2. a.codec.latest # None => a.codec.latest[1].value.path = codec
    BY DEF AmdKept, codec
  <2>3. \/ a.codec.latest = None
        \/ a.codec.latest[1] \in S /\ a.codec.latest = Some(a.codec.latest[1])
    BY <2>1, MaybeEither
  <2> QED BY <2>1, <2>2, <2>3 DEF Maybe
<1>6. m = [a EXCEPT !.usage = usage, !.codec = codecs]
  BY DEF SampleAmd
<1>7. /\ {"source", "usage", "codec"} \subseteq DOMAIN m /\ m.source = a.source
      /\ m.usage = usage /\ m.codec = codecs
  <2> HIDE DEF m, usage, codecs
  <2> QED BY <1>6 DEF AmdKept
<1> HIDE DEF S, C, card, codec
<1>8. /\ used \in {Baseline, Failed, Absent} \/ \E v : used = Value(v) /\ Sample(v, now) \in S
      /\ coded \in {Baseline, Failed, Absent} \/ \E v : coded = Value(v) /\ Sample(v, now) \in C
  BY <1>2, <1>3
<1> HIDE DEF used, coded
<1>9. usage.latest \in Maybe(S) /\ codecs.latest \in Maybe(C)
  BY <1>5, <1>8, CommitKeeps
<1> HIDE DEF m, usage, codecs
<1>10. /\ codecs.latest # None => codecs.latest[1].value.path = codec
       /\ codecs.latest \in Maybe(S)
  <2>1. codecs.latest = None \/ codecs.latest[1] \in C
    BY <1>9, MaybeEither
  <2>2. C \subseteq S
    BY DEF C
  <2> QED BY <1>9, <2>1, <2>2, MaybeMonotonic DEF C
<1>11. AmdCard(m) = Some(card)
  BY <1>4, <1>7 DEF AmdCard
<1> QED BY <1>7, <1>9, <1>10, <1>11 DEF AmdKept, S, codec, m

(* The Intel owner.                                                           *)
LEMMA IntelRunKeeps ==
  ASSUME NEW i, NEW now \in Nat, IntelKept(i, now), gpuHw.intel # None,
         gpuHw.intel = Some(gpuHw.intel[1]), gpuHw.intel[1] \in Cards, NEW readable, NEW forward
  PROVE  LET m == AttemptIntelUsage(ReconcileIntel(i), readable, forward, now)
         IN  IntelKept(m, now) /\ m.source = gpuHw.intel
<1> DEFINE r == ReconcileIntel(i)
           outcome == IntelOutcome(r, readable, forward, now)
           usage == CommitAttempt(r.usage, outcome, now)
           S == LoadSamples(gpuHw.intel, now)
           m == AttemptIntelUsage(r, readable, forward, now)
<1>1. IntelKept(r, now) /\ r.source = gpuHw.intel
  <2>1. CASE i.source = gpuHw.intel
    BY <2>1 DEF ReconcileIntel
  <2>2. CASE i.source # gpuHw.intel
    <3>1. r = [NewIntel EXCEPT !.source = gpuHw.intel]
      BY <2>2 DEF ReconcileIntel
    <3>2. /\ {"source", "usage", "counted"} \subseteq DOMAIN r /\ r.source = gpuHw.intel
          /\ r.usage = NotRetained
      BY <3>1 DEF NewIntel
    <3> HIDE DEF r
    <3>3. NotRetained.latest = None
      BY DEF NotRetained
    <3>4. \A T : None \in Maybe(T)
      BY DEF Maybe
    <3> QED BY <3>2, <3>3, <3>4 DEF IntelKept, r
  <2> QED BY <2>1, <2>2
<1> HIDE DEF r
<1>2. outcome \in {Baseline, Failed, Absent} \/ \E v : outcome = Value(v) /\ Sample(v, now) \in S
  <2>1. None \in CodecPaths /\ now \in 0..now
    BY NamesThatAreAlways
  <2>2. Sample(Load(gpuHw.intel[1], None, now), now) \in S
    BY <2>1, LoadIsOf
  <2> HIDE DEF S
  <2>3. outcome \in {Baseline, Failed, Absent} \/ outcome = Value(Load(gpuHw.intel[1], None, now))
    BY <1>1 DEF IntelOutcome
  <2> HIDE DEF outcome
  <2> QED BY <2>2, <2>3
<1> HIDE DEF S, outcome
<1>3. usage.latest \in Maybe(S)
  BY <1>1, <1>2, CommitKeeps DEF IntelKept, S
<1>4. m = [r EXCEPT !.usage = usage, !.counted = IF readable THEN Some(now) ELSE @]
  BY DEF AttemptIntelUsage, outcome
<1> HIDE DEF usage, m
<1>5. /\ {"source", "usage", "counted"} \subseteq DOMAIN m /\ m.source = gpuHw.intel
      /\ m.usage = usage
  BY <1>1, <1>4 DEF IntelKept
<1> QED BY <1>3, <1>5 DEF IntelKept, S, m, r

-----------------------------------------------------------------------------
(* What the loop keeps of the completions.                                    *)

(* A completion is kept under its card.                                       *)
LEMMA KeepPointKeeps ==
  ASSUME PointsKept(points, gpuHw, gpuNow), NEW card \in Cards, NEW sample, NEW outcome,
         sample # None =>
           /\ sample[1].at \in 0..gpuNow
           /\ sample[1].value.usage \in Maybe(LoadsOf(Some(card), gpuNow))
           /\ sample[1].value.decoder \in Maybe(LoadsOf(Some(card), gpuNow))
           /\ sample[1].value.usage # None => sample[1].value.usage[1].at <= sample[1].at
           /\ outcome \in OutcomesOf(Some(card), gpuNow)
           /\ OfNamedCodec(outcome, card, gpuHw, sample[1].at)
  PROVE  PointsKept(KeepPoint(card, sample, outcome), gpuHw, gpuNow)
<1> DEFINE kept == KeepPoint(card, sample, outcome)
           at == sample[1].at
           value == [usage |-> sample[1].value.usage, decoder |-> sample[1].value.decoder,
                     outcome |-> outcome]
           loads == Maybe(LoadsOf(Some(card), gpuNow))
           told == OutcomesOf(Some(card), gpuNow)
<1>1. CASE kept = points
  BY <1>1
<1>2. CASE kept # points
  <2>1. sample # None /\ kept = [points EXCEPT ![card] = RecordValue(@, value, at)]
    BY <1>2 DEF KeepPoint
  <2> HIDE DEF at
  <2>2. /\ value.usage \in loads /\ value.decoder \in loads /\ value.outcome \in told
        /\ value.outcome = outcome /\ value.usage = sample[1].value.usage
        /\ value \in [usage : loads, decoder : loads, outcome : told]
    BY <2>1
  <2> HIDE DEF value
  <2>3. /\ Sample(value, at).value = value /\ Sample(value, at).at = at
        /\ Sample(value, at) \in [value : [usage : loads, decoder : loads, outcome : told],
                                  at : 0..gpuNow]
    BY <2>1, <2>2 DEF Sample, at
  <2>4. Sample(value, at) \in CardPoints(card, gpuHw, gpuNow)
    <3> DEFINE s == Sample(value, at)
    <3>1. s \in [value : [usage : loads, decoder : loads, outcome : told], at : 0..gpuNow]
      BY <2>3
    <3>2. s.value.usage # None => s.value.usage[1].at <= s.at
      BY <2>1, <2>2, <2>3 DEF at
    <3>3. OfNamedCodec(s.value.outcome, card, gpuHw, s.at)
      BY <2>1, <2>2, <2>3 DEF at
    <3> HIDE DEF s
    <3> QED BY <3>1, <3>2, <3>3 DEF CardPoints, s
  <2>5. /\ kept[card].latest = Some(Sample(value, at))
        /\ kept[card].previous = points[card].latest
        /\ DOMAIN kept = Cards
        /\ \A other \in Cards : other # card => kept[other] = points[other]
    <3>1. DOMAIN points = Cards
      BY DEF PointsKept
    <3>2. /\ kept[card] = RecordValue(points[card], value, at) /\ DOMAIN kept = Cards
          /\ \A other \in Cards : other # card => kept[other] = points[other]
      BY <2>1, <3>1
    <3> HIDE DEF kept
    <3> QED BY <3>2 DEF RecordValue
  <2> HIDE DEF kept
  <2>6. kept[card].latest \in Maybe(CardPoints(card, gpuHw, gpuNow))
    BY <2>4, <2>5 DEF Maybe
  <2> QED BY <2>5, <2>6 DEF PointsKept, kept
<1> QED BY <1>1, <1>2

(* The decoder outcome of a completion is of its card.                        *)
LEMMA DecoderOutcomeIsOf ==
  ASSUME NEW source, NEW now, NEW completion, NEW value \in Maybe(LoadsOf(source, now))
  PROVE  DecoderOutcome(completion, value) \in OutcomesOf(source, now)
<1> DEFINE S == LoadsOf(source, now)
<1> HIDE DEF S
<1>1. value # None => value[1] \in S
  BY MaybeEither DEF S
<1>2. value # None => Value(value[1]) \in OutcomesOf(source, now)
  BY <1>1 DEF OutcomesOf, S
<1>3. {Baseline, Failed, Absent} \subseteq OutcomesOf(source, now)
  BY DEF OutcomesOf
<1>4. DecoderOutcome(completion, value) \in {Baseline, Failed, Absent}
        \/ (value # None /\ DecoderOutcome(completion, value) = Value(value[1]))
  BY DEF DecoderOutcome
<1> QED BY <1>2, <1>3, <1>4

-----------------------------------------------------------------------------
(* Steps of the owners.                                                       *)

(* A commit of the NVIDIA owner publishes loads of the NVIDIA card.           *)
LEMMA CommitNvidiaKeeps ==
  ASSUME GpuInv, NEW n, NvidiaKept(n, gpuNow), NEW completion, CommitNvidia(n, completion)
  PROVE  GpuInv'
<1> DEFINE reading == IF n.samples.latest = None THEN gpuShown.nvidia
                      ELSE n.samples.latest[1].value
           outcome == DecoderOutcome(completion, reading.decoder)
           loads == Maybe(LoadsOf(Some("nvidia"), gpuNow))
<1>1. /\ gpu' = [gpu EXCEPT !.nvidia = n]
      /\ gpuShown' = [gpuShown EXCEPT !.nvidia = reading]
      /\ decoders' = [decoders EXCEPT !.nvidia = Some(outcome)]
      /\ points' = KeepPoint("nvidia", n.samples.latest, outcome)
      /\ UNCHANGED <<gpuRun, gpuHw, gpuNow, gpuMoves>>
  BY DEF CommitNvidia, GpuAround
<1>2. reading.decoder \in loads
  BY DEF GpuInv, GpuDisplayed, NvidiaKept
<1> HIDE DEF reading, loads
<1>3. outcome \in OutcomesOf(Some("nvidia"), gpuNow)
  BY <1>2, DecoderOutcomeIsOf DEF loads
<1> HIDE DEF outcome
<1>4. gpuHw \in GpuHardware /\ gpuNow \in Nat
  BY DEF GpuInv
<1>5. "nvidia" \in Cards /\ "nvidia" \notin AmdCards
  BY <1>4, HardwareShape
<1>6. PointsKept(points', gpuHw, gpuNow)
  <2>1. PointsKept(points, gpuHw, gpuNow)
    BY DEF GpuInv
  <2>2. \A at : OfNamedCodec(outcome, "nvidia", gpuHw, at)
    BY <1>5 DEF OfNamedCodec
  <2> QED BY <1>1, <1>3, <1>5, <2>1, <2>2, KeepPointKeeps DEF NvidiaKept
<1>7. /\ {"nvidia", "amd", "intel", "history"} \subseteq DOMAIN gpu'
      /\ gpu'.nvidia = n /\ gpu'.amd = gpu.amd /\ gpu'.intel = gpu.intel
      /\ gpu'.history = gpu.history
  BY <1>1 DEF GpuInv
<1>8. DecodersKept(decoders', gpuHw, gpuNow)
  <2>1. /\ {"nvidia", "intel"} \subseteq DOMAIN decoders'
        /\ decoders'.nvidia = Some(outcome) /\ decoders'.intel = decoders.intel
    BY <1>1 DEF GpuInv, DecodersKept
  <2>2. decoders'.nvidia \in Maybe(OutcomesOf(Some("nvidia"), gpuNow))
    BY <2>1, <1>3 DEF Maybe
  <2> QED BY <2>1, <2>2 DEF GpuInv, DecodersKept
<1>9. GpuDisplayed(gpuShown', SelectedCard(gpuHw), gpuNow)
  <2>1. /\ {"nvidia", "amd", "intel", "usage", "decoder"} \subseteq DOMAIN gpuShown'
        /\ gpuShown'.nvidia = reading /\ gpuShown'.usage = gpuShown.usage
        /\ gpuShown'.decoder = gpuShown.decoder
    BY <1>1 DEF GpuInv, GpuDisplayed
  <2> QED BY <2>1, <1>2 DEF GpuInv, GpuDisplayed, loads
<1> QED BY <1>1, <1>6, <1>7, <1>8, <1>9 DEF GpuInv

(* The runs of the NVIDIA owner, by NVML and by the fallback command.         *)
LEMMA NvidiaRunsKeep ==
  ASSUME GpuInv,
         \/ \E result \in {"ok", "init", "read"}, kind \in {"Value", "Absent", "Failed"} :
              NvmlRuns(result, kind)
         \/ \E answered \in BOOLEAN, kind \in {"Value", "Absent"} : FallbackRuns(answered, kind)
  PROVE  GpuInv'
<1>1. NvidiaKept(gpu.nvidia, gpuNow) /\ gpuNow \in Nat /\ gpuHw \in GpuHardware
  BY DEF GpuInv
<1>2. CASE \E result \in {"ok", "init", "read"}, kind \in {"Value", "Absent", "Failed"} :
             NvmlRuns(result, kind)
  <2>1. PICK result \in {"ok", "init", "read"}, kind \in {"Value", "Absent", "Failed"} :
          NvmlRuns(result, kind)
    BY <1>2
  <2> DEFINE m == AttemptNvml(gpu.nvidia, result, DecoderRead(kind, gpuNow), gpuNow)
             completion == IF result = "ok" THEN "Captured" ELSE "Failed"
  <2>2. NvidiaKept(m, gpuNow)
    BY <1>1, AttemptNvmlKeeps
  <2>3. CommitNvidia(m, completion)
    BY <2>1 DEF NvmlRuns
  <2> HIDE DEF m, completion
  <2> QED BY <2>2, <2>3, CommitNvidiaKeeps
<1>3. CASE \E answered \in BOOLEAN, kind \in {"Value", "Absent"} : FallbackRuns(answered, kind)
  <2>1. PICK answered \in BOOLEAN, kind \in {"Value", "Absent"} : FallbackRuns(answered, kind)
    BY <1>3
  <2> DEFINE n == gpu.nvidia
             m == AttemptFallback(n, answered, DecoderRead(kind, gpuNow), gpuNow)
             completion == IF answered THEN "Captured" ELSE "Failed"
             outcome == Measured(n.samples.latest[1].value.decoder)
  <2>2. NvidiaKept(m, gpuNow)
    BY <1>1, AttemptFallbackKeeps
  <2>3. CASE CommitNvidia(m, completion)
    <3> HIDE DEF m, completion
    <3> QED BY <2>2, <2>3, CommitNvidiaKeeps
  <2>4. CASE CommitNvidia(n, "Captured")
    BY <1>1, <2>4, CommitNvidiaKeeps
  <2>5. CASE /\ points' = KeepPoint("nvidia", n.samples.latest, outcome)
             /\ UNCHANGED <<gpu, decoders, gpuShown>>
             /\ UNCHANGED <<gpuRun, gpuHw, gpuNow, gpuMoves>>
    <3>1. "nvidia" \in Cards /\ "nvidia" \notin AmdCards
      BY <1>1, HardwareShape
    <3>2. \A o, at : OfNamedCodec(o, "nvidia", gpuHw, at)
      BY <3>1 DEF OfNamedCodec
    <3>3. n.samples.latest # None => outcome \in OutcomesOf(Some("nvidia"), gpuNow)
      <4> DEFINE value == n.samples.latest[1].value.decoder
                 S == LoadsOf(Some("nvidia"), gpuNow)
      <4>1. n.samples.latest # None => value \in Maybe(S)
        BY <1>1 DEF NvidiaKept
      <4> HIDE DEF value, S
      <4>2. n.samples.latest # None => value = None \/ value[1] \in S
        BY <4>1, MaybeEither
      <4>3. /\ Measured(value) \in {Baseline, Value(value[1])}
            /\ value = None => Measured(value) = Baseline
        BY DEF Measured
      <4> QED BY <4>2, <4>3 DEF OutcomesOf, S, value
    <3> HIDE DEF outcome
    <3>4. PointsKept(points', gpuHw, gpuNow)
      <4>1. PointsKept(points, gpuHw, gpuNow)
        BY DEF GpuInv
      <4> QED BY <1>1, <2>5, <3>1, <3>2, <3>3, <4>1, KeepPointKeeps DEF NvidiaKept
    <3> QED BY <2>5, <3>4 DEF GpuInv
  <2> QED BY <2>1, <2>3, <2>4, <2>5 DEF FallbackRuns, GpuAround
<1> QED BY <1>2, <1>3

(* The run of the AMD owner.                                                  *)
LEMMA AmdRunsKeep ==
  ASSUME GpuInv, NEW usageRead \in BOOLEAN, NEW codecRead \in BOOLEAN,
         AmdRuns(usageRead, codecRead)
  PROVE  GpuInv'
<1> DEFINE r == ReconcileAmd(gpu.amd)
           a == SampleAmd(r, usageRead, codecRead, gpuNow)
           pair == [usage |-> LatestLoad(a.usage), decoder |-> LatestLoad(a.codec)]
           outcome == CodecOutcome(a, ~codecRead)
           card == gpuHw.amd[1].pci
           loads == Maybe(LoadsOf(Some(card), gpuNow))
<1>1. /\ gpuHw \in GpuHardware /\ gpuNow \in Nat /\ AmdKept(gpu.amd, gpuNow)
      /\ PointsKept(points, gpuHw, gpuNow) /\ gpuHw.amd # None
  BY DEF GpuInv, AmdRuns
<1>2. gpuHw.amd = Some(gpuHw.amd[1]) /\ card \in Cards /\ gpuHw.amd[1].codec \in CodecPaths
  BY <1>1, HardwareShape
<1>3. AmdKept(r, gpuNow) /\ r.source = gpuHw.amd
  BY <1>1, ReconcileAmdKeeps
<1>4. AmdKept(a, gpuNow) /\ a.source = gpuHw.amd
  BY <1>1, <1>2, <1>3, SampleAmdKeeps
<1>5. /\ gpu' = [gpu EXCEPT !.amd = a] /\ gpuShown' = [gpuShown EXCEPT !.amd = pair]
      /\ points' = KeepPoint(a.source[1].pci, Some(Sample(pair, gpuNow)), outcome)
      /\ UNCHANGED decoders /\ UNCHANGED <<gpuRun, gpuHw, gpuNow, gpuMoves>>
  BY DEF AmdRuns, GpuAround
<1> HIDE DEF r, a
<1>6. AmdCard(a) = Some(card)
  BY <1>1, <1>4 DEF AmdCard
<1>7. /\ LatestLoad(a.usage) \in loads /\ LatestLoad(a.codec) \in loads
      /\ LatestLoad(a.usage) # None => LatestLoad(a.usage)[1].at <= gpuNow
      /\ a.codec.latest # None => a.codec.latest[1].value \in LoadsOf(Some(card), gpuNow)
  <2>1. /\ a.usage.latest \in Maybe(LoadSamples(Some(card), gpuNow))
        /\ a.codec.latest \in Maybe(LoadSamples(Some(card), gpuNow))
    BY <1>4, <1>6 DEF AmdKept
  <2>2. LatestLoad(a.usage) \in loads /\ LatestLoad(a.codec) \in loads
    BY <2>1, LatestLoadIsOf
  <2>3. LatestLoad(a.usage) # None => LatestLoad(a.usage)[1] \in LoadsOf(Some(card), gpuNow)
    BY <2>2, MaybeEither
  <2>4. a.codec.latest # None => a.codec.latest[1].value \in LoadsOf(Some(card), gpuNow)
    BY <2>1, MaybeEither DEF LoadSamples
  <2> QED BY <1>1, <2>2, <2>3, <2>4 DEF LoadsOf
<1>8. /\ outcome \in OutcomesOf(Some(card), gpuNow)
      /\ OfNamedCodec(outcome, card, gpuHw, gpuNow)
  <2>1. \/ outcome \in {Baseline, Failed, Absent}
        \/ a.codec.latest # None /\ outcome = Value(a.codec.latest[1].value)
    BY DEF CodecOutcome
  <2>2. CASE outcome \in {Baseline, Failed, Absent}
    <3>1. outcome.kind # "Value"
      BY <2>2 DEF Baseline, Failed, Absent
    <3> QED BY <2>2, <3>1 DEF OutcomesOf, OfNamedCodec
  <2>3. CASE a.codec.latest # None /\ outcome = Value(a.codec.latest[1].value)
    <3> DEFINE l == a.codec.latest[1].value
    <3>1. l \in LoadsOf(Some(card), gpuNow) /\ l.path = gpuHw.amd[1].codec
      BY <1>4, <1>7, <2>3 DEF AmdKept
    <3>2. l.at <= gpuNow
      BY <1>1, <3>1 DEF LoadsOf
    <3> HIDE DEF l
    <3>3. outcome = Value(l) /\ outcome.value = l
      BY <2>3 DEF l, Value
    <3> QED BY <1>1, <3>1, <3>2, <3>3 DEF OutcomesOf, OfNamedCodec
  <2> QED BY <2>1, <2>2, <2>3
<1> HIDE DEF outcome, loads
<1>9. pair.usage = LatestLoad(a.usage) /\ pair.decoder = LatestLoad(a.codec)
  OBVIOUS
<1> HIDE DEF pair
<1>10. PointsKept(points', gpuHw, gpuNow)
  <2> DEFINE sample == Some(Sample(pair, gpuNow))
  <2>1. sample[1] = Sample(pair, gpuNow) /\ sample[1].value = pair /\ sample[1].at = gpuNow
    BY SomeIsNotNone DEF Sample
  <2> HIDE DEF sample
  <2>2. sample[1].value.usage = LatestLoad(a.usage) /\ sample[1].value.decoder = LatestLoad(a.codec)
    BY <2>1, <1>9
  <2>3. PointsKept(KeepPoint(card, sample, outcome), gpuHw, gpuNow)
    <3>1. sample[1].at \in 0..gpuNow
      BY <2>1, <1>1
    <3> QED BY <1>1, <1>2, <1>7, <1>8, <2>1, <2>2, <3>1, KeepPointKeeps DEF loads
  <2> QED BY <1>4, <1>5, <2>3 DEF sample
<1>11. /\ {"nvidia", "amd", "intel", "history"} \subseteq DOMAIN gpu'
       /\ gpu'.nvidia = gpu.nvidia /\ gpu'.amd = a /\ gpu'.intel = gpu.intel
       /\ gpu'.history = gpu.history
  BY <1>5 DEF GpuInv
<1>12. GpuDisplayed(gpuShown', SelectedCard(gpuHw), gpuNow)
  <2>1. /\ {"nvidia", "amd", "intel", "usage", "decoder"} \subseteq DOMAIN gpuShown'
        /\ gpuShown'.nvidia = gpuShown.nvidia /\ gpuShown'.usage = gpuShown.usage
        /\ gpuShown'.decoder = gpuShown.decoder
    BY <1>5 DEF GpuInv, GpuDisplayed
  <2> QED BY <2>1 DEF GpuInv, GpuDisplayed
<1> QED BY <1>4, <1>5, <1>10, <1>11, <1>12 DEF GpuInv

(* The run of the Intel owner, with a counter that may have gone backwards.   *)
LEMMA IntelRunsKeep ==
  ASSUME GpuInv, NEW readable \in BOOLEAN, NEW forward \in BOOLEAN, IntelRuns(readable, forward)
  PROVE  GpuInv'
<1> DEFINE before == ReconcileIntel(gpu.intel)
           i == AttemptIntelUsage(before, readable, forward, gpuNow)
           kind == IntelOutcome(before, readable, forward, gpuNow).kind
           load == [usage |-> LatestLoad(i.usage), decoder |-> LatestLoad(i.usage)]
           reading == IF i.usage.latest = None THEN gpuShown.intel ELSE load
           completion == IF kind = "Value" THEN "Captured" ELSE kind
           outcome == DecoderOutcome(completion, reading.decoder)
           card == gpuHw.intel[1]
           sample == [s \in DOMAIN i.usage.latest |-> Sample(load, i.usage.latest[s].at)]
<1>1. /\ gpuHw \in GpuHardware /\ gpuNow \in Nat /\ IntelKept(gpu.intel, gpuNow)
      /\ PointsKept(points, gpuHw, gpuNow) /\ gpuHw.intel # None
  BY DEF GpuInv, IntelRuns
<1>2. gpuHw.intel = Some(card) /\ card \in Cards /\ card \notin AmdCards
  BY <1>1, HardwareShape
<1>3. IntelKept(i, gpuNow) /\ i.source = gpuHw.intel
  BY <1>1, <1>2, IntelRunKeeps
<1>4. /\ gpu' = [gpu EXCEPT !.intel = i] /\ gpuShown' = [gpuShown EXCEPT !.intel = reading]
      /\ decoders' = [decoders EXCEPT !.intel = Some(outcome)]
      /\ points' = KeepPoint(card, sample, outcome)
      /\ UNCHANGED <<gpuRun, gpuHw, gpuNow, gpuMoves>>
  BY DEF IntelRuns, GpuAround
<1>5. i.usage.latest \in Maybe(LoadSamples(Some(card), gpuNow))
  BY <1>2, <1>3 DEF IntelKept
<1>6. kind = "Value" => i.usage.latest # None
  <2> DEFINE o == IntelOutcome(before, readable, forward, gpuNow)
  <2>1. i.usage = CommitAttempt(before.usage, o, gpuNow)
    <3>1. {"source", "usage", "counted"} \subseteq DOMAIN before
      BY <1>1 DEF ReconcileIntel, IntelKept, NewIntel
    <3> HIDE DEF before
    <3> QED BY <3>1 DEF AttemptIntelUsage
  <2> HIDE DEF i, o
  <2>2. o.kind = "Value" => i.usage = RecordValue(before.usage, o.value, gpuNow)
    BY <2>1 DEF CommitAttempt
  <2>3. \A r, v : RecordValue(r, v, gpuNow).latest # None
    BY SomeIsNotNone DEF RecordValue
  <2> QED BY <2>2, <2>3 DEF o
<1> HIDE DEF i, kind, before
<1>7. LatestLoad(i.usage) \in Maybe(LoadsOf(Some(card), gpuNow))
  BY <1>5, LatestLoadIsOf
<1>8. outcome \in OutcomesOf(Some(card), gpuNow)
  <2>1. CASE i.usage.latest # None
    <3>1. reading.decoder = LatestLoad(i.usage)
      BY <2>1
    <3> HIDE DEF reading
    <3> QED BY <1>7, <3>1, DecoderOutcomeIsOf
  <2>2. CASE i.usage.latest = None
    <3>1. completion # "Captured"
      <4>1. kind # "Value" /\ kind # "Captured"
        <5>1. IntelOutcome(before, readable, forward, gpuNow).kind # "Captured"
          BY DEF IntelOutcome, Failed, Baseline, Value
        <5> QED BY <5>1, <1>6, <2>2 DEF kind
      <4> QED BY <4>1
    <3> HIDE DEF completion, reading
    <3>2. outcome \in {Baseline, Failed, Absent}
      BY <3>1 DEF DecoderOutcome
    <3> QED BY <3>2 DEF OutcomesOf
  <2> QED BY <2>1, <2>2
<1> HIDE DEF outcome, reading
<1>9. load.usage = LatestLoad(i.usage) /\ load.decoder = LatestLoad(i.usage)
  OBVIOUS
<1> HIDE DEF load
<1>10. PointsKept(points', gpuHw, gpuNow)
  <2>1. \A at : OfNamedCodec(outcome, card, gpuHw, at)
    BY <1>2 DEF OfNamedCodec
  <2>2. i.usage.latest = None => sample = None
    <3>1. i.usage.latest = None => DOMAIN i.usage.latest = {}
      BY DEF None
    <3>2. i.usage.latest = None => sample = [s \in {} |-> Sample(load, i.usage.latest[s].at)]
      BY <3>1
    <3>3. [s \in {} |-> Sample(load, i.usage.latest[s].at)] = <<>>
      OBVIOUS
    <3> QED BY <3>2, <3>3 DEF None
  <2>3. i.usage.latest # None =>
          /\ sample[1].at = i.usage.latest[1].at /\ sample[1].value = load
    <3> SUFFICES ASSUME i.usage.latest # None
                 PROVE  sample[1].at = i.usage.latest[1].at /\ sample[1].value = load
      OBVIOUS
    <3>1. 1 \in DOMAIN i.usage.latest
      <4>1. i.usage.latest = Some(i.usage.latest[1])
        BY <1>5, MaybeEither
      <4>2. \A x : 1 \in DOMAIN Some(x)
        BY DEF Some
      <4> QED BY <4>1, <4>2
    <3>2. sample[1] = Sample(load, i.usage.latest[1].at)
      BY <3>1
    <3> HIDE DEF sample
    <3> QED BY <3>2 DEF Sample
  <2> HIDE DEF sample
  <2>4. i.usage.latest # None =>
          /\ LatestLoad(i.usage)[1] = i.usage.latest[1].value
          /\ i.usage.latest[1].at \in 0..gpuNow
          /\ i.usage.latest[1].value.at <= i.usage.latest[1].at
    BY <1>5, LatestLoadIsOf
  <2>5. sample # None =>
          /\ sample[1].at \in 0..gpuNow
          /\ sample[1].value.usage = LatestLoad(i.usage)
          /\ sample[1].value.decoder = LatestLoad(i.usage)
          /\ sample[1].value.usage # None => sample[1].value.usage[1].at <= sample[1].at
    BY <1>9, <2>2, <2>3, <2>4
  <2> QED BY <1>1, <1>2, <1>4, <1>7, <1>8, <2>1, <2>5, KeepPointKeeps
<1>11. /\ {"nvidia", "amd", "intel", "history"} \subseteq DOMAIN gpu'
       /\ gpu'.nvidia = gpu.nvidia /\ gpu'.amd = gpu.amd /\ gpu'.intel = i
       /\ gpu'.history = gpu.history
  BY <1>4 DEF GpuInv
<1>12. DecodersKept(decoders', gpuHw, gpuNow)
  <2>1. /\ {"nvidia", "intel"} \subseteq DOMAIN decoders'
        /\ decoders'.nvidia = decoders.nvidia /\ decoders'.intel = Some(outcome)
    BY <1>4 DEF GpuInv, DecodersKept
  <2>2. decoders'.intel \in Maybe(OutcomesOf(gpuHw.intel, gpuNow))
    BY <2>1, <1>2, <1>8 DEF Maybe
  <2> QED BY <2>1, <2>2 DEF GpuInv, DecodersKept
<1>13. GpuDisplayed(gpuShown', SelectedCard(gpuHw), gpuNow)
  <2>1. /\ {"nvidia", "amd", "intel", "usage", "decoder"} \subseteq DOMAIN gpuShown'
        /\ gpuShown'.nvidia = gpuShown.nvidia /\ gpuShown'.usage = gpuShown.usage
        /\ gpuShown'.decoder = gpuShown.decoder
    BY <1>4 DEF GpuInv, GpuDisplayed
  <2> QED BY <2>1 DEF GpuInv, GpuDisplayed
<1> QED BY <1>3, <1>4, <1>10, <1>11, <1>12, <1>13 DEF GpuInv

-----------------------------------------------------------------------------
(* The series.                                                                *)

(* A series grows by the point of a value, if there is one.                   *)
LEMMA GrowPoints ==
  ASSUME NEW P, NEW s \in Seq(P), NEW L, NEW value \in Maybe(L), NEW deadline, NEW codec,
         value # None => GpuPoint(deadline, value[1], codec) \in P
  PROVE  Trimmed(s \o [i \in DOMAIN value |-> GpuPoint(deadline, value[i], codec)], GpuGraphLength)
           \in Seq(P)
<1> DEFINE new == [i \in DOMAIN value |-> GpuPoint(deadline, value[i], codec)]
<1>1. CASE value = None
  <2>1. DOMAIN value = {}
    BY <1>1 DEF None
  <2>2. new = [i \in {} |-> GpuPoint(deadline, value[i], codec)]
    BY <2>1
  <2>3. [i \in {} |-> GpuPoint(deadline, value[i], codec)] = <<>>
    OBVIOUS
  <2>4. new \in Seq(P)
    BY <2>2, <2>3
  <2> HIDE DEF new
  <2>5. s \o new \in Seq(P)
    BY <2>4
  <2> QED BY <2>5, TrimmedSeries, GpuAssumption DEF new
<1>2. CASE value # None
  <2>1. value = Some(value[1])
    BY <1>2, MaybeEither
  <2> DEFINE point == GpuPoint(deadline, value[1], codec)
  <2>2. DOMAIN value = {1}
    BY <2>1 DEF Some
  <2>3. new = <<point>>
    <3>1. new = [i \in {1} |-> GpuPoint(deadline, value[i], codec)]
      BY <2>2
    <3>2. new[1] = point /\ DOMAIN new = {1} /\ new = [i \in DOMAIN new |-> new[i]]
      BY <3>1
    <3> HIDE DEF new, point
    <3> QED BY <3>2
  <2> HIDE DEF new, point
  <2>4. new \in Seq(P)
    BY <2>3, <1>2 DEF point
  <2>5. s \o new \in Seq(P)
    BY <2>4
  <2> QED BY <2>5, TrimmedSeries, GpuAssumption DEF new
<1> QED BY <1>1, <1>2

(* An empty history is one of any card.                                       *)
LEMMA EmptyHistoryKept ==
  ASSUME NEW selected, NEW now
  PROVE  /\ GpuHistoryKept(NewGpuHistory, selected, now)
         /\ GpuHistoryKept([NewGpuHistory EXCEPT !.source = selected], selected, now)
<1>1. \A S : None \in Maybe(S)
  BY DEF Maybe
<1>2. \A S : <<>> \in Seq(S)
  OBVIOUS
<1> DEFINE h == [NewGpuHistory EXCEPT !.source = selected]
<1>3. /\ {"source", "usage", "decoder", "latest"} \subseteq DOMAIN NewGpuHistory
      /\ NewGpuHistory.source = None /\ NewGpuHistory.usage = <<>>
      /\ NewGpuHistory.decoder = <<>> /\ NewGpuHistory.latest = None
  BY DEF NewGpuHistory
<1>4. /\ {"source", "usage", "decoder", "latest"} \subseteq DOMAIN h
      /\ h.source = selected /\ h.usage = <<>> /\ h.decoder = <<>> /\ h.latest = None
  BY DEF NewGpuHistory
<1> HIDE DEF h
<1>5. GpuHistoryKept(NewGpuHistory, selected, now)
  BY <1>1, <1>2, <1>3 DEF GpuHistoryKept
<1>6. GpuHistoryKept(h, selected, now)
  BY <1>1, <1>2, <1>4 DEF GpuHistoryKept
<1> QED BY <1>5, <1>6 DEF h

(* A point of the selected card is put at the end of its series.              *)
LEMMA SampleGpuHistoryKeeps ==
  ASSUME gpuHw \in GpuHardware, NEW now, NEW h, GpuHistoryKept(h, SelectedCard(gpuHw), now),
         SelectedCard(gpuHw) # None, NEW deadline \in Nat,
         NEW usage \in Maybe(LoadsOf(SelectedCard(gpuHw), now)),
         usage # None => usage[1].at <= deadline,
         NEW outcome \in OutcomesOf(SelectedCard(gpuHw), now),
         (~gpuHw.nvidia /\ gpuHw.amd # None) /\ outcome.kind = "Value" =>
           outcome.value.at <= deadline /\ outcome.value.path = CodecNow
  PROVE  LET m == SampleGpuHistory(h, usage, outcome, deadline)
         IN  GpuHistoryKept(m, SelectedCard(gpuHw), now) /\ m.source = SelectedCard(gpuHw)
<1> DEFINE selected == SelectedCard(gpuHw)
           amd == ~gpuHw.nvidia /\ gpuHw.amd # None
           series == SameCard(h)
           known == LatestDecoder(series.latest, outcome)
           loads == LoadsOf(selected, now)
           grown == Trimmed(series.usage \o [i \in DOMAIN usage |->
                                               GpuPoint(deadline, usage[i], CodecNow)],
                            GpuGraphLength)
           decoded == Trimmed(series.decoder \o [i \in DOMAIN known |->
                                                   GpuPoint(deadline, known[i], CodecNow)],
                              GpuGraphLength)
           m == SampleGpuHistory(h, usage, outcome, deadline)
<1>1. GpuHistoryKept(series, selected, now) /\ series.source = selected
  <2>1. CASE h.source = selected
    BY <2>1 DEF SameCard
  <2>2. CASE h.source # selected
    <3>1. series = [NewGpuHistory EXCEPT !.source = selected]
      BY <2>2 DEF SameCard
    <3>2. series.source = selected
      BY <3>1 DEF NewGpuHistory
    <3> QED BY <3>1, <3>2, EmptyHistoryKept
  <2> QED BY <2>1, <2>2
<1>2. m = [series EXCEPT !.latest = known, !.usage = grown, !.decoder = decoded]
  BY DEF SampleGpuHistory
<1> HIDE DEF series, selected
<1>3. selected \in {Some(card) : card \in AmdCards} <=> amd
  BY SelectedShape DEF selected
<1>4. CodecNow \in CodecPaths
  <2>1. CASE gpuHw.amd = None
    BY <2>1, NamesThatAreAlways DEF CodecNow
  <2>2. CASE gpuHw.amd # None
    BY <2>2, HardwareShape DEF CodecNow
  <2> QED BY <2>1, <2>2
<1> HIDE DEF loads
<1>5. /\ known \in Maybe(loads)
      /\ amd /\ known # None => known[1].at <= deadline /\ known[1].path = CodecNow
  <2>1. outcome \in {Baseline, Failed, Absent} \/ \E l \in loads : outcome = Value(l)
    BY DEF OutcomesOf, loads, selected
  <2>2. CASE \E l \in loads : outcome = Value(l)
    <3>1. PICK l \in loads : outcome = Value(l)
      BY <2>2
    <3>2. outcome.kind = "Value" /\ outcome.value = l
      BY <3>1 DEF Value
    <3>3. known = Some(l)
      BY <3>2 DEF LatestDecoder
    <3>4. known[1] = l /\ known \in Maybe(loads)
      BY <3>1, <3>3, SomeIsNotNone DEF Maybe
    <3> QED BY <3>2, <3>4
  <2>3. CASE outcome \in {Baseline, Failed, Absent}
    <3>1. outcome.kind # "Value"
      BY <2>3 DEF Baseline, Failed, Absent
    <3>2. known \in {None, series.latest} /\ (amd => known = None)
      BY <3>1 DEF LatestDecoder
    <3>3. series.latest \in Maybe(loads) /\ None \in Maybe(loads)
      <4>1. None \in Maybe(loads)
        BY DEF Maybe
      <4> QED BY <4>1, <1>1 DEF GpuHistoryKept, loads
    <3> QED BY <3>2, <3>3
  <2> QED BY <2>1, <2>2, <2>3
<1> HIDE DEF known
<1>6. grown \in Seq(UsagePoints(selected, now))
  <2>1. series.usage \in Seq(UsagePoints(selected, now))
    BY <1>1 DEF GpuHistoryKept
  <2>2. usage \in Maybe(loads)
    BY DEF loads, selected
  <2>3. usage # None => GpuPoint(deadline, usage[1], CodecNow) \in UsagePoints(selected, now)
    <3> SUFFICES ASSUME usage # None
                 PROVE  GpuPoint(deadline, usage[1], CodecNow) \in UsagePoints(selected, now)
      OBVIOUS
    <3> DEFINE p == GpuPoint(deadline, usage[1], CodecNow)
    <3>1. usage[1] \in loads
      BY <2>2, MaybeEither
    <3>2. /\ p \in [deadline : Nat, value : loads, codec : CodecPaths]
          /\ p.value = usage[1] /\ p.deadline = deadline
      BY <3>1, <1>4 DEF GpuPoint
    <3> HIDE DEF p
    <3> QED BY <3>2 DEF UsagePoints, loads, p
  <2> QED BY <2>1, <2>2, <2>3, GrowPoints
<1>7. decoded \in Seq(DecoderPoints(selected, now))
  <2>1. series.decoder \in Seq(DecoderPoints(selected, now))
    BY <1>1 DEF GpuHistoryKept
  <2>2. known # None => GpuPoint(deadline, known[1], CodecNow) \in DecoderPoints(selected, now)
    <3> SUFFICES ASSUME known # None
                 PROVE  GpuPoint(deadline, known[1], CodecNow) \in DecoderPoints(selected, now)
      OBVIOUS
    <3> DEFINE p == GpuPoint(deadline, known[1], CodecNow)
    <3>1. known[1] \in loads
      BY <1>5, MaybeEither
    <3>2. /\ p \in [deadline : Nat, value : loads, codec : CodecPaths]
          /\ p.value = known[1] /\ p.deadline = deadline /\ p.codec = CodecNow
      BY <3>1, <1>4 DEF GpuPoint
    <3> HIDE DEF p
    <3>3. amd => p.value.at <= p.deadline /\ p.value.path = p.codec
      BY <3>2, <1>5
    <3> QED BY <3>2, <3>3, <1>3 DEF DecoderPoints, loads, p
  <2> QED BY <2>1, <2>2, <1>5, GrowPoints
<1> HIDE DEF grown, decoded, m
<1>8. /\ {"source", "usage", "decoder", "latest"} \subseteq DOMAIN m
      /\ m.source = selected /\ m.usage = grown /\ m.decoder = decoded /\ m.latest = known
  BY <1>1, <1>2 DEF GpuHistoryKept
<1> QED BY <1>5, <1>6, <1>7, <1>8 DEF GpuHistoryKept, loads, selected, m

(* The run of the series takes a point of the selected card with it.          *)
LEMMA StartGpuHistoryKeeps ==
  ASSUME GpuInv, NEW deadline \in 0..gpuNow, StartGpuHistory(deadline)
  PROVE  GpuInv'
<1> DEFINE selected == SelectedCard(gpuHw)
           card == selected[1]
           kept == IF card = "nvidia" THEN decoders.nvidia
                   ELSE IF gpuHw.amd = None THEN decoders.intel ELSE None
           point == SampleAtOrBefore(points[card], deadline)
           decoder == IF kept = None THEN Baseline ELSE kept[1]
           run == [deadline |-> deadline, point |-> point, decoder |-> decoder]
<1>1. /\ gpuHw \in GpuHardware /\ gpuNow \in Nat /\ selected # None
      /\ PointsKept(points, gpuHw, gpuNow) /\ DecodersKept(decoders, gpuHw, gpuNow)
  BY DEF GpuInv, StartGpuHistory
<1>2. gpuRun' = Some(run) /\ UNCHANGED <<gpu, points, decoders, gpuShown, gpuHw, gpuNow, gpuMoves>>
  BY DEF StartGpuHistory
<1>3. selected = Some(card) /\ card \in Cards
  BY <1>1, SelectedShape
<1>4. /\ point \in Maybe(CardPoints(card, gpuHw, gpuNow))
      /\ point # None => point[1].at <= deadline
  <2> DEFINE r == points[card]
             S == CardPoints(card, gpuHw, gpuNow)
  <2>1. r.latest \in Maybe(S) /\ r.previous \in Maybe(S)
    BY <1>1, <1>3 DEF PointsKept
  <2> HIDE DEF r, S
  <2> QED BY <2>1, SampleIsRetained DEF r, S
<1>5. decoder \in OutcomesOf(selected, gpuNow)
  <2>1. kept \in Maybe(OutcomesOf(selected, gpuNow))
    <3>1. CASE card = "nvidia"
      BY <1>1, <1>3, <3>1 DEF DecodersKept
    <3>2. CASE card # "nvidia" /\ gpuHw.amd = None
      <4>1. ~gpuHw.nvidia
        BY <1>1, <1>3, <3>2, SelectedShape, SomeIsNotNone
      <4>2. selected = gpuHw.intel
        BY <1>1, <3>2, <4>1, SelectedShape
      <4> QED BY <1>1, <3>2, <4>2 DEF DecodersKept
    <3>3. CASE card # "nvidia" /\ gpuHw.amd # None
      BY <3>3 DEF Maybe
    <3> QED BY <3>1, <3>2, <3>3
  <2> HIDE DEF kept
  <2>2. kept # None => kept[1] \in OutcomesOf(selected, gpuNow)
    BY <2>1, MaybeEither
  <2>3. Baseline \in OutcomesOf(selected, gpuNow)
    BY DEF OutcomesOf
  <2> QED BY <2>2, <2>3
<1> HIDE DEF point, decoder
<1>6. run.deadline = deadline /\ run.point = point /\ run.decoder = decoder
  OBVIOUS
<1> HIDE DEF run
<1>7. RunKept(gpuRun', gpuHw, gpuNow)
  <2>1. gpuRun'[1] = run
    BY <1>2, SomeIsNotNone
  <2> QED BY <1>1, <1>4, <1>5, <1>6, <2>1 DEF RunKept
<1> QED BY <1>2, <1>7 DEF GpuInv

(* The history job commits under the card that is selected when it commits.   *)
LEMMA GpuHistoryRunsKeep ==
  ASSUME GpuInv, GpuHistoryRuns
  PROVE  GpuInv'
<1> DEFINE run == gpuRun[1]
           selected == SelectedCard(gpuHw)
           amd == ~gpuHw.nvidia /\ gpuHw.amd # None
           usage == IF run.point = None THEN None ELSE run.point[1].value.usage
           outcome == IF amd /\ CodecNow = None THEN Absent
                      ELSE IF run.point # None THEN run.point[1].value.outcome
                      ELSE IF amd THEN Baseline ELSE run.decoder
           h == SampleGpuHistory(gpu.history, usage, outcome, run.deadline)
<1>1. /\ gpuHw \in GpuHardware /\ gpuNow \in Nat
      /\ GpuHistoryKept(gpu.history, selected, gpuNow)
      /\ RunKept(gpuRun, gpuHw, gpuNow) /\ gpuRun # None
  BY DEF GpuInv, GpuHistoryRuns
<1>2. /\ gpu' = [gpu EXCEPT !.history = h]
      /\ gpuShown' = [gpuShown EXCEPT !.usage = h.usage, !.decoder = h.decoder]
      /\ gpuRun' = None /\ UNCHANGED <<points, decoders, gpuHw, gpuNow, gpuMoves>>
  BY DEF GpuHistoryRuns
<1>3. /\ selected # None /\ run.deadline \in Nat
      /\ run.decoder \in OutcomesOf(selected, gpuNow)
      /\ run.point \in Maybe(CardPoints(selected[1], gpuHw, gpuNow))
      /\ run.point # None => run.point[1].at <= run.deadline
  BY <1>1 DEF RunKept
<1>4. selected = Some(selected[1]) /\ selected[1] \in Cards
  BY <1>1, <1>3, SelectedShape
<1> HIDE DEF run
<1> DEFINE s == run.point[1]
<1>5. run.point # None =>
        /\ s.value.usage \in Maybe(LoadsOf(selected, gpuNow))
        /\ s.value.outcome \in OutcomesOf(selected, gpuNow)
        /\ s.value.usage # None => s.value.usage[1].at <= s.at
        /\ OfNamedCodec(s.value.outcome, selected[1], gpuHw, s.at)
        /\ s.at \in 0..gpuNow
  <2>1. run.point # None => s \in CardPoints(selected[1], gpuHw, gpuNow)
    BY <1>3, MaybeEither
  <2> HIDE DEF selected, s
  <2> QED BY <2>1, <1>4 DEF CardPoints
<1>6. /\ usage \in Maybe(LoadsOf(selected, gpuNow))
      /\ usage # None => usage[1].at <= run.deadline
  <2>1. CASE run.point = None
    BY <2>1 DEF Maybe
  <2>2. CASE run.point # None
    <3>1. usage = s.value.usage
      BY <2>2
    <3>2. usage # None => usage[1] \in LoadsOf(selected, gpuNow)
      BY <2>2, <3>1, <1>5, MaybeEither
    <3>3. usage # None => usage[1].at \in 0..gpuNow
      BY <3>2 DEF LoadsOf
    <3> HIDE DEF s, usage, selected
    <3> QED BY <2>2, <3>1, <3>3, <1>1, <1>3, <1>5 DEF s
  <2> QED BY <2>1, <2>2
<1>7. /\ outcome \in OutcomesOf(selected, gpuNow)
      /\ amd /\ outcome.kind = "Value" =>
           outcome.value.at <= run.deadline /\ outcome.value.path = CodecNow
  <2>1. /\ {Absent, Baseline} \subseteq OutcomesOf(selected, gpuNow)
        /\ Absent.kind # "Value" /\ Baseline.kind # "Value"
    BY DEF OutcomesOf, Absent, Baseline
  <2>2. CASE amd /\ CodecNow = None
    BY <2>1, <2>2
  <2>3. CASE ~(amd /\ CodecNow = None) /\ run.point = None
    BY <2>1, <2>3, <1>3
  <2>4. CASE ~(amd /\ CodecNow = None) /\ run.point # None
    <3>1. outcome = s.value.outcome
      BY <2>4
    <3>2. amd => selected[1] \in AmdCards
      <4>1. amd => selected \in {Some(card) : card \in AmdCards}
        BY <1>1, SelectedShape
      <4> QED BY <4>1, SomeIsNotNone
    <3>3. amd => CodecNow = gpuHw.amd[1].codec
      BY DEF CodecNow
    <3>4. outcome.kind = "Value" => outcome.value \in LoadsOf(selected, gpuNow)
      <4>1. outcome \in {Baseline, Failed, Absent}
              \/ \E l \in LoadsOf(selected, gpuNow) : outcome = Value(l)
        BY <2>4, <3>1, <1>5 DEF OutcomesOf
      <4> HIDE DEF outcome
      <4>2. outcome \in {Baseline, Failed, Absent} => outcome.kind # "Value"
        BY DEF Baseline, Failed, Absent
      <4>3. \A l : Value(l).value = l
        BY DEF Value
      <4> QED BY <4>1, <4>2, <4>3
    <3>5. outcome.kind = "Value" => outcome.value.at \in 0..gpuNow
      BY <3>4 DEF LoadsOf
    <3> HIDE DEF outcome, s, selected
    <3>6. amd /\ outcome.kind = "Value" =>
            outcome.value.path = gpuHw.amd[1].codec /\ outcome.value.at <= s.at
      BY <2>4, <3>1, <3>2, <1>5 DEF OfNamedCodec
    <3> QED BY <2>4, <3>1, <3>3, <3>5, <3>6, <1>1, <1>3, <1>5 DEF s
  <2> QED BY <2>2, <2>3, <2>4
<1> HIDE DEF outcome, usage
<1>8. GpuHistoryKept(h, selected, gpuNow) /\ h.source = selected
  BY <1>1, <1>3, <1>6, <1>7, SampleGpuHistoryKeeps
<1> HIDE DEF h
<1>9. /\ {"nvidia", "amd", "intel", "history"} \subseteq DOMAIN gpu'
      /\ gpu'.nvidia = gpu.nvidia /\ gpu'.amd = gpu.amd /\ gpu'.intel = gpu.intel
      /\ gpu'.history = h
  BY <1>2 DEF GpuInv
<1>10. GpuDisplayed(gpuShown', selected, gpuNow)
  <2>1. /\ {"nvidia", "amd", "intel", "usage", "decoder"} \subseteq DOMAIN gpuShown'
        /\ gpuShown'.nvidia = gpuShown.nvidia /\ gpuShown'.usage = h.usage
        /\ gpuShown'.decoder = h.decoder
    BY <1>2 DEF GpuInv, GpuDisplayed
  <2> QED BY <2>1, <1>8 DEF GpuInv, GpuDisplayed, GpuHistoryKept
<1>11. RunKept(gpuRun', gpuHw, gpuNow)
  BY <1>2 DEF RunKept
<1> QED BY <1>2, <1>8, <1>9, <1>10, <1>11 DEF GpuInv

-----------------------------------------------------------------------------
(* The inventory changes.                                                     *)

(* Which jobs an inventory asks for.                                          *)
LEMMA GpuJobsOf ==
  ASSUME NEW hw \in GpuHardware, NEW card
  PROVE  /\ <<"amd", card>> \in GpuJobs(hw) <=> hw.amd # None /\ hw.amd[1].pci = card
         /\ <<"intel", card>> \in GpuJobs(hw) <=> hw.intel = Some(card)
         /\ <<"history", card>> \in GpuJobs(hw) <=> SelectedCard(hw) = Some(card)
<1>1. \A m : m = None \/ m = Some(m[1]) =>
        \A x : x \in {m[i] : i \in DOMAIN m} <=> m = Some(x)
  <2> SUFFICES ASSUME NEW m, m = None \/ m = Some(m[1]), NEW x
               PROVE  x \in {m[i] : i \in DOMAIN m} <=> m = Some(x)
    OBVIOUS
  <2>1. CASE m = None
    <3>1. DOMAIN m = {}
      BY <2>1 DEF None
    <3> QED BY <2>1, <3>1, SomeIsNotNone
  <2>2. CASE m = Some(m[1])
    <3>1. DOMAIN m = {1}
      BY <2>2 DEF Some
    <3> QED BY <2>2, <3>1, SomeIsNotNone
  <2> QED BY <2>1, <2>2
<1>2. /\ hw.amd = None \/ hw.amd = Some(hw.amd[1])
      /\ hw.intel = None \/ hw.intel = Some(hw.intel[1])
      /\ SelectedCard(hw) = None \/ SelectedCard(hw) = Some(SelectedCard(hw)[1])
  BY HardwareShape, SelectedShape
<1> DEFINE sel == SelectedCard(hw)
           nvidia == {<<"nvidia", "nvidia">> : x \in IF hw.nvidia THEN {1} ELSE {}}
           amd == {<<"amd", hw.amd[i].pci>> : i \in DOMAIN hw.amd}
           intel == {<<"intel", hw.intel[i]>> : i \in DOMAIN hw.intel}
           history == {<<"history", sel[i]>> : i \in DOMAIN sel}
<1>3. GpuJobs(hw) = nvidia \cup amd \cup intel \cup history
  BY DEF GpuJobs
<1> HIDE DEF sel
<1>4. /\ \A j \in nvidia : j[1] = "nvidia"
      /\ \A j \in amd : j[1] = "amd"
      /\ \A j \in intel : j[1] = "intel"
      /\ \A j \in history : j[1] = "history"
  OBVIOUS
<1>5. /\ <<"amd", card>> \in amd <=> \E i \in DOMAIN hw.amd : hw.amd[i].pci = card
      /\ <<"intel", card>> \in intel <=> card \in {hw.intel[i] : i \in DOMAIN hw.intel}
      /\ <<"history", card>> \in history <=> card \in {sel[i] : i \in DOMAIN sel}
  OBVIOUS
<1> HIDE DEF nvidia, amd, intel, history
<1>6. /\ <<"amd", card>> \in GpuJobs(hw) <=> <<"amd", card>> \in amd
      /\ <<"intel", card>> \in GpuJobs(hw) <=> <<"intel", card>> \in intel
      /\ <<"history", card>> \in GpuJobs(hw) <=> <<"history", card>> \in history
  <2>1. /\ <<"amd", card>>[1] = "amd" /\ <<"intel", card>>[1] = "intel"
        /\ <<"history", card>>[1] = "history"
    OBVIOUS
  <2> QED BY <1>3, <1>4, <2>1
<1>7. (\E i \in DOMAIN hw.amd : hw.amd[i].pci = card) <=> hw.amd # None /\ hw.amd[1].pci = card
  <2>1. CASE hw.amd = None
    <3>1. DOMAIN hw.amd = {}
      BY <2>1 DEF None
    <3> QED BY <2>1, <3>1
  <2>2. CASE hw.amd # None
    <3>1. DOMAIN hw.amd = {1}
      <4>1. \A x : DOMAIN Some(x) = {1}
        BY DEF Some
      <4> QED BY <2>2, <1>2, <4>1
    <3> QED BY <2>2, <3>1
  <2> QED BY <2>1, <2>2
<1> QED BY <1>1, <1>2, <1>5, <1>6, <1>7 DEF sel

(* A forgotten codec forgets no usage.                                        *)
LEMMA WithoutCodecKeeps ==
  ASSUME NEW card, NEW hw, NEW other, NEW now, NEW r,
         r.latest \in Maybe(CardPoints(card, hw, now)),
         r.previous \in Maybe(CardPoints(card, hw, now))
  PROVE  /\ WithoutCodec(r).latest \in Maybe(CardPoints(card, other, now))
         /\ WithoutCodec(r).previous \in Maybe(CardPoints(card, other, now))
<1> DEFINE blank(s) == [i \in DOMAIN s |->
                          [s[i] EXCEPT !.value.decoder = None, !.value.outcome = Baseline]]
           loads == Maybe(LoadsOf(Some(card), now))
           told == OutcomesOf(Some(card), now)
<1>1. ASSUME NEW s \in CardPoints(card, hw, now)
      PROVE  [s EXCEPT !.value.decoder = None, !.value.outcome = Baseline]
               \in CardPoints(card, other, now)
  <2> DEFINE v == [s.value EXCEPT !.decoder = None, !.outcome = Baseline]
             t == [s EXCEPT !.value.decoder = None, !.value.outcome = Baseline]
  <2> HIDE DEF loads, told
  <2>1. /\ s \in [value : [usage : loads, decoder : loads, outcome : told], at : 0..now]
        /\ s.value.usage # None => s.value.usage[1].at <= s.at
    BY <1>1 DEF CardPoints, loads, told
  <2>2. None \in loads /\ Baseline \in told /\ Baseline.kind # "Value"
    <3>1. None \in loads
      BY DEF loads, Maybe
    <3>2. Baseline \in told /\ Baseline.kind # "Value"
      BY DEF told, OutcomesOf, Baseline
    <3> QED BY <3>1, <3>2
  <2>3. /\ v \in [usage : loads, decoder : loads, outcome : told]
        /\ v.usage = s.value.usage /\ v.outcome = Baseline
    BY <2>1, <2>2
  <2>4. t = [s EXCEPT !.value = v]
    BY <2>1
  <2> HIDE DEF v, t
  <2>5. /\ t \in [value : [usage : loads, decoder : loads, outcome : told], at : 0..now]
        /\ t.value = v /\ t.at = s.at
    BY <2>1, <2>3, <2>4
  <2>6. OfNamedCodec(t.value.outcome, card, other, t.at)
    BY <2>2, <2>3, <2>5 DEF OfNamedCodec
  <2>7. t.value.usage # None => t.value.usage[1].at <= t.at
    BY <2>1, <2>3, <2>5
  <2> QED BY <2>5, <2>6, <2>7 DEF CardPoints, loads, told, t
<1>2. ASSUME NEW m \in Maybe(CardPoints(card, hw, now))
      PROVE  blank(m) \in Maybe(CardPoints(card, other, now))
  <2>1. CASE m = None
    <3>1. DOMAIN m = {}
      BY <2>1 DEF None
    <3>2. blank(m) = [i \in {} |-> [m[i] EXCEPT !.value.decoder = None, !.value.outcome = Baseline]]
      BY <3>1
    <3>3. [i \in {} |-> [m[i] EXCEPT !.value.decoder = None, !.value.outcome = Baseline]] = <<>>
      OBVIOUS
    <3>4. blank(m) = None
      BY <3>2, <3>3 DEF None
    <3> QED BY <3>4 DEF Maybe
  <2>2. CASE m # None
    <3> DEFINE t == [m[1] EXCEPT !.value.decoder = None, !.value.outcome = Baseline]
    <3>1. m = Some(m[1]) /\ m[1] \in CardPoints(card, hw, now)
      BY <2>2, <1>2, MaybeEither
    <3>2. DOMAIN m = {1}
      BY <3>1 DEF Some
    <3>3. /\ blank(m)[1] = t /\ DOMAIN blank(m) = {1}
          /\ blank(m) = [i \in DOMAIN blank(m) |-> blank(m)[i]]
      BY <3>2
    <3>4. t \in CardPoints(card, other, now)
      BY <3>1, <1>1
    <3> DEFINE b == blank(m)
    <3>5. /\ b[1] = t /\ DOMAIN b = {1} /\ b = [i \in DOMAIN b |-> b[i]]
      BY <3>3
    <3> HIDE DEF b, t
    <3>6. b = Some(t)
      BY <3>5 DEF Some
    <3> QED BY <3>4, <3>6 DEF Maybe, b
  <2> QED BY <2>1, <2>2
<1>3. WithoutCodec(r).latest = blank(r.latest) /\ WithoutCodec(r).previous = blank(r.previous)
  BY DEF WithoutCodec
<1> QED BY <1>2, <1>3

(* The samples of a card that is read as before are as before.                *)
LEMMA InvalidatePointsKeeps ==
  ASSUME NEW hw \in GpuHardware, gpuHw \in GpuHardware, NEW now,
         PointsKept(points, gpuHw, now)
  PROVE  PointsKept(InvalidatePoints(GpuJobs(gpuHw) \ GpuJobs(hw), CodecChanged(hw), hw), hw, now)
<1> DEFINE gone == GpuJobs(gpuHw) \ GpuJobs(hw)
           codec == CodecChanged(hw)
           new == InvalidatePoints(gone, codec, hw)
<1>1. DOMAIN new = Cards
  BY DEF InvalidatePoints
<1>2. ASSUME NEW card \in Cards
      PROVE  /\ new[card].latest \in Maybe(CardPoints(card, hw, now))
             /\ new[card].previous \in Maybe(CardPoints(card, hw, now))
  <2> DEFINE forgotten == <<"history", card>> \in gone \/ <<"amd", card>> \in gone
  <2>1. new[card] = IF forgotten THEN NotRetained
                    ELSE IF codec /\ card = hw.amd[1].pci THEN WithoutCodec(points[card])
                    ELSE points[card]
    BY DEF InvalidatePoints
  <2>2. /\ points[card].latest \in Maybe(CardPoints(card, gpuHw, now))
        /\ points[card].previous \in Maybe(CardPoints(card, gpuHw, now))
    BY DEF PointsKept
  <2>3. CASE forgotten
    <3>1. NotRetained.latest = None /\ NotRetained.previous = None
      BY DEF NotRetained
    <3>2. \A S : None \in Maybe(S)
      BY DEF Maybe
    <3> QED BY <2>1, <2>3, <3>1, <3>2
  <2>4. CASE ~forgotten /\ codec /\ card = hw.amd[1].pci
    <3>1. new[card] = WithoutCodec(points[card])
      BY <2>1, <2>4
    <3> HIDE DEF new
    <3> QED BY <2>2, <3>1, WithoutCodecKeeps
  <2>5. CASE ~forgotten /\ ~(codec /\ card = hw.amd[1].pci)
    <3>1. ASSUME gpuHw.amd # None, gpuHw.amd[1].pci = card
          PROVE  /\ hw.amd # None /\ hw.amd[1].pci = card
                 /\ hw.amd[1].codec = gpuHw.amd[1].codec
      <4>1. <<"amd", card>> \in GpuJobs(gpuHw)
        BY <3>1, GpuJobsOf
      <4>2. <<"amd", card>> \in GpuJobs(hw)
        BY <2>5, <4>1
      <4>3. hw.amd # None /\ hw.amd[1].pci = card
        BY <4>2, GpuJobsOf
      <4> QED BY <2>5, <3>1, <4>3 DEF CodecChanged
    <3>2. \A outcome, at :
            OfNamedCodec(outcome, card, gpuHw, at) => OfNamedCodec(outcome, card, hw, at)
      BY <3>1 DEF OfNamedCodec
    <3>3. CardPoints(card, gpuHw, now) \subseteq CardPoints(card, hw, now)
      BY <3>2 DEF CardPoints
    <3>4. new[card] = points[card]
      BY <2>1, <2>5
    <3> QED BY <2>2, <3>3, <3>4, MaybeMonotonic
  <2> QED BY <2>3, <2>4, <2>5
<1> QED BY <1>1, <1>2 DEF PointsKept

(* A series of no card is empty, so it is one of any card.                    *)
LEMMA NoCardNoPoints ==
  ASSUME NEW now, NEW source
  PROVE  /\ Seq(UsagePoints(None, now)) \subseteq Seq(UsagePoints(source, now))
         /\ Seq(DecoderPoints(None, now)) \subseteq Seq(DecoderPoints(source, now))
<1>1. LoadsOf(None, now) = {}
  BY NoCardNoLoads
<1>2. UsagePoints(None, now) = {}
  BY <1>1 DEF UsagePoints
<1>3. DecoderPoints(None, now) = {}
  BY <1>1 DEF DecoderPoints
<1> QED BY <1>2, <1>3, SeriesMonotonic

(* A discovery resets the owners of the cards that are gone or replaced.      *)
LEMMA GpuDiscoveredKeeps ==
  ASSUME GpuInv, NEW hw \in GpuHardware, GpuDiscovered(hw)
  PROVE  GpuInv'
<1> DEFINE gone == GpuJobs(gpuHw) \ GpuJobs(hw)
           owners == {job[1] : job \in gone}
           codec == CodecChanged(hw)
           old == SelectedCard(gpuHw)
           new == SelectedCard(hw)
<1>1. /\ gpuHw \in GpuHardware /\ gpuNow \in Nat
      /\ gpu' = InvalidateGpuOwners(gone, codec)
      /\ points' = InvalidatePoints(gone, codec, hw)
      /\ decoders' = InvalidateOutcomes(gone)
      /\ gpuShown' = InvalidateShownGpu(gone, codec)
      /\ gpuRun' = None /\ gpuHw' = hw /\ gpuNow' = gpuNow
  BY DEF GpuInv, GpuDiscovered
<1>2. PointsKept(points', hw, gpuNow)
  BY <1>1, InvalidatePointsKeeps DEF GpuInv
<1>3. "history" \in owners \/ old = None \/ new = old
  <2> SUFFICES ASSUME old # None, new # old PROVE "history" \in owners
    OBVIOUS
  <2> DEFINE card == old[1]
  <2>1. old = Some(card)
    BY <1>1, SelectedShape
  <2> HIDE DEF card, old, new
  <2>2. <<"history", card>> \in GpuJobs(gpuHw) /\ <<"history", card>> \notin GpuJobs(hw)
    BY <1>1, <2>1, GpuJobsOf DEF old, new
  <2>3. <<"history", card>> \in gone /\ <<"history", card>>[1] = "history"
    BY <2>2
  <2> QED BY <2>3
<1>4. \A card : gpuHw.intel = Some(card) => <<"intel", card>> \in gone \/ hw.intel = Some(card)
  BY <1>1, GpuJobsOf
<1>5. NotRetained.latest = None /\ (\A S : None \in Maybe(S)) /\ (\A S : <<>> \in Seq(S))
  <2>1. NotRetained.latest = None
    BY DEF NotRetained
  <2>2. \A S : None \in Maybe(S)
    BY DEF Maybe
  <2>3. \A S : <<>> \in Seq(S)
    OBVIOUS
  <2> QED BY <2>1, <2>2, <2>3
<1>6. /\ {"nvidia", "amd", "intel", "history"} \subseteq DOMAIN gpu'
      /\ gpu'.nvidia = IF "nvidia" \in owners THEN NewNvidia ELSE gpu.nvidia
      /\ gpu'.amd = IF "amd" \in owners
                    THEN [gpu.amd EXCEPT !.usage = NotRetained, !.codec = NotRetained]
                    ELSE IF codec THEN [gpu.amd EXCEPT !.codec = NotRetained] ELSE gpu.amd
      /\ gpu'.intel = IF "intel" \in owners
                      THEN [gpu.intel EXCEPT !.usage = NotRetained, !.counted = None] ELSE gpu.intel
      /\ gpu'.history = IF "history" \in owners THEN NewGpuHistory ELSE gpu.history
  BY <1>1 DEF InvalidateGpuOwners
<1>7. /\ {"nvidia", "amd", "intel", "usage", "decoder"} \subseteq DOMAIN gpuShown'
      /\ gpuShown'.nvidia = IF "nvidia" \in owners THEN NoReading ELSE gpuShown.nvidia
      /\ gpuShown'.usage = IF "history" \in owners THEN <<>> ELSE gpuShown.usage
      /\ gpuShown'.decoder = IF "history" \in owners THEN <<>> ELSE gpuShown.decoder
  BY <1>1 DEF InvalidateShownGpu
<1>8. DecodersKept(decoders', hw, gpuNow)
  <2>1. /\ {"nvidia", "intel"} \subseteq DOMAIN decoders'
        /\ decoders'.nvidia \in {None, decoders.nvidia}
        /\ decoders'.intel \in {None, decoders.intel}
        /\ (\E card \in Cards : <<"intel", card>> \in gone) => decoders'.intel = None
    <3> HIDE DEF gone
    <3> QED BY <1>1 DEF InvalidateOutcomes
  <2>2. /\ decoders.nvidia \in Maybe(OutcomesOf(Some("nvidia"), gpuNow))
        /\ decoders.intel \in Maybe(OutcomesOf(gpuHw.intel, gpuNow))
    BY DEF GpuInv, DecodersKept
  <2>3. decoders'.intel \in Maybe(OutcomesOf(hw.intel, gpuNow))
    <3>1. CASE decoders'.intel = None
      BY <3>1, <1>5
    <3>2. CASE decoders'.intel # None
      <4>1. decoders'.intel = decoders.intel
        BY <2>1, <3>2
      <4>2. CASE gpuHw.intel = None
        <5>1. OutcomesOf(None, gpuNow) \subseteq OutcomesOf(hw.intel, gpuNow)
          BY NoCardNoLoads DEF OutcomesOf
        <5> QED BY <2>2, <4>1, <4>2, <5>1, MaybeMonotonic
      <4>3. CASE gpuHw.intel # None
        <5>1. gpuHw.intel = Some(gpuHw.intel[1]) /\ gpuHw.intel[1] \in Cards
          BY <1>1, <4>3, HardwareShape
        <5>2. hw.intel = gpuHw.intel
          BY <1>4, <2>1, <3>2, <5>1
        <5> QED BY <2>2, <4>1, <5>2
      <4> QED BY <4>2, <4>3
    <3> QED BY <3>1, <3>2
  <2> QED BY <2>1, <2>2, <2>3, <1>5 DEF DecodersKept
<1> HIDE DEF owners, gone, codec
<1>9. NvidiaKept(gpu'.nvidia, gpuNow)
  <2>1. CASE gpu'.nvidia = gpu.nvidia
    BY <2>1 DEF GpuInv
  <2>2. CASE gpu'.nvidia = NewNvidia
    <3>1. /\ {"samples", "decoder", "nvmlFailed", "initFailed", "fallbackAt"}
                \subseteq DOMAIN NewNvidia
          /\ NewNvidia.samples = NotRetained /\ NewNvidia.decoder = NotRetained
      BY DEF NewNvidia
    <3> QED BY <2>2, <3>1, <1>5 DEF NvidiaKept
  <2> QED BY <2>1, <2>2, <1>6
<1>10. AmdKept(gpu'.amd, gpuNow)
  <2> DEFINE a == gpu.amd
             b == gpu'.amd
  <2>1. AmdKept(a, gpuNow)
    BY DEF GpuInv
  <2>2. b \in {a, [a EXCEPT !.usage = NotRetained, !.codec = NotRetained],
               [a EXCEPT !.codec = NotRetained]}
    BY <1>6
  <2> HIDE DEF a, b
  <2>3. /\ {"source", "usage", "codec"} \subseteq DOMAIN b /\ b.source = a.source
        /\ b.usage \in {a.usage, NotRetained} /\ b.codec \in {a.codec, NotRetained}
    BY <2>1, <2>2 DEF AmdKept
  <2>4. AmdCard(b) = AmdCard(a)
    BY <2>3 DEF AmdCard
  <2> QED BY <2>1, <2>3, <2>4, <1>5 DEF AmdKept, b
<1>11. IntelKept(gpu'.intel, gpuNow)
  <2> DEFINE i == gpu.intel
             j == gpu'.intel
  <2>1. IntelKept(i, gpuNow)
    BY DEF GpuInv
  <2>2. j \in {i, [i EXCEPT !.usage = NotRetained, !.counted = None]}
    BY <1>6
  <2> HIDE DEF i, j
  <2>3. /\ {"source", "usage", "counted"} \subseteq DOMAIN j /\ j.source = i.source
        /\ j.usage \in {i.usage, NotRetained}
    BY <2>1, <2>2 DEF IntelKept
  <2> QED BY <2>1, <2>3, <1>5 DEF IntelKept, j
<1>12. GpuHistoryKept(gpu'.history, new, gpuNow)
  <2>1. GpuHistoryKept(gpu.history, old, gpuNow)
    BY DEF GpuInv
  <2>2. CASE "history" \in owners
    BY <2>2, <1>6, EmptyHistoryKept
  <2>3. CASE "history" \notin owners
    <3>1. gpu'.history = gpu.history /\ (old = None \/ new = old)
      BY <2>3, <1>3, <1>6
    <3> QED BY <2>1, <3>1 DEF GpuHistoryKept
  <2> QED BY <2>2, <2>3
<1>13. GpuDisplayed(gpuShown', new, gpuNow)
  <2>1. GpuDisplayed(gpuShown, old, gpuNow)
    BY DEF GpuInv
  <2>2. gpuShown'.nvidia.decoder \in Maybe(LoadsOf(Some("nvidia"), gpuNow))
    <3>1. NoReading.decoder = None
      BY DEF NoReading
    <3> QED BY <1>5, <1>7, <2>1, <3>1 DEF GpuDisplayed
  <2>3. /\ gpuShown'.usage \in Seq(UsagePoints(new, gpuNow))
        /\ gpuShown'.decoder \in Seq(DecoderPoints(new, gpuNow))
    <3>1. CASE "history" \in owners
      BY <3>1, <1>5, <1>7
    <3>2. CASE "history" \notin owners
      <4>1. /\ gpuShown'.usage = gpuShown.usage /\ gpuShown'.decoder = gpuShown.decoder
            /\ old = None \/ new = old
        BY <3>2, <1>3, <1>7
      <4> HIDE DEF old, new
      <4> QED BY <2>1, <4>1, NoCardNoPoints DEF GpuDisplayed
    <3> QED BY <3>1, <3>2
  <2> QED BY <1>7, <2>2, <2>3 DEF GpuDisplayed
<1>14. RunKept(gpuRun', hw, gpuNow)
  BY <1>1 DEF RunKept
<1> QED BY <1>1, <1>2, <1>6, <1>8, <1>9, <1>10, <1>11, <1>12, <1>13, <1>14 DEF GpuInv

-----------------------------------------------------------------------------
(* Every step keeps the invariant.                                            *)

(* The owners begin with nothing kept and nothing shown.                      *)
LEMMA GpuInitHolds ==
  ASSUME GpuInit
  PROVE  GpuInv
<1>1. NotRetained.latest = None /\ NotRetained.previous = None
  BY DEF NotRetained
<1>2. \A S : None \in Maybe(S)
  BY DEF Maybe
<1>3. \A S : <<>> \in Seq(S)
  OBVIOUS
<1>4. gpuHw \in GpuHardware /\ gpuNow = 0 /\ gpuRun = None
  BY DEF GpuInit
<1>5. /\ {"nvidia", "amd", "intel", "history"} \subseteq DOMAIN gpu
      /\ gpu.nvidia = NewNvidia /\ gpu.amd = NewAmd /\ gpu.intel = NewIntel
      /\ gpu.history = NewGpuHistory
  BY DEF GpuInit
<1>6. NvidiaKept(NewNvidia, 0)
  <2>1. /\ {"samples", "decoder", "nvmlFailed", "initFailed", "fallbackAt"}
              \subseteq DOMAIN NewNvidia
        /\ NewNvidia.samples = NotRetained /\ NewNvidia.decoder = NotRetained
    BY DEF NewNvidia
  <2> QED BY <2>1, <1>1, <1>2 DEF NvidiaKept
<1>7. AmdKept(NewAmd, 0)
  <2>1. /\ {"source", "usage", "codec"} \subseteq DOMAIN NewAmd
        /\ NewAmd.usage = NotRetained /\ NewAmd.codec = NotRetained
    BY DEF NewAmd
  <2> QED BY <2>1, <1>1, <1>2 DEF AmdKept
<1>8. IntelKept(NewIntel, 0)
  <2>1. /\ {"source", "usage", "counted"} \subseteq DOMAIN NewIntel
        /\ NewIntel.usage = NotRetained
    BY DEF NewIntel
  <2> QED BY <2>1, <1>1, <1>2 DEF IntelKept
<1>9. PointsKept(points, gpuHw, 0)
  <2>1. points = [card \in Cards |-> NotRetained]
    BY DEF GpuInit
  <2>2. DOMAIN points = Cards /\ \A card \in Cards : points[card] = NotRetained
    BY <2>1
  <2> QED BY <2>2, <1>1, <1>2 DEF PointsKept
<1>10. DecodersKept(decoders, gpuHw, 0)
  <2>1. /\ {"nvidia", "intel"} \subseteq DOMAIN decoders
        /\ decoders.nvidia = None /\ decoders.intel = None
    BY DEF GpuInit
  <2> QED BY <2>1, <1>2 DEF DecodersKept
<1>11. GpuDisplayed(gpuShown, SelectedCard(gpuHw), 0)
  <2>1. /\ {"nvidia", "amd", "intel", "usage", "decoder"} \subseteq DOMAIN gpuShown
        /\ gpuShown.nvidia = NoReading /\ gpuShown.usage = <<>> /\ gpuShown.decoder = <<>>
    BY DEF GpuInit
  <2>2. NoReading.decoder = None
    BY DEF NoReading
  <2> QED BY <2>1, <2>2, <1>2, <1>3 DEF GpuDisplayed
<1>12. RunKept(gpuRun, gpuHw, 0)
  BY <1>4 DEF RunKept
<1> QED BY <1>4, <1>5, <1>6, <1>7, <1>8, <1>9, <1>10, <1>11, <1>12, EmptyHistoryKept DEF GpuInv

(* Time goes on.                                                              *)
LEMMA GpuTimeKeeps ==
  ASSUME GpuInv, GpuTime
  PROVE  GpuInv'
<1> DEFINE now == gpuNow
           later == gpuNow + 1
           selected == SelectedCard(gpuHw)
<1>1. /\ gpuNow' = later
      /\ UNCHANGED <<gpu, gpuRun, points, decoders, gpuShown, gpuHw, gpuMoves>>
  BY DEF GpuTime
<1>2. now \in Nat /\ later \in Nat /\ now <= later
  BY DEF GpuInv
<1> HIDE DEF now, later, selected
<1>3. \A source :
        /\ LoadsOf(source, now) \subseteq LoadsOf(source, later)
        /\ LoadSamples(source, now) \subseteq LoadSamples(source, later)
        /\ OutcomesOf(source, now) \subseteq OutcomesOf(source, later)
        /\ UsagePoints(source, now) \subseteq UsagePoints(source, later)
        /\ DecoderPoints(source, now) \subseteq DecoderPoints(source, later)
  BY <1>2, LoadsLater
<1>4. \A source :
        /\ Maybe(LoadsOf(source, now)) \subseteq Maybe(LoadsOf(source, later))
        /\ Maybe(LoadSamples(source, now)) \subseteq Maybe(LoadSamples(source, later))
        /\ Maybe(OutcomesOf(source, now)) \subseteq Maybe(OutcomesOf(source, later))
        /\ Seq(UsagePoints(source, now)) \subseteq Seq(UsagePoints(source, later))
        /\ Seq(DecoderPoints(source, now)) \subseteq Seq(DecoderPoints(source, later))
  BY <1>3, MaybeMonotonic, SeriesMonotonic
<1>5. \A card : Maybe(CardPoints(card, gpuHw, now)) \subseteq Maybe(CardPoints(card, gpuHw, later))
  BY <1>2, CardPointsLater, MaybeMonotonic
<1>6. 0..now \subseteq 0..later
  BY <1>2
<1>7. NvidiaKept(gpu.nvidia, later)
  BY <1>4, <1>6 DEF GpuInv, NvidiaKept, now
<1>8. AmdKept(gpu.amd, later) /\ IntelKept(gpu.intel, later)
  BY <1>4 DEF GpuInv, AmdKept, IntelKept, now
<1>9. GpuHistoryKept(gpu.history, selected, later)
  BY <1>4 DEF GpuInv, GpuHistoryKept, now, selected
<1>10. PointsKept(points, gpuHw, later)
  BY <1>5 DEF GpuInv, PointsKept, now
<1>11. DecodersKept(decoders, gpuHw, later)
  BY <1>4 DEF GpuInv, DecodersKept, now
<1>12. RunKept(gpuRun, gpuHw, later)
  <2>1. RunKept(gpuRun, gpuHw, now)
    BY DEF GpuInv, now
  <2> QED BY <2>1, <1>3, <1>5 DEF RunKept
<1>13. GpuDisplayed(gpuShown, selected, later)
  BY <1>4 DEF GpuInv, GpuDisplayed, now, selected
<1>14. /\ gpuHw \in GpuHardware /\ {"nvidia", "amd", "intel", "history"} \subseteq DOMAIN gpu
  BY DEF GpuInv
<1> QED BY <1>1, <1>2, <1>7, <1>8, <1>9, <1>10, <1>11, <1>12, <1>13, <1>14 DEF GpuInv, selected

(* A resume forgets the baseline of the Intel counter.                        *)
LEMMA ResetIntelKeeps ==
  ASSUME GpuInv, ResetIntelBaseline
  PROVE  GpuInv'
<1>1. /\ gpu' = [gpu EXCEPT !.intel.counted = None]
      /\ UNCHANGED <<points, decoders, gpuShown, gpuRun, gpuHw, gpuNow>>
  BY DEF ResetIntelBaseline, GpuAround
<1> DEFINE i == [gpu.intel EXCEPT !.counted = None]
<1>2. gpu' = [gpu EXCEPT !.intel = i]
  BY <1>1 DEF GpuInv
<1>3. IntelKept(i, gpuNow)
  <2>1. IntelKept(gpu.intel, gpuNow)
    BY DEF GpuInv
  <2>2. /\ {"source", "usage", "counted"} \subseteq DOMAIN i
        /\ i.source = gpu.intel.source /\ i.usage = gpu.intel.usage
    BY <2>1 DEF IntelKept
  <2> HIDE DEF i
  <2> QED BY <2>1, <2>2 DEF IntelKept
<1> HIDE DEF i
<1>4. /\ {"nvidia", "amd", "intel", "history"} \subseteq DOMAIN gpu'
      /\ gpu'.nvidia = gpu.nvidia /\ gpu'.amd = gpu.amd /\ gpu'.intel = i
      /\ gpu'.history = gpu.history
  BY <1>2 DEF GpuInv
<1> QED BY <1>1, <1>3, <1>4 DEF GpuInv

(* Every step of the graphics cards keeps their invariant.                    *)
LEMMA GpuStepKeeps ==
  ASSUME GpuInv, [GpuNext]_gpuVars
  PROVE  GpuInv'
<1>1. CASE \/ \E result \in {"ok", "init", "read"}, kind \in {"Value", "Absent", "Failed"} :
                NvmlRuns(result, kind)
           \/ \E answered \in BOOLEAN, kind \in {"Value", "Absent"} : FallbackRuns(answered, kind)
  BY <1>1, NvidiaRunsKeep
<1>2. CASE \E usageRead, codecRead \in BOOLEAN : AmdRuns(usageRead, codecRead)
  BY <1>2, AmdRunsKeep
<1>3. CASE \E readable, forward \in BOOLEAN : IntelRuns(readable, forward)
  BY <1>3, IntelRunsKeep
<1>4. CASE \E deadline \in 0..gpuNow : StartGpuHistory(deadline)
  BY <1>4, StartGpuHistoryKeeps
<1>5. CASE GpuHistoryRuns
  BY <1>5, GpuHistoryRunsKeep
<1>6. CASE ResetIntelBaseline
  BY <1>6, ResetIntelKeeps
<1>7. CASE \E hw \in GpuHardware : GpuDiscovered(hw)
  BY <1>7, GpuDiscoveredKeeps
<1>8. CASE GpuTime
  BY <1>8, GpuTimeKeeps
<1>9. CASE UNCHANGED gpuVars
  BY <1>9 DEF gpuVars, GpuInv
<1> QED BY <1>1, <1>2, <1>3, <1>4, <1>5, <1>6, <1>7, <1>8, <1>9 DEF GpuNext

(* What the invariant says of the series.                                     *)
LEMMA GpuInvShows ==
  ASSUME GpuInv
  PROVE  GpuSeriesAgree
<1> DEFINE h == gpu.history
           selected == SelectedCard(gpuHw)
           amd == gpuHw.amd # None /\ ~gpuHw.nvidia
           all == {h.usage, h.decoder, gpuShown.usage, gpuShown.decoder}
<1>1. /\ gpuHw \in GpuHardware /\ GpuHistoryKept(h, selected, gpuNow)
      /\ GpuDisplayed(gpuShown, selected, gpuNow)
  BY DEF GpuInv
<1>2. h.source \in {None, selected}
  BY <1>1 DEF GpuHistoryKept
<1>3. amd <=> selected \in {Some(card) : card \in AmdCards}
  BY <1>1, SelectedShape
<1> HIDE DEF h, selected
<1>4. /\ h.usage \in Seq(UsagePoints(selected, gpuNow))
      /\ h.decoder \in Seq(DecoderPoints(selected, gpuNow))
      /\ gpuShown.usage \in Seq(UsagePoints(selected, gpuNow))
      /\ gpuShown.decoder \in Seq(DecoderPoints(selected, gpuNow))
  <2>1. /\ h.usage \in Seq(UsagePoints(h.source, gpuNow))
        /\ h.decoder \in Seq(DecoderPoints(h.source, gpuNow))
    BY <1>1 DEF GpuHistoryKept
  <2> QED BY <1>1, <1>2, <2>1, NoCardNoPoints DEF GpuDisplayed
<1>5. /\ \A p \in UsagePoints(selected, gpuNow) :
           Some(p.value.card) = selected /\ p.value.at <= p.deadline
      /\ \A p \in DecoderPoints(selected, gpuNow) :
           /\ Some(p.value.card) = selected
           /\ amd => p.value.at <= p.deadline /\ p.value.path = p.codec
  <2>1. \A l \in LoadsOf(selected, gpuNow) : Some(l.card) = selected
    BY DEF LoadsOf
  <2>2. \A p \in UsagePoints(selected, gpuNow) :
          p.value \in LoadsOf(selected, gpuNow) /\ p.value.at <= p.deadline
    BY DEF UsagePoints
  <2>3. \A p \in DecoderPoints(selected, gpuNow) :
          /\ p.value \in LoadsOf(selected, gpuNow)
          /\ amd => p.value.at <= p.deadline /\ p.value.path = p.codec
    BY <1>3 DEF DecoderPoints
  <2> QED BY <2>1, <2>2, <2>3
<1>6. \A S : \A series \in Seq(S) : \A p \in DOMAIN series : series[p] \in S
  OBVIOUS
<1> QED BY <1>2, <1>4, <1>5, <1>6 DEF GpuSeriesAgree, h, selected

(* One series holds one card, whichever of a discovery and a completion comes *)
(* first: GpuHistoryState::reconcile, gpu_history_samples of the loop and     *)
(* invalidate_decoder.                                                        *)
THEOREM OneSeriesOneCard == GpuSpec => []GpuSeriesAgree
<1>1. GpuInit => GpuInv
  BY GpuInitHolds
<1>2. GpuInv /\ [GpuNext]_gpuVars => GpuInv'
  BY GpuStepKeeps
<1>3. GpuInv => GpuSeriesAgree
  BY GpuInvShows
<1> QED BY <1>1, <1>2, <1>3, PTL DEF GpuSpec

=============================================================================
