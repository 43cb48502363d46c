----------------------------- MODULE AppletProofs -----------------------------
(* For every queue capacity, number of pages and number of connections: the   *)
(* event queue keeps its capacity, ConnectionLost is the last event of its    *)
(* connection, a shell that has read everything shows what is published, and  *)
(* the daemon then holds the leases that its widgets present.                 *)
EXTENDS Applet, FiniteSetTheorems, WellFoundedInduction, TLAPS

(* What the invariant is inductive with: the queue is a sequence of something *)
(* and the records have their fields.                                         *)
Shape ==
  /\ \E S : events \in Seq(S)
  /\ bus = [owner |-> bus.owner, names |-> bus.names]
  /\ service = [phase |-> service.phase, epoch |-> service.epoch, retired |-> service.retired,
                connections |-> service.connections]
  /\ daemon = [leases |-> daemon.leases, page |-> daemon.page]

IInv == Shape /\ TypeOK /\ LostIsLast

-----------------------------------------------------------------------------
(* The queue as a queue.                                                      *)

(* An event that is put at the end of the queue: what was there stays.        *)
LEMMA AppendEvent ==
  ASSUME NEW S, NEW q \in Seq(S), NEW x
  PROVE  /\ Append(q, x) \in Seq(S \cup {x})
         /\ Len(Append(q, x)) = Len(q) + 1
         /\ \A i \in 1..Len(q) : Append(q, x)[i] = q[i]
         /\ Append(q, x)[Len(q) + 1] = x
  <1>1. q \in Seq(S \cup {x}) /\ x \in S \cup {x}
    OBVIOUS
  <1> QED BY <1>1

(* The event at the head is taken: what remains moves up.                     *)
LEMMA TakeEvent ==
  ASSUME NEW S, NEW q \in Seq(S), q # <<>>
  PROVE  /\ Tail(q) \in Seq(S)
         /\ Len(Tail(q)) = Len(q) - 1
         /\ \A i \in 1..Len(Tail(q)) : Tail(q)[i] = q[i + 1]
         /\ Len(q) >= 1
  OBVIOUS

(* Outbox::send: an event of a connection that is not retired is put behind   *)
(* the others, one of a retired connection is dropped.                        *)
LEMMA PutKeepsOrder ==
  ASSUME AppletAssumption, IInv, Room, NEW e, NEW x, x.epoch = e, Put(e, x),
         service.retired' = service.retired
  PROVE  (\E S : events' \in Seq(S)) /\ Len(events') <= EVENT_CAPACITY /\ LostIsLast'
  <1>1. PICK S : events \in Seq(S)
    BY DEF IInv, Shape
  <1>2. CASE e \in service.retired
    <2>1. events' = events
      BY <1>2 DEF Put
    <2>2. LostIsLast'
      BY <2>1 DEF IInv, LostIsLast, Lost, Gone, Event
    <2> QED BY <1>1, <2>1, <2>2 DEF IInv, TypeOK
  <1>3. CASE e \notin service.retired
    <2>1. events' = Append(events, x)
      BY <1>3 DEF Put
    <2>2. /\ events' \in Seq(S \cup {x})
          /\ Len(events') = Len(events) + 1
          /\ \A i \in 1..Len(events) : events'[i] = events[i]
          /\ events'[Len(events) + 1] = x
      BY <1>1, <2>1, AppendEvent
    <2>3. LostIsLast'
      <3> SUFFICES ASSUME NEW i \in DOMAIN events', events'[i].epoch \in service.retired
                   PROVE  \E j \in i..Len(events') : events'[j] = Lost(events'[i].epoch)
        BY DEF LostIsLast, Lost, Gone, Event
      <3>1. i \in 1..Len(events)
        BY <1>1, <1>3, <2>2
      <3>2. PICK j \in i..Len(events) : events[j] = Lost(events[i].epoch)
        BY <1>1, <2>2, <3>1 DEF IInv, LostIsLast
      <3> QED BY <1>1, <2>2, <3>1, <3>2
    <2>4. Len(events') <= EVENT_CAPACITY
      BY <1>1, <2>2 DEF Room, AppletAssumption
    <2> QED BY <2>2, <2>3, <2>4
  <1> QED BY <1>2, <1>3

(* A step that leaves the queue, the state of the service and the page alone. *)
LEMMA Aside ==
  ASSUME IInv, UNCHANGED <<events, daemon>>, bus' = [bus EXCEPT !.names = bus'.names],
         service' = [service EXCEPT !.connections = service'.connections]
  PROVE  IInv'
  <1>0. /\ service'.phase = service.phase /\ service'.epoch = service.epoch
        /\ service'.retired = service.retired /\ bus'.owner = bus.owner
    BY DEF IInv, Shape
  <1>1. Shape'
    BY DEF IInv, Shape
  <1>2. TypeOK'
    BY <1>0 DEF IInv, TypeOK
  <1>3. LostIsLast'
    BY <1>0 DEF IInv, LostIsLast, Lost, Gone, Event
  <1> QED BY <1>1, <1>2, <1>3 DEF IInv

-----------------------------------------------------------------------------
LEMMA InitInvariant == ASSUME AppletAssumption, Init PROVE IInv
  <1>1. events \in Seq({})
    BY DEF Init
  <1>2. Shape
    BY <1>1 DEF Init, Shape
  <1>3. TypeOK
    BY DEF Init, TypeOK, AppletAssumption
  <1>4. LostIsLast
    BY DEF Init, LostIsLast
  <1> QED BY <1>2, <1>3, <1>4 DEF IInv

(* The shell and its user: only calls are sent.                               *)
LEMMA UserKeeps == ASSUME IInv, User PROVE IInv'
  <1>1. service' = [service EXCEPT !.connections = service'.connections]
    BY DEF User, Wheel, Toggle, Destroy, Happens, IInv, Shape
  <1>2. UNCHANGED <<events, daemon, bus>>
    BY DEF User, Wheel, Toggle, Destroy
  <1> QED BY <1>1, <1>2, Aside DEF IInv, Shape

LEMMA ShellKeeps == ASSUME IInv, StartShell \/ ShellReads \/ CrashShell PROVE IInv'
  <1>1. service' = [service EXCEPT !.connections = service'.connections]
    BY DEF StartShell, ShellReads, CrashShell, Happens, IInv, Shape
  <1>2. bus' = [bus EXCEPT !.names = bus'.names]
    BY DEF StartShell, ShellReads, CrashShell, IInv, Shape
  <1>3. UNCHANGED <<events, daemon>>
    BY DEF StartShell, ShellReads, CrashShell
  <1> QED BY <1>1, <1>2, <1>3, Aside

(* The daemon's connection: opened, lost, retired.                            *)
LEMMA AcquireKeeps == ASSUME AppletAssumption, IInv, Acquire PROVE IInv'
  <1>1. /\ service'.phase = "Serving" /\ service'.epoch = service.epoch + 1
        /\ service'.retired = service.retired /\ bus'.owner = service.epoch + 1
    BY DEF Acquire, IInv, Shape
  <1>2. Shape'
    BY DEF Acquire, IInv, Shape
  <1>3. TypeOK'
    <2>1. service'.epoch \in 1..MaxEpoch /\ service'.retired = 1..(service'.epoch - 1)
      BY <1>1 DEF Acquire, IInv, TypeOK, AppletAssumption
    <2>2. UNCHANGED <<events, daemon>>
      BY DEF Acquire
    <2> QED BY <1>1, <2>1, <2>2 DEF IInv, TypeOK
  <1>4. LostIsLast'
    BY <1>1 DEF Acquire, IInv, LostIsLast, Lost, Gone, Event
  <1> QED BY <1>2, <1>3, <1>4 DEF IInv

LEMMA LossKeeps == ASSUME AppletAssumption, IInv, LoseConnection \/ RestartBus PROVE IInv'
  <1>1. /\ service'.phase = "Retiring" /\ service'.epoch = service.epoch
        /\ service'.retired = service.retired /\ bus'.owner = 0
    <2>1. CASE LoseConnection
      BY <2>1 DEF LoseConnection, Abandoned, IInv, Shape
    <2>2. CASE RestartBus
      BY <2>2 DEF RestartBus, Abandoned, IInv, Shape
    <2> QED BY <2>1, <2>2
  <1>2. Shape'
    BY DEF LoseConnection, RestartBus, Abandoned, IInv, Shape
  <1>3. TypeOK'
    BY <1>1 DEF LoseConnection, RestartBus, IInv, Shape, TypeOK
  <1>4. LostIsLast'
    <2>1. UNCHANGED events /\ service'.retired = service.retired
      BY <1>1 DEF LoseConnection, RestartBus
    <2> QED BY <2>1 DEF IInv, LostIsLast, Lost, Gone, Event
  <1> QED BY <1>2, <1>3, <1>4 DEF IInv

LEMMA RetireKeeps == ASSUME AppletAssumption, IInv, Retire PROVE IInv'
  <1> DEFINE e == service.epoch
  <1>1. PICK S : events \in Seq(S)
    BY DEF IInv, Shape
  <1>2. /\ events' \in Seq(S \cup {Lost(e)})
        /\ Len(events') = Len(events) + 1
        /\ \A i \in 1..Len(events) : events'[i] = events[i]
        /\ events'[Len(events) + 1] = Lost(e)
    BY <1>1, AppendEvent DEF Retire
  <1>3. /\ service'.phase = "Acquiring" /\ service'.epoch = e /\ service'.retired = service.retired \cup {e}
        /\ bus' = bus /\ daemon' = daemon
    BY DEF Retire, IInv, Shape
  <1>4. Shape'
    BY <1>2 DEF Retire, IInv, Shape
  <1>5. TypeOK'
    <2>1. Len(events') <= EVENT_CAPACITY
      BY <1>1, <1>2 DEF Retire, Room, AppletAssumption
    <2>2. service'.retired = 1..service'.epoch /\ e \in 1..MaxEpoch /\ bus'.owner = 0
      BY <1>3 DEF Retire, IInv, TypeOK, AppletAssumption
    <2> QED BY <1>3, <2>1, <2>2 DEF IInv, TypeOK, AppletAssumption
  <1>6. LostIsLast'
    <2> SUFFICES ASSUME NEW i \in DOMAIN events', events'[i].epoch \in service'.retired
                 PROVE  \E j \in i..Len(events') : events'[j] = Lost(events'[i].epoch)
      BY DEF LostIsLast, Lost, Gone, Event
    <2>0. Lost(e).epoch = e
      BY DEF Lost, Gone, Event
    <2>1. CASE events'[i].epoch = e
      BY <1>1, <1>2, <2>1
    <2>2. CASE events'[i].epoch # e
      <3>1. i \in 1..Len(events) /\ events[i].epoch \in service.retired
        BY <1>1, <1>2, <1>3, <2>0, <2>2
      <3>2. PICK j \in i..Len(events) : events[j] = Lost(events[i].epoch)
        BY <1>1, <3>1 DEF IInv, LostIsLast
      <3> QED BY <1>1, <1>2, <3>1, <3>2
    <2> QED BY <2>1, <2>2
  <1> QED BY <1>4, <1>5, <1>6 DEF IInv
(* The tasks of a connection.                                                 *)
LEMMA ConnectionKeeps == ASSUME AppletAssumption, IInv, NEW e, Connection(e) PROVE IInv'
  <1> DEFINE Known == service' = [service EXCEPT !.connections = service'.connections]
  <1> DEFINE Others == bus' = bus /\ daemon' = daemon
  <1>1. CASE Begin(e) \/ AnswerProperties(e) \/ Depart(e) \/ \E n : Confirm(e, n)
    <2>1. Known
      BY <1>1 DEF Begin, AnswerProperties, Depart, Confirm, IInv, Shape
    <2>2. bus' = bus /\ UNCHANGED <<events, daemon>>
      BY <1>1 DEF Begin, AnswerProperties, Depart, Confirm
    <2> QED BY <2>1, <2>2, Aside DEF IInv, Shape
  <1>2. ASSUME NEW x, x.epoch = e, Put(e, x), Room, Known, Others PROVE IInv'
    <2>1. /\ service'.phase = service.phase /\ service'.epoch = service.epoch
          /\ service'.retired = service.retired
      BY <1>2 DEF IInv, Shape
    <2>2. (\E S : events' \in Seq(S)) /\ Len(events') <= EVENT_CAPACITY /\ LostIsLast'
      BY <1>2, <2>1, PutKeepsOrder
    <2>3. Shape'
      BY <1>2, <2>1, <2>2 DEF IInv, Shape
    <2>4. TypeOK'
      BY <1>2, <2>1, <2>2 DEF IInv, TypeOK
    <2> QED BY <2>2, <2>3, <2>4 DEF IInv
  <1>3. CASE Deliver(e)
    <2> DEFINE x == Event(e, Head(Calls(e)).kind, Head(Calls(e)))
    <2>1. Put(e, x) /\ Room /\ Others /\ x.epoch = e
      BY <1>3 DEF Deliver, Event
    <2>2. Known
      BY <1>3 DEF Deliver, IInv, Shape
    <2> QED BY <1>2, <2>1, <2>2
  <1>4. ASSUME NEW n, Forward(e, n) PROVE IInv'
    <2>1. Put(e, Gone(e, n)) /\ Room /\ Others /\ Gone(e, n).epoch = e
      BY <1>4 DEF Forward, Gone, Event
    <2>2. Known
      BY <1>4 DEF Forward, IInv, Shape
    <2> QED BY <1>2, <2>1, <2>2
  <1>5. ASSUME NEW n, Report(e, n) PROVE IInv'
    <2>1. Put(e, Gone(e, n)) /\ Room /\ Others /\ Gone(e, n).epoch = e
      BY <1>5 DEF Report, Gone, Event
    <2>2. Known
      BY <1>5 DEF Report, IInv, Shape
    <2> QED BY <1>2, <2>1, <2>2
  <1> QED BY <1>1, <1>3, <1>4, <1>5 DEF Connection

(* The daemon takes the next event; a page stays among the pages.             *)
LEMMA LoopKeeps == ASSUME AppletAssumption, IInv, HandleEvent PROVE IInv'
  <1> DEFINE page == IF Head(events).kind = "StepPage" THEN StepPage(daemon.page, Head(events).step) ELSE daemon.page
  <1>1. PICK S : events \in Seq(S)
    BY DEF IInv, Shape
  <1>2. /\ events' \in Seq(S) /\ Len(events) >= 1 /\ Len(events') = Len(events) - 1
        /\ \A i \in 1..Len(events') : events'[i] = events[i + 1]
    BY <1>1, TakeEvent DEF HandleEvent
  <1>3. Shape' /\ UNCHANGED <<bus, service>> /\ daemon'.page = page
    BY <1>2 DEF HandleEvent, IInv, Shape
  <1>4. page \in 0..(PageCount - 1)
    <2>1. PageCount \in Nat \ {0} /\ daemon.page \in 0..(PageCount - 1)
      BY DEF AppletAssumption, IInv, TypeOK
    <2>2. StepPage(daemon.page, Head(events).step) \in 0..(PageCount - 1)
      BY <2>1 DEF StepPage
    <2> QED BY <2>1, <2>2
  <1>5. TypeOK'
    BY <1>1, <1>2, <1>3, <1>4 DEF IInv, TypeOK, AppletAssumption
  <1>6. LostIsLast'
    <2> SUFFICES ASSUME NEW i \in DOMAIN events', events'[i].epoch \in service.retired
                 PROVE  \E j \in i..Len(events') : events'[j] = Lost(events'[i].epoch)
      BY <1>3 DEF LostIsLast, Lost, Gone, Event
    <2>1. i \in 1..Len(events') /\ i + 1 \in 1..Len(events) /\ events'[i] = events[i + 1]
      BY <1>1, <1>2
    <2>2. PICK j \in (i + 1)..Len(events) : events[j] = Lost(events[i + 1].epoch)
      BY <1>1, <2>1 DEF IInv, LostIsLast
    <2>3. j - 1 \in i..Len(events') /\ events'[j - 1] = events[j]
      BY <1>1, <1>2, <2>1, <2>2
    <2> QED BY <2>1, <2>2, <2>3
  <1> QED BY <1>3, <1>5, <1>6 DEF IInv

LEMMA PublicationKeeps ==
  ASSUME IInv, PublishPanel \/ EmitterTakes \/ EmitterSends PROVE IInv'
  <1>1. UNCHANGED <<events, daemon, bus, service>>
    BY DEF PublishPanel, EmitterTakes, EmitterSends
  <1>2. service' = [service EXCEPT !.connections = service'.connections] /\ bus' = [bus EXCEPT !.names = bus'.names]
    BY <1>1 DEF IInv, Shape
  <1> QED BY <1>1, <1>2, Aside

LEMMA StutterKeeps == ASSUME IInv, UNCHANGED vars PROVE IInv'
  BY DEF IInv, Shape, TypeOK, LostIsLast, Lost, Gone, Event, vars

LEMMA StepInvariant == ASSUME AppletAssumption, IInv, [Next]_vars PROVE IInv'
  <1>1. CASE Next
    <2>1. CASE User
      BY <2>1, UserKeeps
    <2>2. CASE Disturbance
      BY <2>2, LossKeeps, ShellKeeps DEF Disturbance
    <2>3. CASE PublishPanel
      BY <2>3, PublicationKeeps
    <2>4. CASE System
      BY <2>4, ShellKeeps, AcquireKeeps, RetireKeeps, ConnectionKeeps, LoopKeeps, PublicationKeeps DEF System
    <2> QED BY <1>1, <2>1, <2>2, <2>3, <2>4 DEF Next
  <1> QED BY <1>1, StutterKeeps

(* The event queue keeps its capacity, every connection is retired once, in   *)
(* the order they were opened, and the selected page stays within the pages   *)
(* (EVENT_CAPACITY, serve and PageStep::apply).                               *)
THEOREM AppletTypeCorrect == Spec => []TypeOK
  <1>1. Init => IInv
    BY AppletAssumption, InitInvariant
  <1>2. IInv /\ [Next]_vars => IInv'
    BY AppletAssumption, StepInvariant
  <1>3. IInv => TypeOK
    BY DEF IInv
  <1> QED BY <1>1, <1>2, <1>3, PTL DEF Spec

(* Whatever the capacity, the number of connections and the behaviour of the  *)
(* shell: nothing of a retired connection is behind its ConnectionLost        *)
(* (Outbox::send and Outbox::retire).                                         *)
THEOREM NothingAfterTheLoss == Spec => []LostIsLast
  <1>1. Init => IInv
    BY AppletAssumption, InitInvariant
  <1>2. IInv /\ [Next]_vars => IInv'
    BY AppletAssumption, StepInvariant
  <1>3. IInv => LostIsLast
    BY DEF IInv
  <1> QED BY <1>1, <1>2, <1>3, PTL DEF Spec

-----------------------------------------------------------------------------
(* The views of the shell.                                                    *)

(* A set of positions that holds 0 and with each one the next holds them all. *)
LEMMA EveryPosition ==
  ASSUME NEW N \in Nat, NEW A, 0 \in A, \A n \in 1..N : n - 1 \in A => n \in A
  PROVE  N \in A
<1> DEFINE R == {ss \in Nat \X Nat : ss[1] < ss[2]}
           B == {n \in 0..N : n \notin A}
<1>1. IsWellFoundedOn(R, Nat)
  BY NatLessThanWellFounded, Zenon DEF OpToRel
<1>2. \A m, n \in Nat : <<m, n>> \in R <=> m < n
  OBVIOUS
<1> HIDE DEF R
<1> SUFFICES ASSUME B # {} PROVE FALSE
  OBVIOUS
<1>3. PICK n \in B : \A m \in B : <<m, n>> \notin R
  <2>1. B \subseteq Nat
    OBVIOUS
  <2> HIDE DEF B
  <2> QED BY <1>1, <2>1, WFMin
<1>4. n \in 1..N /\ n - 1 \in 0..N /\ n - 1 < n
  BY <1>3
<1>5. <<n - 1, n>> \in R
  BY <1>2, <1>4
<1>6. n - 1 \notin B
  BY <1>3, <1>5
<1> QED BY <1>3, <1>4, <1>6

(* A sequence, of whatever it holds.                                          *)
Sequenced(q) == \E S : q \in Seq(S)

(* A sequence grows at its end.                                               *)
LEMMA Appended ==
  ASSUME NEW q, Sequenced(q), NEW x
  PROVE  LET r == Append(q, x)
         IN  /\ Sequenced(r) /\ r # <<>>
             /\ Len(q) \in Nat /\ DOMAIN q = 1..Len(q) /\ DOMAIN r = 1..(Len(q) + 1)
             /\ \A i \in DOMAIN q : r[i] = q[i]
             /\ r[Len(q) + 1] = x
<1> DEFINE r == Append(q, x)
<1>1. PICK S : q \in Seq(S)
  BY DEF Sequenced
<1>2. r \in Seq(S \cup {x}) /\ Len(r) = Len(q) + 1 /\ r[Len(q) + 1] = x
      /\ \A i \in 1..Len(q) : r[i] = q[i]
  BY <1>1, AppendEvent
<1>3. DOMAIN q = 1..Len(q) /\ Len(q) \in Nat
  BY <1>1
<1> HIDE DEF r
<1>4. DOMAIN r = 1..Len(r) /\ r # <<>>
  BY <1>2, <1>3
<1>5. Sequenced(r)
  BY <1>2 DEF Sequenced
<1> QED BY <1>2, <1>3, <1>4, <1>5 DEF r

(* Its head is taken, the rest moves up.                                      *)
LEMMA Taken ==
  ASSUME NEW q, Sequenced(q), q # <<>>
  PROVE  /\ Sequenced(Tail(q)) /\ Len(q) \in Nat \ {0} /\ DOMAIN q = 1..Len(q)
         /\ DOMAIN Tail(q) = 1..(Len(q) - 1) /\ 1 \in DOMAIN q /\ Head(q) = q[1]
         /\ \A i \in DOMAIN Tail(q) : i + 1 \in DOMAIN q /\ Tail(q)[i] = q[i + 1]
         /\ \A i \in DOMAIN q : i = 1 \/ (i - 1 \in DOMAIN Tail(q) /\ q[i] = Tail(q)[i - 1])
<1>1. PICK S : q \in Seq(S)
  BY DEF Sequenced
<1> QED BY <1>1, TakeEvent DEF Sequenced

(* The finitely many widgets can be listed.                                   *)
LEMMA WidgetsInOrder ==
  ASSUME IsFiniteSet(Widget)
  PROVE  Len(InOrder) \in Nat
<1> DEFINE n == Cardinality(Widget)
<1>1. n \in Nat /\ ExistsBijection(1..n, Widget)
  BY FS_CardinalityType
<1>2. \E f \in [1..n -> Widget] : IsInjective(f)
  BY <1>1 DEF ExistsBijection, Bijection, Injection, IsInjective
<1>3. InOrder \in [1..n -> Widget]
  BY <1>2 DEF InOrder, SetToSeq
<1> HIDE DEF n
<1> QED BY <1>1, <1>3

-----------------------------------------------------------------------------
Props == {"Panel", "Page"}

Kinds == {"Lost", "Registered", "Reply", "Changed"}

(* A message that tells the value of p.                                       *)
Tells(m, p) == m.kind = "Changed" /\ p \in DOMAIN m.values

(* When inbox q is read, a shell that shows view will show v for p.           *)
Shows(q, view, p, v) ==
  \/ \E i \in DOMAIN q :
       /\ Tells(q[i], p) /\ q[i].values[p] = v
       /\ \A j \in DOMAIN q : j > i => ~Tells(q[j], p)
  \/ (\A i \in DOMAIN q : ~Tells(q[i], p)) /\ view[p] = v

(* A message that tells the value, or one that tells none, is put behind.     *)
LEMMA ShowsMore ==
  ASSUME NEW q, Sequenced(q), NEW view, NEW p, NEW v, NEW m,
         Tells(m, p) => m.values[p] = v,
         Tells(m, p) \/ Shows(q, view, p, v)
  PROVE  Shows(Append(q, m), view, p, v)
<1> DEFINE r == Append(q, m)
<1>1. /\ Len(q) \in Nat /\ DOMAIN q = 1..Len(q) /\ DOMAIN r = 1..(Len(q) + 1)
      /\ \A i \in DOMAIN q : r[i] = q[i]
      /\ r[Len(q) + 1] = m
  BY Appended
<1> HIDE DEF r
<1>2. CASE Tells(m, p)
  BY <1>1, <1>2 DEF Shows, r
<1>3. CASE ~Tells(m, p)
  <2>1. \A i \in DOMAIN r : (i \in DOMAIN q /\ r[i] = q[i]) \/ r[i] = m
    BY <1>1
  <2>2. DOMAIN q \subseteq DOMAIN r
    BY <1>1
  <2> QED BY <1>1, <1>3, <2>1, <2>2 DEF Shows, r
<1> QED BY <1>2, <1>3

(* The first message is read into the view.                                   *)
LEMMA ShowsRest ==
  ASSUME NEW q, Sequenced(q), q # <<>>, NEW view, NEW p, NEW v, Shows(q, view, p, v), NEW next,
         next[p] = IF Tells(Head(q), p) THEN Head(q).values[p] ELSE view[p]
  PROVE  Shows(Tail(q), next, p, v)
<1> DEFINE r == Tail(q)
<1>1. /\ Len(q) \in Nat \ {0} /\ DOMAIN q = 1..Len(q) /\ DOMAIN r = 1..(Len(q) - 1)
      /\ Head(q) = q[1] /\ 1 \in DOMAIN q
      /\ \A i \in DOMAIN r : i + 1 \in DOMAIN q /\ r[i] = q[i + 1]
      /\ \A i \in DOMAIN q : i = 1 \/ (i - 1 \in DOMAIN r /\ q[i] = r[i - 1])
  BY Taken
<1> HIDE DEF r
<1>2. CASE \E i \in DOMAIN q : /\ Tells(q[i], p) /\ q[i].values[p] = v
                              /\ \A j \in DOMAIN q : j > i => ~Tells(q[j], p)
  <2>1. PICK i \in DOMAIN q : /\ Tells(q[i], p) /\ q[i].values[p] = v
                             /\ \A j \in DOMAIN q : j > i => ~Tells(q[j], p)
    BY <1>2
  <2>2. CASE i = 1
    <3>1. \A j \in DOMAIN r : ~Tells(r[j], p)
      BY <1>1, <2>1, <2>2
    <3> QED BY <1>1, <2>1, <2>2, <3>1 DEF Shows, r
  <2>3. CASE i # 1
    <3>1. i - 1 \in DOMAIN r /\ r[i - 1] = q[i]
      BY <1>1, <2>3
    <3>2. \A j \in DOMAIN r : j > i - 1 => ~Tells(r[j], p)
      BY <1>1, <2>1
    <3> QED BY <2>1, <3>1, <3>2 DEF Shows, r
  <2> QED BY <2>2, <2>3
<1>3. CASE (\A i \in DOMAIN q : ~Tells(q[i], p)) /\ view[p] = v
  <2>1. \A j \in DOMAIN r : ~Tells(r[j], p)
    BY <1>1, <1>3
  <2> QED BY <1>1, <1>3, <2>1 DEF Shows, r
<1> QED BY <1>2, <1>3 DEF Shows

-----------------------------------------------------------------------------
(* The wiring: what is a sequence, what has which fields.                     *)

(* The shell has its fields, and its view has every property.                 *)
Knows(sh) ==
  /\ {"name", "inbox", "registered", "lifetime", "view", "overtaken"} \subseteq DOMAIN sh
  /\ Sequenced(sh.inbox)
  /\ \A i \in DOMAIN sh.inbox : sh.inbox[i].kind \in Kinds
  /\ sh.view = [p \in Props |-> sh.view[p]]

(* Every connection has a sequence of calls.                                  *)
Linked(conns) ==
  /\ DOMAIN conns = Epoch
  /\ \A e \in Epoch : /\ "calls" \in DOMAIN conns[e]
                      /\ Sequenced(conns[e].calls)

(* A reaction of the shell is under way.                                      *)
Wired(x) ==
  /\ {"shell", "widgets", "connections"} \subseteq DOMAIN x
  /\ Knows(x.shell) /\ Linked(x.connections)

(* A GetAll of caller n waits on the connection that owns the name.           *)
Asked(conns, n) ==
  \E i \in DOMAIN conns[bus.owner].calls :
    conns[bus.owner].calls[i].kind = "GetAll" /\ conns[bus.owner].calls[i].name = n

(* From x to y the shell has sent calls; without a daemon they have failed.   *)
Reacts(x, y) ==
  /\ Wired(y)
  /\ y.shell.name = x.shell.name /\ y.shell.view = x.shell.view
  /\ bus.owner # 0 => /\ y.shell.inbox = x.shell.inbox
                      /\ \A n : Asked(x.connections, n) => Asked(y.connections, n)

(* One reaction after the other.                                              *)
LEMMA ReactsTransitive ==
  ASSUME NEW x, NEW y, NEW z, Reacts(x, y), Reacts(y, z)
  PROVE  Reacts(x, z)
BY DEF Reacts

(* The shell is told something that is no news of a value.                    *)
LEMMA TellKnows ==
  ASSUME NEW sh, Knows(sh), NEW m, m.kind \in Kinds
  PROVE  /\ Knows(Tell(sh, m)) /\ Tell(sh, m).name = sh.name /\ Tell(sh, m).view = sh.view
         /\ sh.name # 0 => Tell(sh, m).inbox = Append(sh.inbox, m)
<1> DEFINE q == sh.inbox
           r == Append(q, m)
           t == [sh EXCEPT !.inbox = r]
<1>1. Sequenced(r) /\ \A i \in DOMAIN r : r[i].kind \in Kinds
  <2>1. /\ Sequenced(r)
        /\ Len(q) \in Nat /\ DOMAIN q = 1..Len(q) /\ DOMAIN r = 1..(Len(q) + 1)
        /\ \A i \in DOMAIN q : r[i] = q[i]
        /\ r[Len(q) + 1] = m
    BY Appended DEF Knows
  <2> HIDE DEF q, r
  <2>2. \A i \in DOMAIN q : q[i].kind \in Kinds
    BY DEF Knows, q
  <2> QED BY <2>1, <2>2
<1>2. Tell(sh, m) = IF sh.name = 0 THEN sh ELSE t
  BY DEF Tell
<1> HIDE DEF r
<1>3. Knows(t) /\ t.name = sh.name /\ t.view = sh.view /\ t.inbox = r
  BY <1>1 DEF Knows
<1> QED BY <1>2, <1>3 DEF r

(* What was used too early is no news.                                        *)
LEMMA OvertakenKnows ==
  ASSUME NEW sh, Knows(sh), NEW early
  PROVE  LET t == [sh EXCEPT !.overtaken = early]
         IN  /\ Knows(t) /\ t.overtaken = early
             /\ t.name = sh.name /\ t.inbox = sh.inbox /\ t.view = sh.view
             /\ t.lifetime = sh.lifetime /\ t.registered = sh.registered
<1> DEFINE t == [sh EXCEPT !.overtaken = early]
<1>1. /\ {"name", "inbox", "registered", "lifetime", "view", "overtaken"} \subseteq DOMAIN t
      /\ t.overtaken = early /\ t.name = sh.name /\ t.inbox = sh.inbox /\ t.view = sh.view
      /\ t.lifetime = sh.lifetime /\ t.registered = sh.registered
  BY DEF Knows
<1> HIDE DEF t
<1>2. Knows(t)
  BY <1>1 DEF Knows
<1> QED BY <1>1, <1>2 DEF t

(* A call is sent.                                                            *)
LEMMA RoutedCall ==
  ASSUME NEW conns, Linked(conns), bus.owner \in Epoch, NEW c, bus.owner # 0
  PROVE  /\ Linked(Routed(conns, c))
         /\ \A n : Asked(conns, n) => Asked(Routed(conns, c), n)
         /\ c.kind = "GetAll" => Asked(Routed(conns, c), c.name)
<1> DEFINE o == bus.owner
           q == conns[o].calls
           r == Append(q, c)
           s == [conns EXCEPT ![o].calls = r]
<1>1. s = Routed(conns, c)
  BY DEF Routed
<1>2. /\ Sequenced(r)
      /\ Len(q) \in Nat /\ DOMAIN q = 1..Len(q) /\ DOMAIN r = 1..(Len(q) + 1)
      /\ \A i \in DOMAIN q : r[i] = q[i]
      /\ r[Len(q) + 1] = c
  BY Appended DEF Linked
<1> HIDE DEF r
<1>3. Linked(s) /\ s[o].calls = r
  BY <1>2 DEF Linked
<1>4. \A n : Asked(conns, n) => Asked(s, n)
  BY <1>2, <1>3 DEF Asked
<1>5. c.kind = "GetAll" => Asked(s, c.name)
  <2>1. Len(q) + 1 \in DOMAIN r
    BY <1>2
  <2> QED BY <1>2, <1>3, <2>1 DEF Asked
<1> QED BY <1>1, <1>3, <1>4, <1>5

(* A call is sent, or fails where there is no daemon.                         *)
LEMMA SendReacts ==
  ASSUME NEW x, Wired(x), bus.owner \in Epoch \cup {0}, NEW c
  PROVE  /\ Reacts(x, Send(x, c))
         /\ c.kind = "GetAll" /\ bus.owner # 0 => Asked(Send(x, c).connections, c.name)
<1>1. CASE bus.owner # 0
  <2> DEFINE conns == Routed(x.connections, c)
             y == [x EXCEPT !.connections = conns]
  <2>1. y = Send(x, c)
    BY <1>1 DEF Send
  <2>2. /\ Linked(conns) /\ \A n : Asked(x.connections, n) => Asked(conns, n)
        /\ c.kind = "GetAll" => Asked(conns, c.name)
    BY <1>1, RoutedCall DEF Wired
  <2> HIDE DEF conns
  <2>3. Wired(y) /\ y.shell = x.shell /\ y.connections = conns
    BY <2>2 DEF Wired
  <2> HIDE DEF y
  <2> QED BY <2>1, <2>2, <2>3 DEF Reacts
<1>2. CASE bus.owner = 0
  <2> DEFINE m  == ErrorReply(c)
             sh == Tell(x.shell, m)
             y  == [x EXCEPT !.shell = sh]
  <2>1. Send(x, c) \in {x, y}
    BY <1>2 DEF Send
  <2>2. m.kind \in Kinds
    BY DEF ErrorReply, Kinds
  <2> HIDE DEF m
  <2>3. Knows(sh) /\ sh.name = x.shell.name /\ sh.view = x.shell.view
    BY <2>2, TellKnows DEF Wired
  <2> HIDE DEF sh
  <2>4. Wired(y) /\ y.shell = sh
    BY <2>3 DEF Wired
  <2> HIDE DEF y
  <2> QED BY <1>2, <2>1, <2>3, <2>4 DEF Reacts
<1> QED BY <1>1, <1>2

(* A widget changes, no more.                                                 *)
LEMMA WidgetReacts ==
  ASSUME NEW x, Wired(x), NEW f
  PROVE  Reacts(x, [x EXCEPT !.widgets = f])
<1> DEFINE y == [x EXCEPT !.widgets = f]
<1>1. {"shell", "widgets", "connections"} \subseteq DOMAIN y
      /\ y.shell = x.shell /\ y.connections = x.connections
  BY DEF Wired
<1> HIDE DEF y
<1> QED BY <1>1 DEF Wired, Reacts, y

(* The lease of a widget is drained.                                          *)
LEMMA DrainReacts ==
  ASSUME NEW x, Wired(x), bus.owner \in Epoch \cup {0}, NEW w
  PROVE  Reacts(x, DrainLease(x, w))
<1> DEFINE unknown == [x EXCEPT !.widgets[w].known = FALSE]
           running == [x EXCEPT !.widgets[w].running = TRUE]
<1>1. PICK c : DrainLease(x, w) \in {x, unknown, Send(running, c)}
  BY DEF DrainLease
<1>2. Reacts(x, unknown)
  <2>1. \E f : unknown = [x EXCEPT !.widgets = f]
    OBVIOUS
  <2> QED BY <2>1, WidgetReacts
<1>3. Reacts(x, running)
  <2>1. \E f : running = [x EXCEPT !.widgets = f]
    OBVIOUS
  <2> QED BY <2>1, WidgetReacts
<1> HIDE DEF unknown, running
<1>4. Reacts(x, Send(running, c))
  <2>1. Reacts(running, Send(running, c))
    BY <1>3, SendReacts DEF Reacts
  <2> QED BY <1>3, <2>1, ReactsTransitive
<1>5. Reacts(x, x)
  BY DEF Reacts
<1> QED BY <1>1, <1>2, <1>4, <1>5

(* restart, and the reply to a call.                                          *)
LEMMA WidgetsReact ==
  ASSUME NEW x, Wired(x), bus.owner \in Epoch \cup {0}
  PROVE  /\ \A w : Reacts(x, RestartLease(x, w))
         /\ \A m : Reacts(x, Settled(x, m))
<1>1. ASSUME NEW f, NEW w
      PROVE  LET y == [x EXCEPT !.widgets = f] IN Reacts(x, y) /\ Reacts(x, DrainLease(y, w))
  <2> DEFINE y == [x EXCEPT !.widgets = f]
  <2>1. Reacts(x, y)
    BY WidgetReacts
  <2> HIDE DEF y
  <2>2. Reacts(y, DrainLease(y, w))
    BY <2>1, DrainReacts DEF Reacts
  <2> QED BY <2>1, <2>2, ReactsTransitive DEF y
<1>2. ASSUME NEW w
      PROVE  Reacts(x, RestartLease(x, w))
  <2>1. \E f : RestartLease(x, w) = DrainLease([x EXCEPT !.widgets = f], w)
    BY DEF RestartLease
  <2> QED BY <1>1, <2>1
<1>3. ASSUME NEW m
      PROVE  Reacts(x, Settled(x, m))
  <2>1. \E f, w : LET y == [x EXCEPT !.widgets = f]
                 IN  Settled(x, m) \in {x, y, DrainLease(y, w)}
    BY DEF Settled
  <2>2. Reacts(x, x)
    BY DEF Reacts
  <2> QED BY <1>1, <2>1, <2>2
<1> QED BY <1>2, <1>3

(* daemonRegistered, one widget after the other.                              *)
Restarts(x, restarted) ==
  restarted = [n \in 0..Len(InOrder) |->
                 IF n = 0 THEN x ELSE RestartLease(restarted[n - 1], InOrder[n])]

(* The recursive function of daemonRegistered is one.                         *)
LEMMA RestartsExist ==
  ASSUME Len(InOrder) \in Nat, NEW x
  PROVE  \E restarted : Restarts(x, restarted)
<1> DEFINE N == Len(InOrder)
           After(f, n) == IF n = 0 THEN x ELSE RestartLease(f[n - 1], InOrder[n])
           Upto(f, k) == f = [n \in 0..k |-> After(f, n)]
           A == {k \in 0..N : \E f : Upto(f, k)}
<1>1. 0 \in A
  <2> DEFINE f == [n \in 0..0 |-> x]
  <2>1. Upto(f, 0)
    OBVIOUS
  <2> HIDE DEF Upto, f
  <2> QED BY <2>1
<1>2. ASSUME NEW k \in 1..N, k - 1 \in A PROVE k \in A
  <2>1. PICK f : Upto(f, k - 1)
    BY <1>2
  <2> DEFINE g == [n \in 0..k |-> IF n = k THEN After(f, k) ELSE f[n]]
  <2>2. \A n \in 0..k : After(g, n) = After(f, n)
    OBVIOUS
  <2>3. \A n \in 0..k - 1 : f[n] = After(f, n)
    BY <2>1
  <2>4. \A n \in 0..k : g[n] = After(g, n)
    BY <2>2, <2>3
  <2>5. Upto(g, k)
    BY <2>4
  <2> HIDE DEF Upto, g
  <2> QED BY <2>5
<1>3. N \in A
  <2> HIDE DEF A, N
  <2> QED BY <1>1, <1>2, EveryPosition DEF N
<1> QED BY <1>3 DEF Restarts

(* daemonRegistered asks the daemon for everything.                           *)
LEMMA RegisteredReacts ==
  ASSUME NEW x, Wired(x), bus.owner \in Epoch \cup {0}, Len(InOrder) \in Nat
  PROVE  /\ Reacts(x, DaemonRegistered(x))
         /\ bus.owner # 0 => Asked(DaemonRegistered(x).connections, x.shell.name)
<1> DEFINE counted == [x EXCEPT !.shell.registered = TRUE, !.shell.lifetime = x.shell.lifetime + 1]
           call    == Call(counted, "GetAll", AnyWidget)
           fetched == Send(counted, call)
           chosen  == CHOOSE f : Restarts(fetched, f)
           N       == Len(InOrder)
<1>1. DaemonRegistered(x) = chosen[N]
  BY DEF DaemonRegistered, Restarts
<1>2. Reacts(x, counted) /\ call.kind = "GetAll" /\ call.name = x.shell.name
  BY DEF Wired, Knows, Reacts, Call
<1> HIDE DEF counted, call
<1>3. Reacts(x, fetched) /\ (bus.owner # 0 => Asked(fetched.connections, x.shell.name))
  <2>1. Reacts(counted, fetched) /\ (bus.owner # 0 => Asked(fetched.connections, x.shell.name))
    BY <1>2, SendReacts DEF Reacts
  <2> QED BY <1>2, <2>1, ReactsTransitive
<1> HIDE DEF fetched
<1>4. Restarts(fetched, chosen)
  BY RestartsExist
<1> HIDE DEF chosen
<1>5. chosen[0] = fetched /\ \A n \in 1..N : chosen[n] = RestartLease(chosen[n - 1], InOrder[n])
  BY <1>4 DEF Restarts
<1>6. Reacts(fetched, chosen[N])
  <2> DEFINE A == {n \in 0..N : Reacts(fetched, chosen[n])}
  <2>1. 0 \in A
    BY <1>3, <1>5 DEF Reacts
  <2>2. ASSUME NEW n \in 1..N, n - 1 \in A
        PROVE  n \in A
    <3>1. Reacts(chosen[n - 1], RestartLease(chosen[n - 1], InOrder[n]))
      BY <2>2, WidgetsReact DEF Reacts
    <3> QED BY <1>5, <2>2, <3>1, ReactsTransitive
  <2> HIDE DEF A
  <2>3. N \in A
    BY <2>1, <2>2, EveryPosition
  <2> QED BY <2>3 DEF A
<1> QED BY <1>1, <1>3, <1>6, ReactsTransitive DEF Reacts

(* What a lost connection leaves to the shell.                                *)
Tellings(sh, e, told) ==
  told = [n \in 0..Len(Calls(e)) |->
            IF n = 0 THEN Tell(sh, [kind |-> "Lost"])
            ELSE LET c == Calls(e)[n]
                 IN  IF Tracked(c) /\ c.name = sh.name THEN Tell(told[n - 1], ErrorReply(c))
                     ELSE told[n - 1]]

(* The recursive function of Bereaved is one.                                 *)
LEMMA TellingsExist ==
  ASSUME NEW sh, NEW e, Len(Calls(e)) \in Nat
  PROVE  \E told : Tellings(sh, e, told)
<1> DEFINE N == Len(Calls(e))
           base == Tell(sh, [kind |-> "Lost"])
           Chosen(n) == Tracked(Calls(e)[n]) /\ Calls(e)[n].name = sh.name
           After(f, n) == IF n = 0 THEN base
                          ELSE IF Chosen(n) THEN Tell(f[n - 1], ErrorReply(Calls(e)[n]))
                          ELSE f[n - 1]
           Upto(f, k) == f = [n \in 0..k |-> After(f, n)]
           A == {k \in 0..N : \E f : Upto(f, k)}
<1>1. 0 \in A
  <2> DEFINE f == [n \in 0..0 |-> base]
  <2> HIDE DEF base
  <2>1. Upto(f, 0)
    OBVIOUS
  <2> HIDE DEF Upto, f
  <2> QED BY <2>1
<1>2. ASSUME NEW k \in 1..N, k - 1 \in A PROVE k \in A
  <2> HIDE DEF base, Chosen
  <2>1. PICK f : Upto(f, k - 1)
    BY <1>2
  <2> DEFINE g == [n \in 0..k |-> IF n = k THEN After(f, k) ELSE f[n]]
  <2>2. \A n \in 0..k : After(g, n) = After(f, n)
    OBVIOUS
  <2>3. \A n \in 0..k - 1 : f[n] = After(f, n)
    BY <2>1
  <2>4. \A n \in 0..k : g[n] = After(g, n)
    BY <2>2, <2>3
  <2>5. Upto(g, k)
    BY <2>4
  <2> HIDE DEF Upto, g
  <2> QED BY <2>5
<1>3. N \in A
  <2> HIDE DEF A, N
  <2> QED BY <1>1, <1>2, EveryPosition DEF N
<1> QED BY <1>3 DEF Tellings

(* What callers are told of a loss is no Registered and no value.             *)
LEMMA BereavedKnows ==
  ASSUME NEW sh, Knows(sh), NEW e, Len(Calls(e)) \in Nat
  PROVE  Knows(Bereaved(sh, e)) /\ Bereaved(sh, e).name = sh.name
<1> DEFINE chosen == CHOOSE f : Tellings(sh, e, f)
           N      == Len(Calls(e))
           Fine(u) == Knows(u) /\ u.name = sh.name
<1>1. Bereaved(sh, e) = chosen[N]
  BY DEF Bereaved, Tellings
<1>2. Tellings(sh, e, chosen)
  BY TellingsExist
<1> HIDE DEF chosen
<1>3. ASSUME NEW n \in 1..N
      PROVE  \E c : chosen[n] \in {chosen[n - 1], Tell(chosen[n - 1], ErrorReply(c))}
  BY <1>2 DEF Tellings
<1>4. \A u, c : Fine(u) => Fine(Tell(u, ErrorReply(c)))
  <2>1. \A c : ErrorReply(c).kind \in Kinds
    BY DEF ErrorReply, Kinds
  <2> QED BY <2>1, TellKnows
<1>5. Fine(chosen[0])
  <2> DEFINE m == [kind |-> "Lost"]
  <2>1. m.kind \in Kinds /\ chosen[0] = Tell(sh, m)
    BY <1>2 DEF Kinds, Tellings
  <2> HIDE DEF m
  <2> QED BY <2>1, TellKnows
<1> DEFINE A == {n \in 0..N : Fine(chosen[n])}
<1> HIDE DEF Fine
<1>6. 0 \in A /\ \A n \in 1..N : n - 1 \in A => n \in A
  BY <1>3, <1>4, <1>5
<1> HIDE DEF A
<1>7. N \in A
  BY <1>6, EveryPosition
<1> QED BY <1>1, <1>7 DEF A, Fine

-----------------------------------------------------------------------------
(* What the shell shows is what was published last, or news is on its way.    *)

(* What is dirty will be taken; what is in the batch is the newest value, or  *)
(* dirty again.                                                               *)
Outlet ==
  /\ published = [values |-> published.values, dirty |-> published.dirty,
                  permit |-> published.permit, batch |-> published.batch]
  /\ published.values = [p \in Props |-> published.values[p]]
  /\ published.dirty \subseteq Props
  /\ published.permit \in BOOLEAN /\ (published.dirty # {} => published.permit)
  /\ published.batch # <<>> =>
       \E f : /\ published.batch = <<f>> /\ DOMAIN f \subseteq Props
             /\ \A p \in DOMAIN f : f[p] = published.values[p] \/ p \in published.dirty

(* The shell will ask for everything.                                         *)
Fetching == Noticed(shell.inbox) \/ Asked(service.connections, shell.name)

(* What is published of p will be told, or has been.                          *)
Fresh(p) ==
  \/ p \in published.dirty
  \/ published.batch # <<>> /\ p \in DOMAIN published.batch[1]
  \/ Shows(shell.inbox, shell.view, p, published.values[p])

(* A connected shell will fetch, or every property is on its way or shown.    *)
Current ==
  bus.owner # 0 /\ shell.name # 0 => Fetching \/ \A p \in Props : Fresh(p)

(* What makes ViewCatchesUp inductive.                                        *)
ViewInv == Outlet /\ Knows(shell) /\ Linked(service.connections) /\ Current

(* With nothing under way, the view is what was published.                    *)
LEMMA ViewsCatchUp == ASSUME IInv, ViewInv PROVE ViewCatchesUp
<1> SUFFICES ASSUME Idle, shell.name # 0 PROVE shell.view = published.values
  BY DEF ViewCatchesUp
<1>1. bus.owner \in Epoch /\ bus.owner # 0
  BY DEF IInv, TypeOK, Idle, Epoch
<1>2. ~Fetching
  BY <1>1 DEF Fetching, Noticed, Asked, Idle, Calls
<1>3. published.dirty = {} /\ published.batch = <<>> /\ shell.inbox = <<>>
  BY DEF Idle, ViewInv, Outlet
<1>4. ASSUME NEW p \in Props
      PROVE  shell.view[p] = published.values[p]
  BY <1>1, <1>2, <1>3 DEF ViewInv, Current, Fresh, Shows
<1>5. /\ shell.view = [p \in Props |-> shell.view[p]]
      /\ published.values = [p \in Props |-> published.values[p]]
  BY DEF ViewInv, Knows, Outlet
<1> QED BY <1>4, <1>5

(* The shell is told something.                                               *)
LEMMA Hearing ==
  ASSUME NEW sh, Knows(sh), NEW m, m.kind \in Kinds, sh.name # 0
  PROVE  LET u == Tell(sh, m)
         IN  /\ Noticed(sh.inbox) \/ m.kind = "Registered" => Noticed(u.inbox)
             /\ \A p, v : /\ Tells(m, p) => m.values[p] = v
                          /\ Tells(m, p) \/ Shows(sh.inbox, sh.view, p, v)
                          => Shows(u.inbox, u.view, p, v)
<1> DEFINE u == Tell(sh, m)
           q == sh.inbox
           r == Append(q, m)
<1>1. u.view = sh.view /\ u.inbox = r
  BY TellKnows
<1>2. Sequenced(q)
  BY DEF Knows
<1>3. /\ Len(q) \in Nat /\ DOMAIN q = 1..Len(q) /\ DOMAIN r = 1..(Len(q) + 1)
      /\ \A i \in DOMAIN q : r[i] = q[i]
      /\ r[Len(q) + 1] = m
  BY <1>2, Appended
<1>4. ASSUME NEW p, NEW v, Tells(m, p) => m.values[p] = v,
             Tells(m, p) \/ Shows(q, sh.view, p, v)
      PROVE  Shows(r, sh.view, p, v)
  BY <1>2, <1>4, ShowsMore
<1> HIDE DEF u, r, q
<1>5. Noticed(q) \/ m.kind = "Registered" => Noticed(r)
  <2>1. Len(q) + 1 \in DOMAIN r /\ DOMAIN q \subseteq DOMAIN r
    BY <1>3
  <2> QED BY <1>3, <2>1 DEF Noticed
<1> QED BY <1>1, <1>4, <1>5 DEF u, q

(* News that is none of a value leaves the shell as current as it was.        *)
LEMMA HearingKeeps ==
  ASSUME ViewInv, NEW m, m.kind \in {"Lost", "Reply", "Registered"}, shell' = Tell(shell, m),
         UNCHANGED published
  PROVE  /\ Knows(shell') /\ Outlet'
         /\ shell'.name = shell.name
         /\ shell.name # 0 =>
              /\ Noticed(shell.inbox) \/ m.kind = "Registered" => Noticed(shell'.inbox)
              /\ \A p : Fresh(p) => Fresh(p)'
<1>1. m.kind \in Kinds /\ \A p : ~Tells(m, p)
  BY DEF Kinds, Tells
<1>2. Knows(shell)
  BY DEF ViewInv
<1>3. Knows(shell') /\ shell'.name = shell.name
  BY <1>1, <1>2, TellKnows
<1>4. Outlet'
  BY DEF ViewInv, Outlet
<1>5. ASSUME shell.name # 0
      PROVE  /\ Noticed(shell.inbox) \/ m.kind = "Registered" => Noticed(shell'.inbox)
             /\ \A p, v : Shows(shell.inbox, shell.view, p, v)
                             => Shows(shell'.inbox, shell'.view, p, v)
  BY <1>1, <1>2, <1>5, Hearing
<1>6. ASSUME shell.name # 0, NEW p, Fresh(p)
      PROVE  Fresh(p)'
  BY <1>5, <1>6 DEF Fresh
<1> QED BY <1>3, <1>4, <1>5, <1>6

(* A reaction of the shell to its user.                                       *)
LEMMA ReactionKeeps ==
  ASSUME IInv, ViewInv, NEW y, Reacts(World, y), Happens(y), UNCHANGED <<bus, published>>
  PROVE  ViewInv'
<1>1. /\ World.shell = shell /\ World.connections = service.connections
      /\ shell' = y.shell /\ service'.connections = y.connections
  BY DEF World, Happens, IInv, Shape
<1>2. Outlet' /\ Knows(shell)' /\ Linked(service.connections)'
  BY <1>1 DEF ViewInv, Outlet, Reacts, Wired
<1>3. ASSUME bus.owner # 0, shell.name # 0
      PROVE  Fetching' \/ \A p \in Props : Fresh(p)'
  <2>1. shell'.inbox = shell.inbox /\ shell'.view = shell.view /\ shell'.name = shell.name
    BY <1>1, <1>3 DEF Reacts
  <2>2. Fetching => Fetching'
    BY <1>1, <1>3, <2>1 DEF Fetching, Reacts, Asked
  <2>3. \A p \in Props : Fresh(p) => Fresh(p)'
    BY <2>1 DEF Fresh
  <2> QED BY <1>3, <2>2, <2>3 DEF ViewInv, Current
<1>4. Current'
  BY <1>1, <1>3 DEF Current, Reacts
<1> QED BY <1>2, <1>4 DEF ViewInv

(* The owner of the name is a connection, or there is none.                   *)
LEMMA OwnerIsOpen ==
  ASSUME IInv
  PROVE  bus.owner \in Epoch \cup {0} /\ 0 \notin Epoch
BY DEF IInv, TypeOK, Epoch

(* What a reaction starts from.                                               *)
LEMMA WorldWired == ASSUME ViewInv PROVE Wired(World)
BY DEF ViewInv, Wired, World

(* Toggle, Destroy and Wheel.                                                 *)
LEMMA UserCurrent == ASSUME IInv, ViewInv, User PROVE ViewInv'
<1>1. Wired(World) /\ bus.owner \in Epoch \cup {0}
  BY WorldWired, OwnerIsOpen
<1>2. UNCHANGED <<bus, published>>
  BY DEF User, Wheel, Toggle, Destroy
<1>3. \E y : Reacts(World, y) /\ Happens(y)
  <2>1. CASE Wheel
    <3>1. PICK c : Happens(Send(World, c))
      BY <2>1 DEF Wheel
    <3> QED BY <1>1, <3>1, SendReacts
  <2>2. ASSUME NEW early, NEW f, NEW w, NEW c
        PROVE  LET x == [World EXCEPT !.shell.overtaken = early, !.widgets = f]
               IN  Reacts(World, DrainLease(x, w)) /\ Reacts(World, Send(x, c))
    <3> DEFINE x == [World EXCEPT !.shell.overtaken = early, !.widgets = f]
               t == [shell EXCEPT !.overtaken = early]
    <3>1. Reacts(World, x)
      <4>1. Knows(t) /\ t.name = shell.name /\ t.inbox = shell.inbox /\ t.view = shell.view
        BY OvertakenKnows DEF ViewInv
      <4>2. /\ {"shell", "widgets", "connections"} \subseteq DOMAIN x
            /\ x.shell = t /\ x.connections = service.connections
            /\ World.shell = shell /\ World.connections = service.connections
        BY DEF World
      <4> HIDE DEF x, t
      <4> QED BY <1>1, <4>1, <4>2 DEF Reacts, Wired
    <3> HIDE DEF x
    <3>2. Reacts(x, DrainLease(x, w)) /\ Reacts(x, Send(x, c))
      BY <1>1, <3>1, DrainReacts, SendReacts DEF Reacts
    <3> QED BY <3>1, <3>2, ReactsTransitive DEF x
  <2>3. ASSUME NEW w \in Widget, Toggle(w)
        PROVE  \E y : Reacts(World, y) /\ Happens(y)
    <3>1. \E early, f : Happens(DrainLease([World EXCEPT !.shell.overtaken = early, !.widgets = f], w))
      BY <2>3 DEF Toggle
    <3> QED BY <2>2, <3>1
  <2>4. ASSUME NEW w \in Widget, Destroy(w)
        PROVE  \E y : Reacts(World, y) /\ Happens(y)
    <3>1. \E early, f, c : Happens(Send([World EXCEPT !.shell.overtaken = early, !.widgets = f], c))
      BY <2>4 DEF Destroy
    <3> QED BY <2>2, <3>1
  <2> QED BY <2>1, <2>3, <2>4 DEF User
<1> QED BY <1>2, <1>3, ReactionKeeps

(* The shell reads: the first message is no longer to come.                   *)
LEMMA ReadCurrent ==
  ASSUME AppletAssumption, IInv, ViewInv, ShellReads
  PROVE  ViewInv'
<1> DEFINE q == shell.inbox
           m == Head(q)
           x == [World EXCEPT !.shell.inbox = Tail(q)]
           y == Read(x, m)
<1>1. q # <<>> /\ Happens(y) /\ UNCHANGED <<bus, published>>
  BY DEF ShellReads, World
<1>2. Knows(shell) /\ Linked(service.connections)
  BY DEF ViewInv
<1>3. /\ Sequenced(Tail(q)) /\ m = q[1] /\ 1 \in DOMAIN q
      /\ \A i \in DOMAIN Tail(q) : i + 1 \in DOMAIN q /\ Tail(q)[i] = q[i + 1]
      /\ \A i \in DOMAIN q : i = 1 \/ (i - 1 \in DOMAIN Tail(q) /\ q[i] = Tail(q)[i - 1])
  BY <1>1, <1>2, Taken DEF Knows
<1>4. m.kind \in Kinds /\ \A i \in DOMAIN Tail(q) : Tail(q)[i].kind \in Kinds
  BY <1>2, <1>3 DEF Knows
<1>5. /\ Wired(x) /\ x.connections = service.connections
      /\ x.shell.name = shell.name /\ x.shell.inbox = Tail(q) /\ x.shell.view = shell.view
  BY <1>2, <1>3, <1>4 DEF Wired, World, Knows
<1>6. bus.owner \in Epoch \cup {0} /\ Len(InOrder) \in Nat
  BY OwnerIsOpen, WidgetsInOrder DEF AppletAssumption
<1>7. shell' = y.shell /\ service'.connections = y.connections
  BY <1>1 DEF Happens, IInv, Shape
<1>8. Noticed(q) /\ m.kind # "Registered" => Noticed(Tail(q))
  BY <1>3 DEF Noticed
<1>9. ASSUME NEW p, NEW v, Shows(q, shell.view, p, v), NEW next,
             next[p] = IF Tells(m, p) THEN m.values[p] ELSE shell.view[p]
      PROVE  Shows(Tail(q), next, p, v)
  BY <1>1, <1>2, <1>9, ShowsRest DEF Knows
<1> HIDE DEF x
<1>10. Outlet'
  BY <1>1 DEF ViewInv, Outlet
<1>11. CASE m.kind # "Changed"
  <2>1. Reacts(x, y) /\ (m.kind = "Registered" /\ bus.owner # 0 => Asked(y.connections, shell.name))
    <3>1. CASE m.kind = "Lost"
      <4>1. y = [x EXCEPT !.shell.registered = FALSE]
        BY <3>1 DEF Read
      <4> QED BY <1>5, <3>1, <4>1 DEF Reacts, Wired, Knows
    <3>2. CASE m.kind = "Registered"
      BY <1>5, <1>6, <3>2, RegisteredReacts DEF Read
    <3>3. CASE m.kind = "Reply"
      BY <1>5, <1>6, <3>3, WidgetsReact DEF Read
    <3> QED BY <1>4, <1>11, <3>1, <3>2, <3>3 DEF Kinds
  <2> HIDE DEF y
  <2>2. Knows(shell)' /\ Linked(service.connections)'
    BY <1>7, <2>1 DEF Reacts, Wired
  <2>3. \A p : ~Tells(m, p)
    BY <1>11 DEF Tells
  <2>4. ASSUME bus.owner # 0, shell.name # 0
        PROVE  Fetching' \/ \A p \in Props : Fresh(p)'
    <3>1. shell'.inbox = Tail(q) /\ shell'.view = shell.view /\ shell'.name = shell.name
      BY <1>5, <1>7, <2>1, <2>4 DEF Reacts
    <3>2. Asked(service.connections, shell.name) => Asked(service'.connections, shell.name)
      BY <1>5, <1>7, <2>1, <2>4 DEF Reacts
    <3>3. Fetching => Fetching'
      <4>1. Asked(service'.connections, shell.name) => Asked(service.connections, shell.name)'
        BY <1>1, <3>1 DEF Asked
      <4> QED BY <1>7, <1>8, <2>1, <2>4, <3>1, <3>2, <4>1 DEF Fetching
    <3>4. ASSUME NEW p \in Props, Fresh(p)
          PROVE  Fresh(p)'
      BY <1>1, <1>9, <2>3, <3>1, <3>4 DEF Fresh
    <3> QED BY <2>4, <3>3, <3>4 DEF ViewInv, Current
  <2>5. Current'
    BY <1>1, <1>5, <1>7, <2>1, <2>4 DEF Current, Reacts
  <2> QED BY <1>10, <2>2, <2>5 DEF ViewInv
<1>12. CASE m.kind = "Changed"
  <2> DEFINE next == [p \in DOMAIN shell.view |-> IF p \in DOMAIN m.values THEN m.values[p]
                                                ELSE shell.view[p]]
  <2>1. y = [x EXCEPT !.shell.view = next]
    BY <1>5, <1>12 DEF Read
  <2>2. DOMAIN shell.view = Props
    BY <1>2 DEF Knows
  <2>3. /\ next = [p \in Props |-> next[p]]
        /\ \A p \in Props : next[p] = IF Tells(m, p) THEN m.values[p] ELSE shell.view[p]
    BY <1>12, <2>2 DEF Tells
  <2> HIDE DEF next
  <2>4. /\ Wired(y) /\ y.connections = service.connections
        /\ y.shell.name = shell.name /\ y.shell.inbox = Tail(q) /\ y.shell.view = next
    BY <1>5, <2>1, <2>3 DEF Wired, Knows
  <2> HIDE DEF y
  <2>5. Knows(shell)' /\ Linked(service.connections)'
    BY <1>7, <2>4 DEF Wired
  <2>6. Fetching => Fetching'
    BY <1>1, <1>7, <1>8, <1>12, <2>4 DEF Fetching, Asked
  <2>7. ASSUME NEW p \in Props, Fresh(p)
        PROVE  Fresh(p)'
    BY <1>1, <1>7, <1>9, <2>3, <2>4, <2>7 DEF Fresh
  <2>8. Current'
    BY <1>1, <1>7, <2>4, <2>6, <2>7 DEF ViewInv, Current
  <2> QED BY <1>10, <2>5, <2>8 DEF ViewInv
<1> QED BY <1>11, <1>12

(* A connection that is lost, with the shell or without it.                   *)
LEMMA AbandonedLinks ==
  ASSUME IInv, ViewInv, service' = Abandoned(service.epoch), service.phase = "Serving"
  PROVE  Linked(service.connections)'
<1> DEFINE e == service.epoch
           r == [service.connections[e] EXCEPT !.departures = <<>>, !.forwarding = {}]
           conns == [service.connections EXCEPT ![e] = r]
<1>1. e \in Epoch /\ Linked(service.connections)
  BY DEF IInv, TypeOK, Epoch, ViewInv
<1>2. service'.connections = conns
  BY DEF Abandoned, IInv, Shape
<1>3. "calls" \in DOMAIN r /\ r.calls = service.connections[e].calls
  BY <1>1 DEF Linked
<1> HIDE DEF r
<1>4. Linked(conns)
  BY <1>1, <1>3 DEF Linked
<1> QED BY <1>2, <1>4

(* Without an owner nothing has to be current.                                *)
LEMMA LossCurrent == ASSUME IInv, ViewInv, LoseConnection \/ RestartBus PROVE ViewInv'
<1>1. /\ service' = Abandoned(service.epoch) /\ service.phase = "Serving" /\ bus'.owner = 0
      /\ published' = [published EXCEPT !.batch = <<>>]
  BY DEF LoseConnection, RestartBus, IInv, Shape
<1>2. Linked(service.connections)'
  BY <1>1, AbandonedLinks
<1>3. Knows(shell)'
  <2>1. CASE LoseConnection
    <3>1. service.epoch \in Epoch
      BY <1>1 DEF IInv, TypeOK, Epoch
    <3>2. Len(Calls(service.epoch)) \in Nat
      BY <3>1, Appended DEF ViewInv, Linked, Calls
    <3> QED BY <2>1, <3>2, BereavedKnows DEF LoseConnection, ViewInv
  <2>2. CASE RestartBus
    <3>1. Sequenced(<<>>)
      BY DEF Sequenced
    <3> QED BY <2>2, <3>1 DEF RestartBus, NoShell, Knows, Props
  <2> QED BY <2>1, <2>2
<1>4. Outlet'
  BY <1>1 DEF ViewInv, Outlet
<1> QED BY <1>1, <1>2, <1>3, <1>4 DEF ViewInv, Current

(* A shell that starts finds the daemon registered; without one nothing is    *)
(* shown.                                                                     *)
LEMMA ShellsCurrent == ASSUME IInv, ViewInv, StartShell \/ CrashShell PROVE ViewInv'
<1>1. Outlet'
  BY DEF ViewInv, Outlet, StartShell, CrashShell
<1>2. Sequenced(<<>>) /\ Sequenced(<<[kind |-> "Registered"]>>)
  <2>1. <<>> \in Seq({}) /\ <<[kind |-> "Registered"]>> \in Seq({[kind |-> "Registered"]})
    OBVIOUS
  <2> QED BY <2>1 DEF Sequenced
<1>3. CASE StartShell
  <2> DEFINE q == IF bus.owner = 0 THEN <<>> ELSE <<[kind |-> "Registered"]>>
  <2>1. /\ shell' = [NoShell EXCEPT !.name = bus.names + 1, !.inbox = q]
        /\ UNCHANGED service /\ bus'.owner = bus.owner
    BY <1>3 DEF StartShell, IInv, Shape
  <2>2. Sequenced(q) /\ (\A i \in DOMAIN q : q[i].kind \in Kinds) /\ (bus.owner # 0 => Noticed(q))
    BY <1>2 DEF Kinds, Noticed
  <2> HIDE DEF q
  <2>3. Knows(shell)' /\ shell'.inbox = q
    BY <2>1, <2>2 DEF NoShell, Knows, Props
  <2> QED BY <1>1, <2>1, <2>2, <2>3 DEF ViewInv, Current, Fetching
<1>4. CASE CrashShell
  <2>1. Knows(shell)' /\ shell'.name = 0
    BY <1>2, <1>4 DEF CrashShell, NoShell, Knows, Props
  <2>2. Linked(service.connections)'
    <3>1. CASE bus.owner = 0
      BY <1>4, <3>1 DEF CrashShell, ViewInv
    <3>2. CASE bus.owner # 0
      <4> DEFINE o == bus.owner
                 r == [service.connections[o] EXCEPT !.departures = Append(@, shell.name)]
                 conns == [service.connections EXCEPT ![o] = r]
      <4>1. o \in Epoch /\ Linked(service.connections)
        BY <3>2, OwnerIsOpen DEF ViewInv
      <4>2. service'.connections = conns
        BY <1>4, <3>2 DEF CrashShell, IInv, Shape
      <4>3. "calls" \in DOMAIN r /\ r.calls = service.connections[o].calls
        BY <4>1 DEF Linked
      <4> HIDE DEF r
      <4>4. Linked(conns)
        BY <4>1, <4>3 DEF Linked
      <4> QED BY <4>2, <4>4
    <3> QED BY <3>1, <3>2
  <2> QED BY <1>1, <2>1, <2>2 DEF ViewInv, Current
<1> QED BY <1>3, <1>4

(* A new owner is announced to the shell, which will fetch.                   *)
LEMMA AcquireCurrent == ASSUME AppletAssumption, IInv, ViewInv, Acquire PROVE ViewInv'
<1> DEFINE m == [kind |-> "Registered"]
           e == service.epoch + 1
           conns == [service.connections EXCEPT ![e] = NewConnection]
<1>1. /\ shell' = [Tell(shell, m) EXCEPT !.overtaken = {}] /\ m.kind = "Registered" /\ m.kind \in Kinds
      /\ UNCHANGED published
  BY DEF Acquire, Kinds
<1> HIDE DEF m
<1>2. /\ Knows(shell') /\ Outlet' /\ shell'.name = shell.name
      /\ shell.name # 0 => Noticed(shell'.inbox)
  <2>1. PICK t : t = Tell(shell, m)
    OBVIOUS
  <2>2. Knows(t) /\ t.name = shell.name
    BY <1>1, <2>1, TellKnows DEF ViewInv
  <2>3. shell.name # 0 => Noticed(t.inbox)
    BY <1>1, <2>1, Hearing DEF ViewInv
  <2>4. Knows(shell') /\ shell'.name = t.name /\ shell'.inbox = t.inbox
    BY <1>1, <2>1, <2>2, OvertakenKnows
  <2>5. Outlet'
    BY <1>1 DEF ViewInv, Outlet
  <2> QED BY <2>2, <2>3, <2>4, <2>5
<1>3. Linked(service.connections)'
  <2>1. service'.connections = conns
    BY DEF Acquire, IInv, Shape
  <2>2. e \in Epoch
    BY DEF Acquire, AppletAssumption, IInv, TypeOK, Epoch
  <2>3. "calls" \in DOMAIN NewConnection /\ Sequenced(NewConnection.calls)
    BY DEF NewConnection, Sequenced
  <2>4. Linked(conns)
    BY <2>2, <2>3 DEF ViewInv, Linked
  <2> QED BY <2>1, <2>4
<1> QED BY <1>2, <1>3 DEF ViewInv, Current, Fetching

(* The calls and the values stay.                                             *)
LEMMA RetireCurrent == ASSUME IInv, ViewInv, Retire PROVE ViewInv'
<1>1. service'.connections = service.connections
  BY DEF Retire, IInv, Shape
<1>2. UNCHANGED <<bus, shell, published>>
  BY DEF Retire
<1> QED BY <1>1, <1>2 DEF ViewInv, Outlet, Current, Fetching, Fresh, Asked

(* What is published, and how it is announced.                                *)
LEMMA AnnounceCurrent ==
  ASSUME ViewInv, NEW p \in Props, NEW value, Announce(p, value),
         UNCHANGED <<bus, shell, service>>
  PROVE  ViewInv'
<1>1. /\ published' = [values |-> published'.values, dirty |-> published'.dirty,
                       permit |-> published'.permit, batch |-> published'.batch]
      /\ published'.values = [published.values EXCEPT ![p] = value]
      /\ published'.dirty = published.dirty \cup {p}
      /\ published'.permit = TRUE /\ published'.batch = published.batch
  BY DEF Announce, ViewInv, Outlet
<1>2. /\ published'.values = [r \in Props |-> published'.values[r]]
      /\ \A r \in Props : r # p => published'.values[r] = published.values[r]
  BY <1>1 DEF ViewInv, Outlet
<1>3. Outlet'
  BY <1>1, <1>2 DEF ViewInv, Outlet
<1>4. Fetching => Fetching'
  BY DEF Fetching, Asked
<1>5. ASSUME NEW r \in Props, Fresh(r)
      PROVE  Fresh(r)'
  BY <1>1, <1>2, <1>5 DEF Fresh
<1>6. Fresh(p)'
  BY <1>1 DEF Fresh
<1> QED BY <1>3, <1>4, <1>5, <1>6 DEF ViewInv, Current

(* The emitter takes the dirty properties and tells them as they are then.    *)
LEMMA EmitterCurrent ==
  ASSUME IInv, ViewInv, EmitterTakes \/ EmitterSends
  PROVE  ViewInv'
<1>1. CASE EmitterTakes
  <2> DEFINE f == [p \in published.dirty |-> published.values[p]]
             batch == IF published.dirty = {} THEN <<>> ELSE <<f>>
  <2>1. UNCHANGED <<bus, shell, service>> /\ published.batch = <<>>
    BY <1>1 DEF EmitterTakes
  <2>2. published' = [values |-> published.values, dirty |-> {}, permit |-> FALSE, batch |-> batch]
    BY <1>1 DEF EmitterTakes, ViewInv, Outlet
  <2>3. Outlet'
    <3>1. batch # <<>> => /\ batch = <<f>> /\ DOMAIN f \subseteq Props
                          /\ \A p \in DOMAIN f : f[p] = published.values[p]
      BY DEF ViewInv, Outlet
    <3> HIDE DEF batch, f
    <3>2. batch # <<>> => \E g : /\ batch = <<g>> /\ DOMAIN g \subseteq Props
                                /\ \A p \in DOMAIN g : g[p] = published.values[p]
      BY <3>1
    <3> QED BY <2>2, <3>2 DEF ViewInv, Outlet
  <2>4. ASSUME NEW p \in Props, Fresh(p)
        PROVE  Fresh(p)'
    <3>1. CASE p \in published.dirty
      BY <2>2, <3>1 DEF Fresh
    <3>2. CASE p \notin published.dirty
      BY <2>1, <2>2, <2>4, <3>2 DEF Fresh
    <3> QED BY <3>1, <3>2
  <2> QED BY <2>1, <2>3, <2>4 DEF ViewInv, Current, Fetching, Asked
<1>2. CASE EmitterSends
  <2>1. UNCHANGED <<bus, service>> /\ published.batch # <<>>
    BY <1>2 DEF EmitterSends
  <2>2. PICK f : /\ published.batch = <<f>> /\ DOMAIN f \subseteq Props
                 /\ \A p \in DOMAIN f : f[p] = published.values[p] \/ p \in published.dirty
    BY <2>1 DEF ViewInv, Outlet
  <2> DEFINE m == [kind |-> "Changed", values |-> f]
  <2>3. shell' = Tell(shell, m)
    BY <1>2, <2>2 DEF EmitterSends
  <2>4. published' = [values |-> published.values, dirty |-> published.dirty,
                      permit |-> published.permit, batch |-> <<>>]
    BY <1>2 DEF EmitterSends, ViewInv, Outlet
  <2>5. Outlet'
    BY <2>4 DEF ViewInv, Outlet
  <2>6. m.kind \in Kinds /\ m.values = f /\ m.kind # "Registered"
        /\ \A p : Tells(m, p) <=> p \in DOMAIN f
    BY DEF Kinds, Tells
  <2> HIDE DEF m
  <2>7. Knows(shell)' /\ shell'.name = shell.name
    BY <2>3, <2>6, TellKnows DEF ViewInv
  <2>8. ASSUME shell.name # 0
        PROVE  /\ Fetching => Fetching'
               /\ \A p \in Props : Fresh(p) => Fresh(p)'
    <3>1. /\ Noticed(shell.inbox) => Noticed(shell'.inbox)
          /\ \A p, v : /\ Tells(m, p) => m.values[p] = v
                       /\ Tells(m, p) \/ Shows(shell.inbox, shell.view, p, v)
                       => Shows(shell'.inbox, shell'.view, p, v)
      BY <2>3, <2>6, <2>8, Hearing DEF ViewInv
    <3>2. Fetching => Fetching'
      BY <2>1, <2>7, <3>1 DEF Fetching, Asked
    <3>3. ASSUME NEW p \in Props, Fresh(p), p \notin published.dirty
          PROVE  Fresh(p)'
      <4>1. p \in DOMAIN f => f[p] = published.values[p]
        BY <2>2, <3>3
      <4>2. p \in DOMAIN f \/ Shows(shell.inbox, shell.view, p, published.values[p])
        BY <2>2, <3>3 DEF Fresh
      <4> QED BY <2>4, <2>6, <3>1, <4>1, <4>2 DEF Fresh
    <3>4. ASSUME NEW p \in Props, p \in published.dirty
          PROVE  Fresh(p)'
      BY <2>4, <3>4 DEF Fresh
    <3> QED BY <3>2, <3>3, <3>4
  <2> QED BY <2>1, <2>5, <2>7, <2>8 DEF ViewInv, Current
<1> QED BY <1>1, <1>2

(* The connections.                                                           *)

(* What is done to a connection may leave its calls.                          *)
LEMMA QuietConnection ==
  ASSUME IInv, ViewInv, NEW e \in Epoch, NEW r,
         "calls" \in DOMAIN r, r.calls = service.connections[e].calls,
         service' = [service EXCEPT !.connections[e] = r],
         UNCHANGED <<bus, shell, published>>
  PROVE  ViewInv'
<1>1. Linked(service.connections)
  BY DEF ViewInv
<1> DEFINE conns == [service.connections EXCEPT ![e] = r]
<1>2. service'.connections = conns
  BY DEF IInv, Shape
<1>3. Linked(conns) /\ \A o \in Epoch : conns[o].calls = service.connections[o].calls
  BY <1>1 DEF Linked
<1> HIDE DEF conns
<1>4. bus.owner # 0 => (Fetching => Fetching')
  BY <1>2, <1>3, OwnerIsOpen DEF Fetching, Asked
<1>5. \A p \in Props : Fresh(p) => Fresh(p)'
  BY DEF Fresh
<1>6. Outlet' /\ Knows(shell)'
  BY DEF ViewInv, Outlet
<1> QED BY <1>2, <1>3, <1>4, <1>5, <1>6 DEF ViewInv, Current

(* The question of n is not the one that is first at e.                       *)
Awaited(e, n) ==
  /\ bus.owner # 0 /\ Asked(service.connections, n)
  /\ e = bus.owner => Head(Calls(e)).kind # "GetAll" \/ Head(Calls(e)).name # n

(* The first call is taken.                                                   *)
LEMMA TakenCall ==
  ASSUME IInv, ViewInv, NEW e \in Epoch, Calls(e) # <<>>, NEW r,
         "calls" \in DOMAIN r, r.calls = Tail(Calls(e)),
         service' = [service EXCEPT !.connections[e] = r], UNCHANGED bus
  PROVE  /\ Linked(service.connections)'
         /\ \A n : Awaited(e, n) => Asked(service'.connections, n)
<1> DEFINE q == Calls(e)
           conns == [service.connections EXCEPT ![e] = r]
<1>1. Linked(service.connections)
  BY DEF ViewInv
<1>2. service'.connections = conns
  BY DEF IInv, Shape
<1>3. /\ Sequenced(Tail(q)) /\ Head(q) = q[1]
      /\ \A i \in DOMAIN q : i = 1 \/ (i - 1 \in DOMAIN Tail(q) /\ q[i] = Tail(q)[i - 1])
  BY <1>1, Taken DEF Linked, Calls
<1>4. /\ Linked(conns) /\ conns[e].calls = Tail(q)
      /\ \A o \in Epoch \ {e} : conns[o] = service.connections[o]
  <2>1. Sequenced(r.calls)
    BY <1>3
  <2>2. /\ DOMAIN conns = Epoch /\ conns[e] = r
        /\ \A o \in Epoch \ {e} : conns[o] = service.connections[o]
    BY <1>1 DEF Linked
  <2> HIDE DEF conns
  <2> QED BY <1>1, <2>1, <2>2 DEF Linked
<1> HIDE DEF conns
<1>5. ASSUME NEW n, Awaited(e, n)
      PROVE  Asked(conns, n)
  <2>0. /\ bus.owner # 0 /\ Asked(service.connections, n)
        /\ e = bus.owner => Head(q).kind # "GetAll" \/ Head(q).name # n
    BY <1>5 DEF Awaited
  <2>1. PICK i \in DOMAIN service.connections[bus.owner].calls :
          /\ service.connections[bus.owner].calls[i].kind = "GetAll"
          /\ service.connections[bus.owner].calls[i].name = n
    BY <2>0 DEF Asked
  <2>2. CASE e # bus.owner
    <3>1. conns[bus.owner] = service.connections[bus.owner]
      BY <1>4, <2>0, <2>2, OwnerIsOpen
    <3> QED BY <2>0, <3>1 DEF Asked
  <2>3. CASE e = bus.owner
    <3>1. i \in DOMAIN q /\ q[i].kind = "GetAll" /\ q[i].name = n
      BY <2>1, <2>3 DEF Calls
    <3>2. i # 1
      BY <1>3, <2>0, <2>3, <3>1
    <3>3. i - 1 \in DOMAIN Tail(q) /\ Tail(q)[i - 1] = q[i]
      BY <1>3, <3>1, <3>2
    <3> HIDE DEF q
    <3> QED BY <1>4, <2>3, <3>1, <3>3 DEF Asked
  <2> QED BY <2>2, <2>3
<1> QED BY <1>2, <1>4, <1>5

(* A call is delivered; it was no GetAll.                                     *)
LEMMA DeliverCurrent ==
  ASSUME IInv, ViewInv, NEW e \in Epoch, Deliver(e)
  PROVE  ViewInv'
<1> DEFINE c == Head(Calls(e))
           m == [kind |-> "Reply", call |-> c, ok |-> e \notin service.retired]
           k == service.connections[e]
           confirmed == IF service.connections[e].first /\ e \notin service.retired
                        THEN service.connections[e].confirming \cup {c.name}
                        ELSE service.connections[e].confirming
<1>0. PICK confirming :
        service' = [service EXCEPT !.connections[e] =
                      [k EXCEPT !.calls = Tail(k.calls), !.begun = FALSE, !.first = FALSE,
                                !.confirming = confirming]]
  <2>1. service' = [service EXCEPT !.connections[e] =
                      [k EXCEPT !.calls = Tail(k.calls), !.begun = FALSE, !.first = FALSE,
                                !.confirming = confirmed]]
    BY DEF Deliver, Calls
  <2> HIDE DEF confirmed, k
  <2> QED BY <2>1
<1> DEFINE r == [k EXCEPT !.calls = Tail(k.calls), !.begun = FALSE, !.first = FALSE,
                          !.confirming = confirming]
<1>1. /\ Calls(e) # <<>> /\ c.kind # "GetAll" /\ UNCHANGED <<bus, published>>
      /\ service' = [service EXCEPT !.connections[e] = r]
      /\ shell' \in {shell, Tell(shell, m)}
  <2>1. Calls(e) # <<>> /\ c.kind # "GetAll" /\ UNCHANGED <<bus, published>>
    BY DEF Deliver
  <2>2. shell' \in {shell, Answered(e, c, m)}
    BY DEF Deliver
  <2>3. Answered(e, c, m) \in {shell, Tell(shell, m)}
    BY DEF Answered
  <2> HIDE DEF m, c
  <2> QED BY <1>0, <2>1, <2>2, <2>3
<1>2. "calls" \in DOMAIN r /\ r.calls = Tail(Calls(e))
  BY DEF ViewInv, Linked, Calls
<1>3. m.kind = "Reply"
  OBVIOUS
<1> HIDE DEF r, m
<1>4. /\ Linked(service.connections)'
      /\ bus.owner # 0 =>
           \A n : Asked(service.connections, n) => Asked(service'.connections, n)
  <2> HIDE DEF c
  <2>1. Head(Calls(e)).kind # "GetAll"
    BY <1>1 DEF c
  <2>2. /\ Linked(service.connections)'
        /\ \A n : Awaited(e, n) => Asked(service'.connections, n)
    BY <1>1, <1>2, TakenCall
  <2> QED BY <2>1, <2>2 DEF Awaited
<1>5. /\ Knows(shell') /\ Outlet' /\ shell'.name = shell.name
      /\ shell.name # 0 => /\ Noticed(shell.inbox) => Noticed(shell'.inbox)
                           /\ \A p : Fresh(p) => Fresh(p)'
  <2>1. CASE shell' = shell
    BY <1>1, <2>1 DEF ViewInv, Outlet, Fresh
  <2>2. CASE shell' = Tell(shell, m)
    BY <1>1, <1>3, <2>2, HearingKeeps
  <2> QED BY <1>1, <2>1, <2>2
<1>6. bus.owner # 0 /\ shell.name # 0 => (Fetching => Fetching')
  BY <1>1, <1>4, <1>5 DEF Fetching, Asked
<1> QED BY <1>1, <1>4, <1>5, <1>6 DEF ViewInv, Current

(* The answer has all properties.                                             *)
LEMMA AnswerCurrent ==
  ASSUME IInv, ViewInv, NEW e \in Epoch, AnswerProperties(e)
  PROVE  ViewInv'
<1> DEFINE c == Head(Calls(e))
           r == [service.connections[e] EXCEPT !.calls = Tail(@)]
           m == [kind |-> "Changed", values |-> published.values]
           answers == e = bus.owner /\ c.name = shell.name
<1>1. /\ Calls(e) # <<>> /\ UNCHANGED <<bus, published>>
      /\ service' = [service EXCEPT !.connections[e] = r]
      /\ shell' = IF answers THEN Tell(shell, m) ELSE shell
  BY DEF AnswerProperties, Answered, Open
<1>2. "calls" \in DOMAIN r /\ r.calls = Tail(Calls(e))
  BY DEF ViewInv, Linked, Calls
<1>3. /\ m.kind \in Kinds /\ m.values = published.values
      /\ \A p \in Props : Tells(m, p)
  BY DEF Kinds, Tells, ViewInv, Outlet
<1> HIDE DEF r, m
<1>4. /\ Linked(service.connections)'
      /\ bus.owner # 0 /\ ~answers /\ Asked(service.connections, shell.name)
           => Asked(service'.connections, shell.name)
  <2>1. /\ Linked(service.connections)'
        /\ \A n : Awaited(e, n) => Asked(service'.connections, n)
    BY <1>1, <1>2, TakenCall
  <2> QED BY <2>1 DEF Awaited
<1>5. Outlet'
  BY <1>1 DEF ViewInv, Outlet
<1>6. CASE answers
  <2>1. Knows(shell)' /\ shell'.name = shell.name
    BY <1>1, <1>3, <1>6, TellKnows DEF ViewInv
  <2>2. ASSUME shell.name # 0, NEW p \in Props
        PROVE  Fresh(p)'
    <3>1. Shows(shell'.inbox, shell'.view, p, published.values[p])
      BY <1>1, <1>3, <1>6, <2>2, Hearing DEF ViewInv
    <3> QED BY <1>1, <3>1 DEF Fresh
  <2> QED BY <1>4, <1>5, <2>1, <2>2 DEF ViewInv, Current
<1>7. CASE ~answers
  <2>1. bus.owner # 0 => (Fetching => Fetching')
    BY <1>1, <1>4, <1>7 DEF Fetching, Asked
  <2>2. \A p : Fresh(p) => Fresh(p)'
    BY <1>1, <1>7 DEF Fresh
  <2> QED BY <1>1, <1>4, <1>5, <1>7, <2>1, <2>2 DEF ViewInv, Current
<1> QED BY <1>6, <1>7

(* What a connection does.                                                    *)
LEMMA ConnectionCurrent ==
  ASSUME IInv, ViewInv, NEW e \in Epoch, Connection(e)
  PROVE  ViewInv'
<1>1. CASE Deliver(e)
  BY <1>1, DeliverCurrent
<1>2. CASE AnswerProperties(e)
  BY <1>2, AnswerCurrent
<1> DEFINE k == service.connections[e]
<1>3. ASSUME UNCHANGED <<bus, shell, published>>, NEW r, "calls" \in DOMAIN r, r.calls = k.calls,
             service' = [service EXCEPT !.connections[e] = r]
      PROVE  ViewInv'
  BY <1>3, QuietConnection
<1>4. "calls" \in DOMAIN k
  BY DEF ViewInv, Linked
<1>5. CASE Begin(e)
  <2>1. PICK first, known : service' = [service EXCEPT !.connections[e] =
                              [k EXCEPT !.begun = TRUE, !.first = first, !.known = known]]
    BY <1>5 DEF Begin
  <2> DEFINE r == [k EXCEPT !.begun = TRUE, !.first = first, !.known = known]
  <2>2. "calls" \in DOMAIN r /\ r.calls = k.calls /\ UNCHANGED <<bus, shell, published>>
    BY <1>4, <1>5 DEF Begin
  <2> HIDE DEF k
  <2> QED BY <1>3, <2>1, <2>2
<1>6. CASE Depart(e)
  <2>1. PICK departures, known, forwarding : service' = [service EXCEPT !.connections[e] =
          [k EXCEPT !.departures = departures, !.known = known, !.forwarding = forwarding]]
    BY <1>6 DEF Depart
  <2> DEFINE r == [k EXCEPT !.departures = departures, !.known = known, !.forwarding = forwarding]
  <2>2. "calls" \in DOMAIN r /\ r.calls = k.calls /\ UNCHANGED <<bus, shell, published>>
    BY <1>4, <1>6 DEF Depart
  <2> HIDE DEF k
  <2> QED BY <1>3, <2>1, <2>2
<1>7. ASSUME NEW n, Forward(e, n) PROVE ViewInv'
  <2>1. service' = [service EXCEPT !.connections[e] = [k EXCEPT !.forwarding = {}]]
    BY <1>7 DEF Forward
  <2> QED BY <1>3, <1>4, <1>7, <2>1 DEF Forward
<1>8. ASSUME NEW n, Confirm(e, n) PROVE ViewInv'
  <2>1. PICK confirming, known, reporting : service' = [service EXCEPT !.connections[e] =
          [k EXCEPT !.confirming = confirming, !.known = known, !.reporting = reporting]]
    BY <1>8 DEF Confirm
  <2> DEFINE r == [k EXCEPT !.confirming = confirming, !.known = known, !.reporting = reporting]
  <2>2. "calls" \in DOMAIN r /\ r.calls = k.calls /\ UNCHANGED <<bus, shell, published>>
    BY <1>4, <1>8 DEF Confirm
  <2> HIDE DEF k
  <2> QED BY <1>3, <2>1, <2>2
<1>9. ASSUME NEW n, Report(e, n) PROVE ViewInv'
  <2>1. \E reporting :
          service' = [service EXCEPT !.connections[e] = [k EXCEPT !.reporting = reporting]]
    BY <1>9 DEF Report
  <2> QED BY <1>3, <1>4, <1>9, <2>1 DEF Report
<1> QED BY <1>1, <1>2, <1>5, <1>6, <1>7, <1>8, <1>9 DEF Connection

(* The daemon's loop.                                                         *)
LEMMA LoopCurrent == ASSUME ViewInv, HandleEvent \/ PublishPanel PROVE ViewInv'
<1>1. UNCHANGED <<bus, shell, service>>
  BY DEF HandleEvent, PublishPanel
<1>2. \/ \E p \in Props : \E value : Announce(p, value)
      \/ UNCHANGED published
  BY DEF HandleEvent, PublishPanel, Props
<1>3. CASE UNCHANGED published
  BY <1>1, <1>3 DEF ViewInv, Outlet, Current, Fetching, Fresh, Asked
<1> QED BY <1>1, <1>2, <1>3, AnnounceCurrent

(* There is no owner and no shell.                                            *)
LEMMA InitCurrent == Init => ViewInv
<1> SUFFICES ASSUME Init PROVE ViewInv
  OBVIOUS
<1>1. Sequenced(<<>>)
  BY DEF Sequenced
<1>2. Knows(shell)
  BY <1>1 DEF Init, NoShell, Knows, Props
<1>3. Linked(service.connections)
  BY <1>1 DEF Init, Linked, NewConnection
<1>4. Outlet
  BY DEF Init, Outlet, Props
<1>5. Current
  BY DEF Init, Current
<1> QED BY <1>2, <1>3, <1>4, <1>5 DEF ViewInv

(* One step of the system, whichever it is.                                   *)
LEMMA StepCurrent ==
  ASSUME AppletAssumption, IInv, ViewInv, [Next]_vars
  PROVE  ViewInv'
<1>1. CASE User
  BY <1>1, UserCurrent
<1>2. CASE Disturbance
  BY <1>2, LossCurrent, ShellsCurrent DEF Disturbance
<1>3. CASE PublishPanel
  BY <1>3, LoopCurrent
<1>4. CASE System
  BY <1>4, ShellsCurrent, ReadCurrent, AcquireCurrent, RetireCurrent, ConnectionCurrent,
     LoopCurrent, EmitterCurrent DEF System
<1>5. CASE UNCHANGED vars
  BY <1>5 DEF vars, ViewInv, Outlet, Current, Fetching, Fresh, Asked
<1> QED BY <1>1, <1>2, <1>3, <1>4, <1>5 DEF Next

(* Once everything is delivered a connected shell shows what was published    *)
(* last, for any widgets, capacities and number of connections (Shared,       *)
(* emit_changes and daemonRegistered).                                        *)
THEOREM ViewsAreCurrent == Spec => []ViewCatchesUp
<1>1. Init => IInv /\ ViewInv
  BY AppletAssumption, InitInvariant, InitCurrent
<1>2. (IInv /\ ViewInv) /\ [Next]_vars => (IInv /\ ViewInv)'
  BY AppletAssumption, StepInvariant, StepCurrent
<1>3. IInv /\ ViewInv => ViewCatchesUp
  BY ViewsCatchUp
<1> QED BY <1>1, <1>2, <1>3, PTL DEF Spec

-----------------------------------------------------------------------------
(* The leases that the daemon will hold, and the clients it will have seen    *)
(* leave.                                                                     *)

(* What ends a lease of widget w of caller n, or renews it.                   *)
Ends(m, n, w) ==
  \/ m.kind = "ConnectionLost"
  \/ m.kind \in {"Present", "Dismiss"} /\ m.name = n /\ m.widget = w

(* Whether the lease is held when queue q has been handled.                   *)
Holds(q, held, n, w) ==
  \/ \E i \in DOMAIN q :
       /\ Ends(q[i], n, w) /\ q[i].kind = "Present"
       /\ \A j \in DOMAIN q : j > i => ~Ends(q[j], n, w)
  \/ (\A i \in DOMAIN q : ~Ends(q[i], n, w)) /\ held

(* An event of this kind about n was or will be handled, with no loss after.  *)
Since(q, kind, n, before) ==
  \/ \E i \in DOMAIN q :
       /\ q[i].kind = kind /\ q[i].name = n
       /\ \A j \in DOMAIN q : j > i => q[j].kind # "ConnectionLost"
  \/ (\A i \in DOMAIN q : q[i].kind # "ConnectionLost") /\ before

Lease(n, w) == Holds(events, <<n, w>> \in daemon.leases.live, n, w)

Departed(n) == Since(events, "ClientGone", n, n \in daemon.leases.gone)

(* A message is put behind the others.                                        *)
LEMMA HoldsAppend ==
  ASSUME NEW q, Sequenced(q), NEW m, NEW held, NEW n, NEW w
  PROVE  Holds(Append(q, m), held, n, w)
           <=> IF Ends(m, n, w) THEN m.kind = "Present" ELSE Holds(q, held, n, w)
<1> DEFINE r == Append(q, m)
           last == Len(q) + 1
<1>1. /\ Len(q) \in Nat /\ DOMAIN q = 1..Len(q) /\ DOMAIN r = 1..last
      /\ \A i \in DOMAIN q : r[i] = q[i]
      /\ r[last] = m
  BY Appended
<1> HIDE DEF r
<1>2. /\ last \in DOMAIN r /\ DOMAIN q \subseteq DOMAIN r
      /\ \A i \in DOMAIN r : i = last \/ (i \in DOMAIN q /\ r[i] = q[i] /\ last > i /\ ~(i > last))
      /\ ~(last > last)
  BY <1>1
<1>3. CASE Ends(m, n, w)
  <2>1. \A i \in DOMAIN r : i # last => \E j \in DOMAIN r : j > i /\ Ends(r[j], n, w)
    BY <1>1, <1>2, <1>3
  <2>2. \A j \in DOMAIN r : ~(j > last)
    BY <1>2
  <2> QED BY <1>1, <1>2, <1>3, <2>1, <2>2 DEF Holds, r
<1>4. CASE ~Ends(m, n, w)
  <2>1. ASSUME NEW i \in DOMAIN q
        PROVE  (\A j \in DOMAIN r : j > i => ~Ends(r[j], n, w))
                 <=> (\A j \in DOMAIN q : j > i => ~Ends(q[j], n, w))
    BY <1>1, <1>2, <1>4
  <2>2. (\A i \in DOMAIN r : ~Ends(r[i], n, w)) <=> (\A i \in DOMAIN q : ~Ends(q[i], n, w))
    BY <1>1, <1>2, <1>4
  <2>3. (\E i \in DOMAIN r : /\ Ends(r[i], n, w) /\ r[i].kind = "Present"
                             /\ \A j \in DOMAIN r : j > i => ~Ends(r[j], n, w))
          <=> (\E i \in DOMAIN q : /\ Ends(q[i], n, w) /\ q[i].kind = "Present"
                                  /\ \A j \in DOMAIN q : j > i => ~Ends(q[j], n, w))
    BY <1>1, <1>2, <1>4, <2>1
  <2> QED BY <1>4, <2>2, <2>3 DEF Holds, r
<1> QED BY <1>3, <1>4

(* The first message is handled.                                              *)
LEMMA HoldsTail ==
  ASSUME NEW q, Sequenced(q), q # <<>>, NEW held, NEW n, NEW w, NEW next,
         next <=> IF Ends(Head(q), n, w) THEN Head(q).kind = "Present" ELSE held
  PROVE  Holds(q, held, n, w) <=> Holds(Tail(q), next, n, w)
<1> DEFINE r == Tail(q)
<1>1. /\ Len(q) \in Nat \ {0} /\ DOMAIN q = 1..Len(q) /\ DOMAIN r = 1..(Len(q) - 1)
      /\ Head(q) = q[1] /\ 1 \in DOMAIN q
      /\ \A i \in DOMAIN r : i + 1 \in DOMAIN q /\ r[i] = q[i + 1]
      /\ \A i \in DOMAIN q : i = 1 \/ (i - 1 \in DOMAIN r /\ q[i] = r[i - 1])
  BY Taken
<1> HIDE DEF r
<1>2. ASSUME NEW i \in DOMAIN r
      PROVE  (\A j \in DOMAIN r : j > i => ~Ends(r[j], n, w))
               <=> (\A j \in DOMAIN q : j > i + 1 => ~Ends(q[j], n, w))
  <2>1. ASSUME NEW j \in DOMAIN q, j > i + 1
        PROVE  j - 1 \in DOMAIN r /\ j - 1 > i /\ q[j] = r[j - 1]
    BY <1>1, <2>1
  <2>2. ASSUME NEW j \in DOMAIN r, j > i
        PROVE  j + 1 \in DOMAIN q /\ j + 1 > i + 1 /\ r[j] = q[j + 1]
    BY <1>1, <2>2
  <2> QED BY <2>1, <2>2
<1>3. (\A j \in DOMAIN r : ~Ends(r[j], n, w)) <=> (\A j \in DOMAIN q : j > 1 => ~Ends(q[j], n, w))
  <2>1. ASSUME NEW j \in DOMAIN q, j > 1
        PROVE  j - 1 \in DOMAIN r /\ q[j] = r[j - 1]
    BY <1>1, <2>1
  <2>2. ASSUME NEW j \in DOMAIN r
        PROVE  j + 1 \in DOMAIN q /\ j + 1 > 1 /\ r[j] = q[j + 1]
    BY <1>1, <2>2
  <2> QED BY <2>1, <2>2
<1> DEFINE Recent(i) == /\ Ends(q[i], n, w) /\ q[i].kind = "Present"
                        /\ \A j \in DOMAIN q : j > i => ~Ends(q[j], n, w)
           LastOfRest(i) == /\ Ends(r[i], n, w) /\ r[i].kind = "Present"
                            /\ \A j \in DOMAIN r : j > i => ~Ends(r[j], n, w)
<1>4. (\E i \in DOMAIN q : Recent(i)) <=> Recent(1) \/ \E i \in DOMAIN r : LastOfRest(i)
  <2>1. \A i \in DOMAIN r : LastOfRest(i) <=> Recent(i + 1)
    BY <1>1, <1>2
  <2> HIDE DEF Recent, LastOfRest
  <2>2. \A i \in DOMAIN q : i = 1 \/ (i - 1 \in DOMAIN r /\ (i - 1) + 1 = i)
    BY <1>1
  <2> QED BY <1>1, <2>1, <2>2
<1>5. Recent(1) <=> Ends(q[1], n, w) /\ q[1].kind = "Present" /\ \A j \in DOMAIN r : ~Ends(r[j], n, w)
  BY <1>3
<1>6. (\A i \in DOMAIN q : ~Ends(q[i], n, w)) <=> ~Ends(q[1], n, w) /\ \A j \in DOMAIN r : ~Ends(r[j], n, w)
  BY <1>1, <1>3
<1>7. Holds(q, held, n, w) <=> (\E i \in DOMAIN q : Recent(i)) \/ ((\A i \in DOMAIN q : ~Ends(q[i], n, w)) /\ held)
  BY DEF Holds
<1>8. Holds(r, next, n, w)
        <=> \/ \E i \in DOMAIN r : LastOfRest(i)
            \/ (\A i \in DOMAIN r : ~Ends(r[i], n, w)) /\ next
  BY DEF Holds
<1> HIDE DEF Recent, LastOfRest
<1> QED BY <1>1, <1>4, <1>5, <1>6, <1>7, <1>8 DEF r

(* A message that is no loss is put behind; a loss ends what was before it.   *)
LEMMA SinceAppend ==
  ASSUME NEW q, Sequenced(q), NEW m, NEW kind, NEW n, NEW before, kind # "ConnectionLost"
  PROVE  Since(Append(q, m), kind, n, before)
           <=> /\ m.kind # "ConnectionLost"
               /\ (m.kind = kind /\ m.name = n) \/ Since(q, kind, n, before)
<1> DEFINE r == Append(q, m)
           last == Len(q) + 1
<1>1. /\ Len(q) \in Nat /\ DOMAIN q = 1..Len(q) /\ DOMAIN r = 1..last
      /\ \A i \in DOMAIN q : r[i] = q[i]
      /\ r[last] = m
  BY Appended
<1> HIDE DEF r
<1>2. /\ last \in DOMAIN r /\ DOMAIN q \subseteq DOMAIN r
      /\ \A i \in DOMAIN r : i = last \/ (i \in DOMAIN q /\ r[i] = q[i] /\ last > i /\ ~(i > last))
      /\ ~(last > last)
  BY <1>1
<1>3. CASE m.kind = "ConnectionLost"
  <2>1. \A i \in DOMAIN r : i # last => \E j \in DOMAIN r : j > i /\ r[j].kind = "ConnectionLost"
    BY <1>1, <1>2, <1>3
  <2> QED BY <1>1, <1>2, <1>3, <2>1 DEF Since, r
<1>4. CASE m.kind # "ConnectionLost"
  <2>1. ASSUME NEW i \in DOMAIN q
        PROVE  (\A j \in DOMAIN r : j > i => r[j].kind # "ConnectionLost")
                 <=> (\A j \in DOMAIN q : j > i => q[j].kind # "ConnectionLost")
    BY <1>1, <1>2, <1>4
  <2>2. (\A i \in DOMAIN r : r[i].kind # "ConnectionLost") <=> (\A i \in DOMAIN q : q[i].kind # "ConnectionLost")
    BY <1>1, <1>2, <1>4
  <2>3. \A j \in DOMAIN r : ~(j > last)
    BY <1>2
  <2>4. (\E i \in DOMAIN r : /\ r[i].kind = kind /\ r[i].name = n
                             /\ \A j \in DOMAIN r : j > i => r[j].kind # "ConnectionLost")
          <=> \/ m.kind = kind /\ m.name = n
              \/ \E i \in DOMAIN q : /\ q[i].kind = kind /\ q[i].name = n
                                    /\ \A j \in DOMAIN q : j > i => q[j].kind # "ConnectionLost"
    BY <1>1, <1>2, <2>1, <2>3
  <2> QED BY <1>4, <2>2, <2>4 DEF Since, r
<1> QED BY <1>3, <1>4

(* The first message is handled, and what it said is remembered.              *)
LEMMA SinceTail ==
  ASSUME NEW q, Sequenced(q), q # <<>>, NEW kind, kind # "ConnectionLost", NEW n, NEW before, NEW next,
         next <=> /\ Head(q).kind # "ConnectionLost"
                  /\ (Head(q).kind = kind /\ Head(q).name = n) \/ before
  PROVE  Since(q, kind, n, before) <=> Since(Tail(q), kind, n, next)
<1> DEFINE r == Tail(q)
           Loss(m) == m.kind = "ConnectionLost"
           This(m) == m.kind = kind /\ m.name = n
<1>1. /\ Len(q) \in Nat \ {0} /\ DOMAIN q = 1..Len(q) /\ DOMAIN r = 1..(Len(q) - 1)
      /\ Head(q) = q[1] /\ 1 \in DOMAIN q
      /\ \A i \in DOMAIN r : i + 1 \in DOMAIN q /\ r[i] = q[i + 1]
      /\ \A i \in DOMAIN q : i = 1 \/ (i - 1 \in DOMAIN r /\ q[i] = r[i - 1])
  BY Taken
<1>0. This(q[1]) => ~Loss(q[1])
  OBVIOUS
<1> DEFINE Recent(i) == This(q[i]) /\ \A j \in DOMAIN q : j > i => ~Loss(q[j])
           LastOfRest(i) == This(r[i]) /\ \A j \in DOMAIN r : j > i => ~Loss(r[j])
<1>7. Since(q, kind, n, before)
        <=> \/ \E i \in DOMAIN q : Recent(i)
            \/ (\A i \in DOMAIN q : ~Loss(q[i])) /\ before
  BY DEF Since
<1>8. Since(r, kind, n, next)
        <=> \/ \E i \in DOMAIN r : LastOfRest(i)
            \/ (\A i \in DOMAIN r : ~Loss(r[i])) /\ next
  BY DEF Since
<1>9. next <=> ~Loss(q[1]) /\ (This(q[1]) \/ before)
  BY <1>1
<1> HIDE DEF r, Loss, This
<1>2. ASSUME NEW i \in DOMAIN r
      PROVE  (\A j \in DOMAIN r : j > i => ~Loss(r[j]))
               <=> (\A j \in DOMAIN q : j > i + 1 => ~Loss(q[j]))
  <2>1. ASSUME NEW j \in DOMAIN q, j > i + 1
        PROVE  j - 1 \in DOMAIN r /\ j - 1 > i /\ q[j] = r[j - 1]
    BY <1>1, <2>1
  <2>2. ASSUME NEW j \in DOMAIN r, j > i
        PROVE  j + 1 \in DOMAIN q /\ j + 1 > i + 1 /\ r[j] = q[j + 1]
    BY <1>1, <2>2
  <2> QED BY <2>1, <2>2
<1>3. (\A j \in DOMAIN r : ~Loss(r[j])) <=> (\A j \in DOMAIN q : j > 1 => ~Loss(q[j]))
  <2>1. ASSUME NEW j \in DOMAIN q, j > 1
        PROVE  j - 1 \in DOMAIN r /\ q[j] = r[j - 1]
    BY <1>1, <2>1
  <2>2. ASSUME NEW j \in DOMAIN r
        PROVE  j + 1 \in DOMAIN q /\ j + 1 > 1 /\ r[j] = q[j + 1]
    BY <1>1, <2>2
  <2> QED BY <2>1, <2>2
<1>4. (\E i \in DOMAIN q : Recent(i)) <=> Recent(1) \/ \E i \in DOMAIN r : LastOfRest(i)
  <2>1. \A i \in DOMAIN r : LastOfRest(i) <=> Recent(i + 1)
    BY <1>1, <1>2
  <2> HIDE DEF Recent, LastOfRest
  <2>2. \A i \in DOMAIN q : i = 1 \/ (i - 1 \in DOMAIN r /\ (i - 1) + 1 = i)
    BY <1>1
  <2> QED BY <1>1, <2>1, <2>2
<1>5. Recent(1) <=> This(q[1]) /\ \A j \in DOMAIN r : ~Loss(r[j])
  BY <1>3
<1>6. (\A i \in DOMAIN q : ~Loss(q[i])) <=> ~Loss(q[1]) /\ \A j \in DOMAIN r : ~Loss(r[j])
  BY <1>1, <1>3
<1> HIDE DEF Recent, LastOfRest
<1> QED BY <1>0, <1>4, <1>5, <1>6, <1>7, <1>8, <1>9 DEF r

(* Once something decides, it does not matter what was held.                  *)
LEMMA HoldsAnyway ==
  ASSUME NEW q, NEW a, NEW b, NEW n, NEW w,
         (a => b) \/ \E i \in DOMAIN q : Ends(q[i], n, w),
         Holds(q, a, n, w)
  PROVE  Holds(q, b, n, w)
BY DEF Holds

-----------------------------------------------------------------------------
(* The calls of a widget and their replies.                                   *)

Subject(m) == IF m.kind = "Reply" THEN m.call ELSE m

(* A call of this registration for the lease of w, or the reply to it.        *)
About(m, n, w, lifetime) ==
  /\ m.kind \in {"Present", "Dismiss", "Reply"}
  /\ Subject(m).name = n /\ Subject(m).widget = w /\ Subject(m).lifetime = lifetime

None(q, n, w, lifetime) == \A i \in DOMAIN q : ~About(q[i], n, w, lifetime)

(* There is exactly one, of this kind.                                        *)
One(q, kind, n, w, lifetime) ==
  \E i \in DOMAIN q : /\ About(q[i], n, w, lifetime) /\ Subject(q[i]).kind = kind
                      /\ \A j \in DOMAIN q : About(q[j], n, w, lifetime) => j = i

(* A message is put behind those about a widget, or is the only one.          *)
LEMMA AboutAppend ==
  ASSUME NEW q, Sequenced(q), NEW m, NEW n, NEW w, NEW lifetime
  PROVE  LET r == Append(q, m)
         IN  /\ ~About(m, n, w, lifetime) =>
                  /\ None(r, n, w, lifetime) <=> None(q, n, w, lifetime)
                  /\ \A kind : One(r, kind, n, w, lifetime) <=> One(q, kind, n, w, lifetime)
             /\ About(m, n, w, lifetime) /\ None(q, n, w, lifetime)
                  => One(r, Subject(m).kind, n, w, lifetime)
<1> DEFINE r == Append(q, m)
           last == Len(q) + 1
<1>1. /\ Len(q) \in Nat /\ DOMAIN q = 1..Len(q) /\ DOMAIN r = 1..last
      /\ \A i \in DOMAIN q : r[i] = q[i]
      /\ r[last] = m
  BY Appended
<1> HIDE DEF r
<1>2. /\ last \in DOMAIN r /\ last \notin DOMAIN q /\ DOMAIN q \subseteq DOMAIN r
      /\ \A i \in DOMAIN r : i = last \/ i \in DOMAIN q
  BY <1>1
<1> HIDE DEF last
<1> DEFINE A(x) == About(x, n, w, lifetime)
<1>3. ASSUME ~A(m), NEW kind
      PROVE  One(r, kind, n, w, lifetime) <=> One(q, kind, n, w, lifetime)
  <2> HIDE DEF A
  <2>1. (\E i \in DOMAIN r : /\ A(r[i]) /\ Subject(r[i]).kind = kind
                             /\ \A j \in DOMAIN r : A(r[j]) => j = i)
        <=> (\E i \in DOMAIN q : /\ A(q[i]) /\ Subject(q[i]).kind = kind
                                 /\ \A j \in DOMAIN q : A(q[j]) => j = i)
    BY <1>1, <1>2, <1>3
  <2> QED BY <2>1 DEF One, A
<1>4. ~A(m) => (None(r, n, w, lifetime) <=> None(q, n, w, lifetime))
  BY <1>1, <1>2 DEF None
<1>5. A(m) /\ None(q, n, w, lifetime) => One(r, Subject(m).kind, n, w, lifetime)
  BY <1>1, <1>2 DEF None, One
<1> QED BY <1>3, <1>4, <1>5 DEF r

(* The first message is taken: it was the only one, or none about the widget. *)
LEMMA AboutTail ==
  ASSUME NEW q, Sequenced(q), q # <<>>, NEW n, NEW w, NEW lifetime
  PROVE  LET m == Head(q)
             r == Tail(q)
         IN  /\ ~About(m, n, w, lifetime) =>
                  /\ None(r, n, w, lifetime) <=> None(q, n, w, lifetime)
                  /\ \A kind : One(r, kind, n, w, lifetime) <=> One(q, kind, n, w, lifetime)
             /\ About(m, n, w, lifetime) =>
                  /\ ~None(q, n, w, lifetime)
                  /\ \A kind : One(q, kind, n, w, lifetime)
                                => Subject(m).kind = kind /\ None(r, n, w, lifetime)
<1> DEFINE m == Head(q)
           r == Tail(q)
           A(x) == About(x, n, w, lifetime)
<1>1. /\ m = q[1] /\ 1 \in DOMAIN q /\ DOMAIN q = 1..Len(q) /\ Len(q) \in Nat
      /\ DOMAIN r = 1..(Len(q) - 1)
      /\ \A i \in DOMAIN r : i + 1 \in DOMAIN q /\ r[i] = q[i + 1]
      /\ \A i \in DOMAIN q : i = 1 \/ (i - 1 \in DOMAIN r /\ q[i] = r[i - 1])
  BY Taken
<1> HIDE DEF r, m, A
<1>2. ASSUME ~A(m), NEW kind
      PROVE  One(r, kind, n, w, lifetime) <=> One(q, kind, n, w, lifetime)
  <2>1. ASSUME NEW i \in DOMAIN q, A(q[i]), Subject(q[i]).kind = kind,
               \A j \in DOMAIN q : A(q[j]) => j = i
        PROVE  \E h \in DOMAIN r : /\ A(r[h]) /\ Subject(r[h]).kind = kind
                                   /\ \A j \in DOMAIN r : A(r[j]) => j = h
    <3>1. i # 1 /\ i - 1 \in DOMAIN r /\ r[i - 1] = q[i]
      BY <1>1, <1>2, <2>1
    <3>2. \A j \in DOMAIN r : A(r[j]) => j = i - 1
      BY <1>1, <2>1
    <3> QED BY <2>1, <3>1, <3>2
  <2>2. ASSUME NEW i \in DOMAIN r, A(r[i]), Subject(r[i]).kind = kind,
               \A j \in DOMAIN r : A(r[j]) => j = i
        PROVE  \E h \in DOMAIN q : /\ A(q[h]) /\ Subject(q[h]).kind = kind
                                   /\ \A j \in DOMAIN q : A(q[j]) => j = h
    <3>1. i + 1 \in DOMAIN q /\ q[i + 1] = r[i]
      BY <1>1, <2>2
    <3>2. \A j \in DOMAIN q : A(q[j]) => j = i + 1
      BY <1>1, <1>2, <2>2
    <3> QED BY <2>2, <3>1, <3>2
  <2> QED BY <2>1, <2>2 DEF One, A
<1>3. ~A(m) => (None(r, n, w, lifetime) <=> None(q, n, w, lifetime))
  BY <1>1 DEF None, A
<1>4. A(m) => ~None(q, n, w, lifetime)
  BY <1>1 DEF None, A
<1>5. ASSUME A(m), NEW kind, One(q, kind, n, w, lifetime)
      PROVE  Subject(m).kind = kind /\ None(r, n, w, lifetime)
  <2>1. Subject(m).kind = kind /\ \A j \in DOMAIN q : A(q[j]) => j = 1
    BY <1>1, <1>5 DEF One, A
  <2>2. \A j \in DOMAIN r : ~A(r[j])
    BY <1>1, <2>1
  <2> QED BY <2>1, <2>2 DEF None, A
<1> QED BY <1>2, <1>3, <1>4, <1>5 DEF A, m, r

-----------------------------------------------------------------------------
(* The event queue and the lease table.                                       *)

EventOK(m) ==
  /\ m.kind \in {"Present", "Dismiss", "StepPage", "ClientGone", "ConnectionLost"}
  /\ m.kind = "Present" => m.widget \in Widget

(* No lease is held for a client that is gone, and once a connection is       *)
(* retired nothing will be left of it.                                        *)
Table ==
  /\ \A i \in DOMAIN events : EventOK(events[i])
  /\ daemon.leases = [live |-> daemon.leases.live, gone |-> daemon.leases.gone]
  /\ \A l \in daemon.leases.live :
       l = <<l[1], l[2]>> /\ l[2] \in Widget /\ l[1] \notin daemon.leases.gone
  /\ service.phase = "Acquiring" => \A n : ~Departed(n) /\ \A w : ~Lease(n, w)

(* An event is put into the queue.                                            *)
LEMMA EventPut ==
  ASSUME IInv, NEW m, events' = Append(events, m), UNCHANGED daemon
  PROVE  /\ \A n : Departed(n)' <=> /\ m.kind # "ConnectionLost"
                                    /\ (m.kind = "ClientGone" /\ m.name = n) \/ Departed(n)
         /\ \A n, w : Lease(n, w)' <=> IF Ends(m, n, w) THEN m.kind = "Present" ELSE Lease(n, w)
<1>1. Sequenced(events)
  BY DEF IInv, Shape, Sequenced
<1>2. ASSUME NEW n
      PROVE  Departed(n)' <=> /\ m.kind # "ConnectionLost"
                              /\ (m.kind = "ClientGone" /\ m.name = n) \/ Departed(n)
  <2>1. Since(Append(events, m), "ClientGone", n, n \in daemon.leases.gone)
          <=> /\ m.kind # "ConnectionLost"
              /\ (m.kind = "ClientGone" /\ m.name = n) \/ Since(events, "ClientGone", n, n \in daemon.leases.gone)
    BY <1>1, SinceAppend
  <2> QED BY <2>1 DEF Departed
<1>3. ASSUME NEW n, NEW w
      PROVE  Lease(n, w)' <=> IF Ends(m, n, w) THEN m.kind = "Present" ELSE Lease(n, w)
  <2>1. Holds(Append(events, m), <<n, w>> \in daemon.leases.live, n, w)
          <=> IF Ends(m, n, w) THEN m.kind = "Present"
              ELSE Holds(events, <<n, w>> \in daemon.leases.live, n, w)
    BY <1>1, HoldsAppend
  <2> QED BY <2>1 DEF Lease
<1> QED BY <1>2, <1>3

(* Nothing happens to the queue.                                              *)
LEMMA EventsKept ==
  ASSUME UNCHANGED <<events, daemon>>
  PROVE  (\A n : Departed(n)' <=> Departed(n)) /\ (\A n, w : Lease(n, w)' <=> Lease(n, w))
BY DEF Departed, Lease

(* The table, when an event is put behind the others.                         *)
LEMMA TablePut ==
  ASSUME IInv, Table, NEW m, EventOK(m), events' = Append(events, m), UNCHANGED daemon,
         service'.phase # "Acquiring" \/ m.kind = "ConnectionLost"
  PROVE  Table'
<1> DEFINE r == Append(events, m)
<1>1. Sequenced(events)
  BY DEF IInv, Shape, Sequenced
<1>2. /\ DOMAIN r = 1..(Len(events) + 1) /\ DOMAIN events = 1..Len(events) /\ Len(events) \in Nat
      /\ \A i \in DOMAIN events : r[i] = events[i]
      /\ r[Len(events) + 1] = m
  BY <1>1, Appended
<1> HIDE DEF r
<1>3. \A i \in DOMAIN r : EventOK(r[i])
  BY <1>2 DEF Table
<1>4. service'.phase = "Acquiring" => \A n : ~Departed(n)' /\ \A w : ~Lease(n, w)'
  BY EventPut DEF Ends
<1>5. \A i \in DOMAIN events' : EventOK(events'[i])
  BY <1>3 DEF r
<1> QED BY <1>4, <1>5 DEF Table, EventOK

(* The table, when the queue is left alone.                                   *)
LEMMA TableKept ==
  ASSUME Table, UNCHANGED <<events, daemon>>, service'.phase = "Acquiring" => service.phase = "Acquiring"
  PROVE  Table'
BY EventsKept DEF Table, EventOK

(* The daemon handles an event: what it will hold is what it would have held, *)
(* unless the caller is gone.                                                 *)
LEMMA EventTaken ==
  ASSUME IInv, Table, HandleEvent
  PROVE  /\ Table'
         /\ \A n : Departed(n)' <=> Departed(n)
         /\ \A n, w : Lease(n, w)' => Lease(n, w)
         /\ \A n, w : Lease(n, w) /\ ~Departed(n) => Lease(n, w)'
<1> DEFINE m == Head(events)
           live == daemon.leases.live
           gone == daemon.leases.gone
           live2 == daemon'.leases.live
           gone2 == daemon'.leases.gone
<1>1. Sequenced(events) /\ events # <<>> /\ events' = Tail(events) /\ service' = service
  BY DEF IInv, Shape, Sequenced, HandleEvent
<1>2. /\ m = events[1] /\ 1 \in DOMAIN events
      /\ \A i \in DOMAIN events' : i + 1 \in DOMAIN events /\ events'[i] = events[i + 1]
      /\ \A i \in DOMAIN events : i = 1 \/ (i - 1 \in DOMAIN events' /\ events[i] = events'[i - 1])
  BY <1>1, Taken
<1>3. EventOK(m) /\ \A i \in DOMAIN events' : EventOK(events'[i])
  BY <1>2 DEF Table
<1>4. daemon'.leases = CASE m.kind = "Present" -> Present(daemon.leases, m.name, m.widget)
                        [] m.kind = "Dismiss" -> Dismiss(daemon.leases, m.name, m.widget)
                        [] m.kind = "ClientGone" -> ClientGone(daemon.leases, m.name)
                        [] m.kind = "ConnectionLost" -> ConnectionLost(daemon.leases)
                        [] m.kind = "StepPage" -> daemon.leases
  BY DEF HandleEvent, IInv, Shape
<1>5. /\ daemon'.leases = [live |-> live2, gone |-> gone2]
      /\ live2 = CASE m.kind = "Present" -> IF m.name \in gone THEN live ELSE live \cup {<<m.name, m.widget>>}
                   [] m.kind = "Dismiss" -> live \ {<<m.name, m.widget>>}
                   [] m.kind = "ClientGone" -> {l \in live : l[1] # m.name}
                   [] m.kind = "ConnectionLost" -> {}
                   [] m.kind = "StepPage" -> live
      /\ gone2 = CASE m.kind = "ClientGone" -> gone \cup {m.name}
                   [] m.kind = "ConnectionLost" -> {}
                   [] m.kind \notin {"ClientGone", "ConnectionLost"} -> gone
  <2>1. daemon.leases = [live |-> live, gone |-> gone]
    BY DEF Table
  <2>2. CASE m.kind = "Present"
    BY <1>4, <2>1, <2>2 DEF Present
  <2>3. CASE m.kind = "Dismiss"
    BY <1>4, <2>1, <2>3 DEF Dismiss
  <2>4. CASE m.kind = "ClientGone"
    BY <1>4, <2>1, <2>4 DEF ClientGone
  <2>5. CASE m.kind = "ConnectionLost"
    BY <1>4, <2>1, <2>5 DEF ConnectionLost
  <2>6. CASE m.kind = "StepPage"
    BY <1>4, <2>1, <2>6
  <2> QED BY <1>3, <2>2, <2>3, <2>4, <2>5, <2>6 DEF EventOK
<1> HIDE DEF m, live, gone, live2, gone2
<1>6. \A l \in live2 : l = <<l[1], l[2]>> /\ l[2] \in Widget /\ l[1] \notin gone2
  <2> SUFFICES ASSUME NEW l \in live2
               PROVE  l = <<l[1], l[2]>> /\ l[2] \in Widget /\ l[1] \notin gone2
    OBVIOUS
  <2>1. CASE l \in live
    <3>1. l = <<l[1], l[2]>> /\ l[2] \in Widget /\ l[1] \notin gone
      BY <2>1 DEF Table, live, gone
    <3> QED BY <1>3, <1>5, <3>1 DEF EventOK
  <2>2. CASE l \notin live
    <3>1. m.kind = "Present" /\ m.name \notin gone /\ l = <<m.name, m.widget>> /\ gone2 = gone
      BY <1>3, <1>5, <2>2 DEF EventOK
    <3> QED BY <1>3, <3>1 DEF EventOK
  <2> QED BY <2>1, <2>2
<1>7. ASSUME NEW n
      PROVE  Departed(n)' <=> Departed(n)
  <2>1. n \in gone2 <=> m.kind # "ConnectionLost" /\ ((m.kind = "ClientGone" /\ m.name = n) \/ n \in gone)
    BY <1>3, <1>5 DEF EventOK
  <2>2. Since(events, "ClientGone", n, n \in gone) <=> Since(Tail(events), "ClientGone", n, n \in gone2)
    <3> DEFINE before == n \in gone
               next == n \in gone2
    <3>1. next <=> /\ Head(events).kind # "ConnectionLost"
                   /\ (Head(events).kind = "ClientGone" /\ Head(events).name = n) \/ before
      BY <2>1 DEF m
    <3> HIDE DEF before, next
    <3>2. Since(events, "ClientGone", n, before) <=> Since(Tail(events), "ClientGone", n, next)
      BY <1>1, <3>1, SinceTail
    <3> QED BY <3>2 DEF before, next
  <2> QED BY <1>1, <2>2 DEF Departed, gone, gone2
<1>8. ASSUME NEW n, NEW w
      PROVE  (Lease(n, w)' => Lease(n, w)) /\ (Lease(n, w) /\ ~Departed(n) => Lease(n, w)')
  <2> DEFINE t == <<n, w>>
             next == IF Ends(m, n, w) THEN m.kind = "Present" ELSE t \in live
  <2>1. Holds(events, t \in live, n, w) <=> Holds(events', next, n, w)
    <3> DEFINE held == t \in live
    <3>1. next <=> IF Ends(Head(events), n, w) THEN Head(events).kind = "Present" ELSE held
      BY DEF m
    <3> HIDE DEF held, next
    <3>2. Holds(events, held, n, w) <=> Holds(Tail(events), next, n, w)
      BY <1>1, <3>1, HoldsTail
    <3> QED BY <1>1, <3>2 DEF held
  <2>2. (t \in live2) => next
    <3>1. ASSUME t \in live2
          PROVE  t \in live \/ (m.kind = "Present" /\ m.name = n /\ m.widget = w)
      BY <1>3, <1>5, <3>1 DEF EventOK
    <3>2. ASSUME t \in live2
          PROVE  m.kind # "ConnectionLost" /\ ~(m.kind = "Dismiss" /\ m.name = n /\ m.widget = w)
      BY <1>3, <1>5, <3>2 DEF EventOK
    <3> QED BY <3>1, <3>2 DEF Ends
  <2>3. Lease(n, w)' => Lease(n, w)
    <3>1. Lease(n, w)' => Holds(events', t \in live2, n, w)
      BY DEF Lease, live2
    <3>2. Holds(events', t \in live2, n, w) => Holds(events', next, n, w)
      BY <2>2, HoldsAnyway
    <3> QED BY <2>1, <3>1, <3>2 DEF Lease, live
  <2>4. ASSUME Lease(n, w), ~Departed(n)
        PROVE  Lease(n, w)'
    <3>1. Holds(events', next, n, w)
      BY <2>1, <2>4 DEF Lease, live
    <3>2. ~Departed(n)'
      BY <1>7, <2>4
    <3>3. CASE n \notin gone2
      <4>1. m.name = n => m.kind # "ClientGone" /\ (m.kind = "Present" => n \notin gone)
        BY <1>3, <1>5, <3>3 DEF EventOK
      <4>2. next => t \in live2
        BY <1>3, <1>5, <4>1 DEF Ends, EventOK
      <4>3. Holds(events', t \in live2, n, w)
        BY <3>1, <4>2, HoldsAnyway
      <4> QED BY <4>3 DEF Lease, live2
    <3>4. CASE n \in gone2
      <4>1. \E i \in DOMAIN events' : events'[i].kind = "ConnectionLost"
        BY <3>2, <3>4 DEF Departed, Since, gone2
      <4>2. \E i \in DOMAIN events' : Ends(events'[i], n, w)
        BY <4>1 DEF Ends
      <4>3. Holds(events', t \in live2, n, w)
        BY <3>1, <4>2, HoldsAnyway
      <4> QED BY <4>3 DEF Lease, live2
    <3> QED BY <3>3, <3>4
  <2> QED BY <2>3, <2>4
<1>9. Table'
  <2>1. \A l \in daemon'.leases.live :
          l = <<l[1], l[2]>> /\ l[2] \in Widget /\ l[1] \notin daemon'.leases.gone
    BY <1>6 DEF live2, gone2
  <2>2. service'.phase = "Acquiring" => \A n : ~Departed(n)' /\ \A w : ~Lease(n, w)'
    BY <1>1, <1>7, <1>8 DEF Table
  <2> QED BY <1>3, <1>5, <2>1, <2>2 DEF Table, EventOK, live2, gone2
<1> QED BY <1>7, <1>8, <1>9

-----------------------------------------------------------------------------
(* The connections.                                                           *)

CallOK(c) ==
  /\ c.kind \in {"GetAll", "StepPage", "Present", "Dismiss"}
  /\ c.kind \in {"Present", "Dismiss"} => c.widget \in Widget
  /\ c.lifetime \in Nat

(* A connection has its fields.                                               *)
Fields ==
  {"calls", "begun", "first", "known", "departures", "forwarding", "confirming", "reporting"}

IsLink(k) == k = [x \in Fields |-> k[x]]

(* A call that is begun is the first, and presents; one client at a time is   *)
(* reported by the forwarder.                                                 *)
LinkOK(k) ==
  /\ IsLink(k) /\ k.begun \in BOOLEAN /\ k.first \in BOOLEAN /\ Sequenced(k.departures)
  /\ \A i \in DOMAIN k.calls : CallOK(k.calls[i])
  /\ k.begun => k.calls # <<>> /\ Head(k.calls).kind = "Present"
  /\ \A a, b \in k.forwarding : a = b

Links ==
  \A e \in Epoch : /\ LinkOK(service.connections[e])
                   /\ e > service.epoch => service.connections[e] = NewConnection

(* A connection that is not opened does nothing.                              *)
LEMMA OnlyOpened ==
  ASSUME IInv, Links, NEW e \in Epoch, Connection(e)
  PROVE  e <= service.epoch
<1> SUFFICES ASSUME ~(e <= service.epoch) PROVE FALSE
  OBVIOUS
<1>1. e > service.epoch
  BY DEF IInv, TypeOK, Epoch
<1>2. service.connections[e] = NewConnection
  BY <1>1 DEF Links
<1> QED BY <1>2 DEF Connection, Begin, Deliver, AnswerProperties, Depart, NewConnection, Calls

(* What a connection becomes.                                                 *)
LEMMA Linking ==
  ASSUME IInv, ViewInv, Links, NEW e \in Epoch, e <= service.epoch, NEW r, LinkOK(r),
         service' = [service EXCEPT !.connections[e] = r]
  PROVE  /\ Links' /\ service'.connections[e] = r
         /\ \A f \in Epoch \ {e} : service'.connections[f] = service.connections[f]
         /\ service'.phase = service.phase /\ service'.epoch = service.epoch
         /\ service'.retired = service.retired
<1> DEFINE conns == [service.connections EXCEPT ![e] = r]
<1>1. /\ service'.connections = conns /\ service'.phase = service.phase
      /\ service'.epoch = service.epoch /\ service'.retired = service.retired
  BY DEF IInv, Shape
<1>2. /\ DOMAIN conns = Epoch /\ conns[e] = r
      /\ \A f \in Epoch \ {e} : conns[f] = service.connections[f]
  BY DEF ViewInv, Linked
<1> HIDE DEF conns
<1>3. service.epoch \in Int /\ e \in Int /\ ~(e > service.epoch)
  BY DEF IInv, TypeOK, Epoch
<1>4. Links'
  BY <1>1, <1>2, <1>3 DEF Links, LinkOK, CallOK, NewConnection, Sequenced
<1> QED BY <1>1, <1>2, <1>4

(* Outbox::send: the event is put behind the others, or its connection is     *)
(* retired.                                                                   *)
LEMMA Putting ==
  ASSUME IInv, NEW e \in Epoch, e <= service.epoch, NEW m, Put(e, m)
  PROVE  /\ \/ events' = events
            \/ service.phase # "Acquiring" /\ events' = Append(events, m)
         /\ e = bus.owner => events' = Append(events, m) /\ e \notin service.retired
         /\ bus.owner # 0 /\ e # bus.owner => events' = events
<1>1. e \in 1..service.epoch
  BY DEF IInv, TypeOK, Epoch
<1>2. e \notin service.retired => service.phase # "Acquiring" /\ e = service.epoch
  BY <1>1 DEF IInv, TypeOK
<1>3. bus.owner # 0 => service.phase = "Serving" /\ bus.owner = service.epoch /\ bus.owner \notin service.retired
  BY <1>1 DEF IInv, TypeOK
<1> QED BY <1>1, <1>2, <1>3 DEF Put

(* present makes its caller known.                                            *)
LEMMA BeginLink ==
  ASSUME IInv, ViewInv, Links, NEW e \in Epoch, Begin(e)
  PROVE  LET k == service.connections[e]
             c == Head(k.calls)
             r == [k EXCEPT !.begun = TRUE, !.first = c.name \notin k.known, !.known = k.known \cup {c.name}]
         IN  /\ LinkOK(r) /\ service' = [service EXCEPT !.connections[e] = r]
             /\ k.calls # <<>> /\ c.kind = "Present" /\ ~k.begun
<1> DEFINE k == service.connections[e]
           c == Head(k.calls)
           r == [k EXCEPT !.begun = TRUE, !.first = c.name \notin k.known, !.known = k.known \cup {c.name}]
<1>1. /\ LinkOK(k) /\ k.calls # <<>> /\ c.kind = "Present" /\ ~k.begun
      /\ service' = [service EXCEPT !.connections[e] = r]
  BY DEF Begin, Links, Calls
<1>2. LinkOK(r)
  <2> HIDE DEF k, c
  <2>0. IsLink(k)
    BY <1>1 DEF LinkOK
  <2>2. /\ IsLink(r) /\ r.calls = k.calls /\ r.begun = TRUE /\ r.first \in BOOLEAN
        /\ r.departures = k.departures /\ r.forwarding = k.forwarding
    BY <2>0 DEF IsLink, Fields
  <2> HIDE DEF r
  <2> QED BY <1>1, <2>2 DEF LinkOK, c
<1> QED BY <1>1, <1>2

(* The first call is taken.                                                   *)
LEMMA CallTaken ==
  ASSUME NEW k, LinkOK(k), Sequenced(k.calls), k.calls # <<>>
  PROVE  /\ CallOK(Head(k.calls)) /\ \A i \in DOMAIN Tail(k.calls) : CallOK(Tail(k.calls)[i])
         /\ \A i \in DOMAIN Tail(k.calls) : \E j \in DOMAIN k.calls : Tail(k.calls)[i] = k.calls[j]
         /\ \E j \in DOMAIN k.calls : Head(k.calls) = k.calls[j]
BY Taken DEF LinkOK

(* deliver takes the first call.                                              *)
LEMMA DeliverLink ==
  ASSUME IInv, ViewInv, Links, NEW e \in Epoch, Deliver(e)
  PROVE  LET k == service.connections[e]
             c == Head(k.calls)
             confirming == IF k.first /\ e \notin service.retired THEN k.confirming \cup {c.name}
                           ELSE k.confirming
             r == [k EXCEPT !.calls = Tail(k.calls), !.begun = FALSE, !.first = FALSE,
                            !.confirming = confirming]
         IN  /\ LinkOK(r) /\ service' = [service EXCEPT !.connections[e] = r]
             /\ k.calls # <<>> /\ CallOK(c) /\ c.kind # "GetAll" /\ (c.kind = "Present" => k.begun)
             /\ EventOK(Event(e, c.kind, c)) /\ Put(e, Event(e, c.kind, c))
<1> DEFINE k == service.connections[e]
           c == Head(k.calls)
           confirming == IF k.first /\ e \notin service.retired THEN k.confirming \cup {c.name}
                         ELSE k.confirming
           r == [k EXCEPT !.calls = Tail(k.calls), !.begun = FALSE, !.first = FALSE,
                          !.confirming = confirming]
<1>1. LinkOK(k) /\ Sequenced(k.calls)
  BY DEF Links, ViewInv, Linked
<1>2. /\ k.calls # <<>> /\ c.kind # "GetAll" /\ (c.kind = "Present" => k.begun)
      /\ Put(e, Event(e, c.kind, c)) /\ service' = [service EXCEPT !.connections[e] = r]
  BY DEF Deliver, Calls
<1>3. CallOK(c) /\ \A i \in DOMAIN Tail(k.calls) : CallOK(Tail(k.calls)[i])
  BY <1>1, <1>2, CallTaken
<1>4. EventOK(Event(e, c.kind, c))
  BY <1>2, <1>3 DEF EventOK, Event, CallOK
<1>6. LinkOK(r)
  <2> HIDE DEF k, confirming
  <2>0. IsLink(k)
    BY <1>1 DEF LinkOK
  <2>1. /\ IsLink(r) /\ r.calls = Tail(k.calls) /\ r.begun = FALSE /\ r.first = FALSE
        /\ r.departures = k.departures /\ r.forwarding = k.forwarding
    BY <2>0 DEF IsLink, Fields
  <2> HIDE DEF r
  <2> QED BY <1>1, <1>3, <2>1 DEF LinkOK
<1> HIDE DEF r
<1> QED BY <1>2, <1>3, <1>4, <1>6 DEF r

(* The answer to GetAll takes it.                                             *)
LEMMA AnswerLink ==
  ASSUME IInv, ViewInv, Links, NEW e \in Epoch, AnswerProperties(e)
  PROVE  LET k == service.connections[e]
             r == [k EXCEPT !.calls = Tail(k.calls)]
         IN  /\ LinkOK(r) /\ service' = [service EXCEPT !.connections[e] = r]
             /\ k.calls # <<>> /\ Head(k.calls).kind = "GetAll" /\ ~k.begun
<1> DEFINE k == service.connections[e]
           r == [k EXCEPT !.calls = Tail(k.calls)]
<1>1. /\ LinkOK(k) /\ Sequenced(k.calls) /\ k.calls # <<>> /\ Head(k.calls).kind = "GetAll"
      /\ service' = [service EXCEPT !.connections[e] = r]
  BY DEF AnswerProperties, Links, Calls, ViewInv, Linked
<1>2. \A i \in DOMAIN Tail(k.calls) : CallOK(Tail(k.calls)[i])
  BY <1>1, CallTaken
<1>3. ~k.begun
  BY <1>1 DEF LinkOK
<1>4. LinkOK(r)
  <2> HIDE DEF k
  <2>0. IsLink(k)
    BY <1>1 DEF LinkOK
  <2>1. /\ IsLink(r) /\ r.calls = Tail(k.calls) /\ r.begun = k.begun /\ r.first = k.first
        /\ r.departures = k.departures /\ r.forwarding = k.forwarding
    BY <2>0 DEF IsLink, Fields
  <2> HIDE DEF r
  <2> QED BY <1>1, <1>2, <1>3, <2>1 DEF LinkOK
<1> QED BY <1>1, <1>3, <1>4

(* The forwarder takes a departure.                                           *)
LEMMA DepartLink ==
  ASSUME IInv, ViewInv, Links, NEW e \in Epoch, Depart(e)
  PROVE  LET k == service.connections[e]
             n == Head(k.departures)
             r == [k EXCEPT !.departures = Tail(k.departures), !.known = k.known \ {n},
                            !.forwarding = k.known \cap {n}]
         IN  /\ LinkOK(r) /\ service' = [service EXCEPT !.connections[e] = r]
             /\ k.departures # <<>> /\ k.forwarding = {}
<1> DEFINE k == service.connections[e]
           n == Head(k.departures)
           r == [k EXCEPT !.departures = Tail(k.departures), !.known = k.known \ {n},
                          !.forwarding = k.known \cap {n}]
<1>1. /\ LinkOK(k) /\ k.departures # <<>> /\ k.forwarding = {}
      /\ service' = [service EXCEPT !.connections[e] = r]
  BY DEF Depart, Links
<1>2. Sequenced(Tail(k.departures))
  BY <1>1, Taken DEF LinkOK
<1>3. LinkOK(r)
  <2> HIDE DEF k
  <2> HIDE DEF n
  <2>0. IsLink(k)
    BY <1>1 DEF LinkOK
  <2>1. /\ IsLink(r) /\ r.calls = k.calls /\ r.begun = k.begun /\ r.first = k.first
        /\ r.departures = Tail(k.departures) /\ r.forwarding = k.known \cap {n}
    BY <2>0 DEF IsLink, Fields
  <2> HIDE DEF r
  <2> QED BY <1>1, <1>2, <2>1 DEF LinkOK
<1> QED BY <1>1, <1>3

(* A client that is gone is forwarded, asked for and reported.                *)
LEMMA ReportLinks ==
  ASSUME IInv, ViewInv, Links, NEW e \in Epoch, NEW n
  PROVE  LET k == service.connections[e]
             forwarded == [k EXCEPT !.forwarding = {}]
             reported  == [k EXCEPT !.reporting = k.reporting \ {n}]
             isGone    == Open(e) /\ shell.name # n /\ n \in k.known
             gone      == IF isGone THEN {n} ELSE {}
             confirmed == [k EXCEPT !.confirming = k.confirming \ {n}, !.known = k.known \ gone,
                                    !.reporting = k.reporting \cup gone]
         IN  /\ LinkOK(forwarded) /\ LinkOK(reported) /\ LinkOK(confirmed)
             /\ Forward(e, n) => service' = [service EXCEPT !.connections[e] = forwarded]
             /\ Report(e, n) => service' = [service EXCEPT !.connections[e] = reported]
             /\ Confirm(e, n) => service' = [service EXCEPT !.connections[e] = confirmed]
<1> DEFINE k == service.connections[e]
           forwarded == [k EXCEPT !.forwarding = {}]
           reported  == [k EXCEPT !.reporting = k.reporting \ {n}]
           isGone    == Open(e) /\ shell.name # n /\ n \in k.known
           gone      == IF isGone THEN {n} ELSE {}
           confirmed == [k EXCEPT !.confirming = k.confirming \ {n}, !.known = k.known \ gone,
                                  !.reporting = k.reporting \cup gone]
<1>1. LinkOK(k)
  BY DEF Links
<1>2. /\ Forward(e, n) => service' = [service EXCEPT !.connections[e] = forwarded]
      /\ Report(e, n) => service' = [service EXCEPT !.connections[e] = reported]
      /\ Confirm(e, n) => service' = [service EXCEPT !.connections[e] = confirmed]
  BY DEF Forward, Report, Confirm
<1>3. LinkOK(forwarded) /\ LinkOK(reported) /\ LinkOK(confirmed)
  <2> HIDE DEF k, gone
  <2>0. IsLink(k)
    BY <1>1 DEF LinkOK
  <2>1. ASSUME NEW r, r \in {forwarded, reported, confirmed}
        PROVE  /\ IsLink(r) /\ r.calls = k.calls /\ r.begun = k.begun /\ r.first = k.first
               /\ r.departures = k.departures /\ r.forwarding \in {k.forwarding, {}}
    <3>1. CASE r = forwarded
      BY <2>0, <3>1 DEF IsLink, Fields
    <3>2. CASE r = reported
      BY <2>0, <3>2 DEF IsLink, Fields
    <3>3. CASE r = confirmed
      BY <2>0, <3>3 DEF IsLink, Fields
    <3> QED BY <2>1, <3>1, <3>2, <3>3
  <2> HIDE DEF forwarded, reported, confirmed
  <2> QED BY <1>1, <2>1 DEF LinkOK
<1> QED BY <1>2, <1>3

(* The events of clients that leave.                                          *)
LEMMA GoneEvent ==
  ASSUME NEW e, NEW n
  PROVE  /\ EventOK(Gone(e, n)) /\ Gone(e, n).kind = "ClientGone" /\ Gone(e, n).name = n
         /\ \A m, w : ~Ends(Gone(e, n), m, w)
BY DEF EventOK, Gone, Event, Ends

(* Every step of a connection, at a distance.                                 *)
LEMMA ConnectionLinks ==
  ASSUME IInv, ViewInv, Links, Table, NEW e \in Epoch, Connection(e)
  PROVE  /\ Table' /\ Links' /\ UNCHANGED <<bus, widgets, daemon>>
         /\ \A f \in Epoch \ {e} : service'.connections[f] = service.connections[f]
         /\ bus.owner # 0 /\ e # bus.owner => UNCHANGED <<events, shell>>
         /\ e # bus.owner => UNCHANGED shell
<1>1. e <= service.epoch
  BY OnlyOpened
<1>2. \E r : LinkOK(r) /\ service' = [service EXCEPT !.connections[e] = r]
  <2>1. CASE Begin(e)
    BY <2>1, BeginLink
  <2>2. CASE Deliver(e)
    BY <2>2, DeliverLink
  <2>3. CASE AnswerProperties(e)
    BY <2>3, AnswerLink
  <2>4. CASE Depart(e)
    BY <2>4, DepartLink
  <2>5. ASSUME NEW n, Forward(e, n) \/ Confirm(e, n) \/ Report(e, n)
        PROVE  \E r : LinkOK(r) /\ service' = [service EXCEPT !.connections[e] = r]
    BY <2>5, ReportLinks
  <2> QED BY <2>1, <2>2, <2>3, <2>4, <2>5 DEF Connection
<1>3. /\ Links' /\ service'.phase = service.phase
      /\ \A f \in Epoch \ {e} : service'.connections[f] = service.connections[f]
  BY <1>1, <1>2, Linking
<1>4. UNCHANGED <<bus, widgets, daemon>>
  BY DEF Connection, Begin, Deliver, AnswerProperties, Depart, Forward, Confirm, Report
<1>5. e # bus.owner => UNCHANGED shell
  BY DEF Connection, Begin, Deliver, AnswerProperties, Depart, Forward, Confirm, Report, Answered, Open
<1>6. events' = events \/ \E m : EventOK(m) /\ Put(e, m)
  <2>1. CASE Deliver(e)
    BY <2>1, DeliverLink
  <2>2. CASE ~Deliver(e)
    BY <2>2, GoneEvent DEF Connection, Begin, AnswerProperties, Depart, Forward, Confirm, Report
  <2> QED BY <2>1, <2>2
<1>7. Table' /\ (bus.owner # 0 /\ e # bus.owner => events' = events)
  <2>1. CASE events' = events
    BY <1>3, <1>4, <2>1, TableKept
  <2>2. CASE events' # events
    <3>1. PICK m : EventOK(m) /\ Put(e, m)
      BY <1>6, <2>2
    <3>2. /\ service.phase # "Acquiring" /\ events' = Append(events, m)
          /\ bus.owner # 0 /\ e # bus.owner => events' = events
      BY <1>1, <2>2, <3>1, Putting
    <3> QED BY <1>3, <1>4, <3>1, <3>2, TablePut
  <2> QED BY <2>1, <2>2
<1> QED BY <1>3, <1>4, <1>5, <1>7

-----------------------------------------------------------------------------
(* The clients of the connection that owns the name.                          *)

Given(n) == n \in 1..bus.names

(* The names are those the bus gave, and no call is of a later registration.  *)
Signed(k) ==
  /\ \A i \in DOMAIN k.calls :
       /\ Given(k.calls[i].name)
       /\ k.calls[i].name = shell.name => k.calls[i].lifetime <= shell.lifetime
  /\ \A i \in DOMAIN k.departures : Given(k.departures[i])
  /\ \A n : n \in k.known \cup k.forwarding \cup k.confirming \cup k.reporting => Given(n)
  /\ \A n : Departed(n) => Given(n)
  /\ \A n, w : Lease(n, w) => Given(n)

Reported(k, n) == Departed(n) \/ n \in k.forwarding \/ n \in k.reporting

Leaves(k, n) == \E i \in DOMAIN k.departures : k.departures[i] = n

Waits(k, n) == k.begun /\ Head(k.calls).name = n

(* Nothing says that the shell is gone.  Who has or will have a lease is      *)
(* known or reported; who is known and gone will be noticed.                  *)
Leaving(k) ==
  \A n :
    /\ n = shell.name /\ n # 0 => ~Reported(k, n) /\ ~Leaves(k, n)
    /\ (\E w : Lease(n, w)) \/ Waits(k, n) => n \in k.known \/ Reported(k, n)
    /\ n \in k.known /\ n # shell.name =>
         Leaves(k, n) \/ Reported(k, n) \/ n \in k.confirming \/ (k.first /\ Waits(k, n))

Tracks(k) == Signed(k) /\ Leaving(k)

(* The shell is who it was.                                                   *)
SameShell == UNCHANGED bus /\ shell'.name = shell.name /\ shell'.lifetime = shell.lifetime

(* Who presents is known before it has a lease.                               *)
LEMMA BeginTracks ==
  ASSUME NEW k, LinkOK(k), Sequenced(k.calls), Tracks(k), SameShell, UNCHANGED <<events, daemon>>,
         k.calls # <<>>, ~k.begun, NEW c, c = Head(k.calls), NEW r,
         r = [k EXCEPT !.begun = TRUE, !.first = c.name \notin k.known, !.known = k.known \cup {c.name}]
  PROVE  Tracks(r)'
<1>1. /\ r.calls = k.calls /\ r.begun = TRUE /\ r.first = (c.name \notin k.known)
      /\ r.known = k.known \cup {c.name} /\ r.departures = k.departures
      /\ r.forwarding = k.forwarding /\ r.confirming = k.confirming /\ r.reporting = k.reporting
  <2>1. IsLink(k)
    BY DEF LinkOK
  <2> QED BY <2>1 DEF IsLink, Fields
<1>2. (\A n : Departed(n)' <=> Departed(n)) /\ (\A n, w : Lease(n, w)' <=> Lease(n, w))
  BY EventsKept
<1>3. Given(c.name)
  BY CallTaken DEF Tracks, Signed
<1>4. Signed(r)'
  BY <1>1, <1>2, <1>3 DEF SameShell, Tracks, Signed, Given
<1>5. \A n : /\ (Reported(r, n)' <=> Reported(k, n)) /\ (Leaves(r, n) <=> Leaves(k, n))
             /\ (Waits(r, n) <=> n = c.name)
  BY <1>1, <1>2 DEF Reported, Leaves, Waits
<1>6. \A n : ~Waits(k, n)
  BY DEF Waits
<1>7. ASSUME NEW n
      PROVE  /\ n = shell.name /\ n # 0 => ~Reported(r, n)' /\ ~Leaves(r, n)
             /\ (\E w : Lease(n, w)') \/ Waits(r, n) => n \in r.known \/ Reported(r, n)'
             /\ n \in r.known /\ n # shell.name =>
                  Leaves(r, n) \/ Reported(r, n)' \/ n \in r.confirming \/ (r.first /\ Waits(r, n))
  <2>1. /\ n = shell.name /\ n # 0 => ~Reported(k, n) /\ ~Leaves(k, n)
        /\ (\E w : Lease(n, w)) => n \in k.known \/ Reported(k, n)
        /\ n \in k.known /\ n # shell.name => Leaves(k, n) \/ Reported(k, n) \/ n \in k.confirming
    BY <1>6 DEF Tracks, Leaving
  <2> QED BY <1>1, <1>2, <1>5, <2>1
<1>8. Leaving(r)'
  BY <1>7 DEF SameShell, Leaving, Leaves, Waits
<1> QED BY <1>4, <1>8 DEF Tracks

(* A call is taken, whatever becomes of it.                                   *)
LEMMA TakenGiven ==
  ASSUME NEW k, LinkOK(k), Sequenced(k.calls), Tracks(k), SameShell, k.calls # <<>>
  PROVE  /\ Given(Head(k.calls).name)
         /\ Head(k.calls).name = shell.name => Head(k.calls).lifetime <= shell.lifetime
         /\ \A i \in DOMAIN Tail(k.calls) :
              /\ Given(Tail(k.calls)[i].name)'
              /\ Tail(k.calls)[i].name = shell'.name => Tail(k.calls)[i].lifetime <= shell'.lifetime
<1>1. /\ \A i \in DOMAIN Tail(k.calls) : \E j \in DOMAIN k.calls : Tail(k.calls)[i] = k.calls[j]
      /\ \E j \in DOMAIN k.calls : Head(k.calls) = k.calls[j]
  BY CallTaken
<1>2. \A j \in DOMAIN k.calls : /\ Given(k.calls[j].name)
                                /\ k.calls[j].name = shell.name => k.calls[j].lifetime <= shell.lifetime
  BY DEF Tracks, Signed
<1> QED BY <1>1, <1>2 DEF SameShell, Given

(* A call is delivered: its caller is known, or will be asked for.            *)
LEMMA DeliverTracks ==
  ASSUME IInv, NEW k, LinkOK(k), Sequenced(k.calls), Tracks(k), SameShell, UNCHANGED daemon,
         k.calls # <<>>, NEW c, c = Head(k.calls), c.kind \in {"Present", "Dismiss", "StepPage"},
         c.kind = "Present" => k.begun,
         NEW e, events' = Append(events, Event(e, c.kind, c)), NEW confirming,
         confirming = IF k.first THEN k.confirming \cup {c.name} ELSE k.confirming, NEW r,
         r = [k EXCEPT !.calls = Tail(k.calls), !.begun = FALSE, !.first = FALSE, !.confirming = confirming]
  PROVE  Tracks(r)'
<1>1. /\ r.calls = Tail(k.calls) /\ r.begun = FALSE /\ r.first = FALSE
      /\ r.known = k.known /\ r.departures = k.departures
      /\ r.forwarding = k.forwarding /\ r.confirming = confirming /\ r.reporting = k.reporting
  <2>1. IsLink(k)
    BY DEF LinkOK
  <2> QED BY <2>1 DEF IsLink, Fields
<1> DEFINE m == Event(e, c.kind, c)
<1>2. m.kind = c.kind /\ m.name = c.name /\ m.widget = c.widget
  BY DEF Event
<1> HIDE DEF m
<1>3. /\ \A n : Departed(n)' <=> Departed(n)
      /\ \A n, w : Lease(n, w)' => Lease(n, w) \/ (c.kind = "Present" /\ c.name = n)
  <2>1. /\ \A n : Departed(n)' <=> /\ m.kind # "ConnectionLost"
                                   /\ (m.kind = "ClientGone" /\ m.name = n) \/ Departed(n)
        /\ \A n, w : Lease(n, w)' <=> IF Ends(m, n, w) THEN m.kind = "Present" ELSE Lease(n, w)
    BY EventPut DEF m
  <2> QED BY <1>2, <2>1 DEF Ends
<1>4. Signed(r)'
  <2>1. /\ Given(c.name)
        /\ \A i \in DOMAIN r.calls : /\ Given(r.calls[i].name)'
                                     /\ r.calls[i].name = shell'.name => r.calls[i].lifetime <= shell'.lifetime
    BY <1>1, TakenGiven
  <2>2. /\ \A n : n \in r.known \cup r.forwarding \cup r.confirming \cup r.reporting => Given(n)'
        /\ \A i \in DOMAIN r.departures : Given(r.departures[i])'
    BY <1>1, <2>1 DEF SameShell, Tracks, Signed, Given
  <2>3. (\A n : Departed(n)' => Given(n)') /\ \A n, w : Lease(n, w)' => Given(n)'
    BY <1>3, <2>1 DEF SameShell, Tracks, Signed, Given
  <2> QED BY <2>1, <2>2, <2>3 DEF Signed
<1>5. \A n : (Reported(r, n)' <=> Reported(k, n)) /\ (Leaves(r, n) <=> Leaves(k, n)) /\ ~Waits(r, n)
  BY <1>1, <1>3 DEF Reported, Leaves, Waits
<1>7. ASSUME NEW n
      PROVE  /\ n = shell.name /\ n # 0 => ~Reported(r, n)' /\ ~Leaves(r, n)
             /\ (\E w : Lease(n, w)') \/ Waits(r, n) => n \in r.known \/ Reported(r, n)'
             /\ n \in r.known /\ n # shell.name =>
                  Leaves(r, n) \/ Reported(r, n)' \/ n \in r.confirming \/ (r.first /\ Waits(r, n))
  <2>1. /\ n = shell.name /\ n # 0 => ~Reported(k, n) /\ ~Leaves(k, n)
        /\ (\E w : Lease(n, w)) \/ Waits(k, n) => n \in k.known \/ Reported(k, n)
        /\ n \in k.known /\ n # shell.name =>
             Leaves(k, n) \/ Reported(k, n) \/ n \in k.confirming \/ (k.first /\ Waits(k, n))
    BY DEF Tracks, Leaving
  <2>2. c.kind = "Present" /\ c.name = n => Waits(k, n)
    BY DEF Waits
  <2>3. k.first /\ Waits(k, n) => n \in confirming
    BY DEF Waits
  <2> QED BY <1>1, <1>3, <1>5, <2>1, <2>2, <2>3
<1>8. Leaving(r)'
  BY <1>7 DEF SameShell, Leaving, Leaves, Waits
<1> QED BY <1>4, <1>8 DEF Tracks

(* The answer to GetAll leaves the clients as they are.                       *)
LEMMA AnswerTracks ==
  ASSUME NEW k, LinkOK(k), Sequenced(k.calls), Tracks(k), SameShell, UNCHANGED <<events, daemon>>,
         k.calls # <<>>, ~k.begun, NEW r, r = [k EXCEPT !.calls = Tail(k.calls)]
  PROVE  Tracks(r)'
<1>1. /\ r.calls = Tail(k.calls) /\ r.begun = k.begun /\ r.first = k.first
      /\ r.known = k.known /\ r.departures = k.departures
      /\ r.forwarding = k.forwarding /\ r.confirming = k.confirming /\ r.reporting = k.reporting
  <2>1. IsLink(k)
    BY DEF LinkOK
  <2> QED BY <2>1 DEF IsLink, Fields
<1>3. (\A n : Departed(n)' <=> Departed(n)) /\ (\A n, w : Lease(n, w)' <=> Lease(n, w))
  BY EventsKept
<1>4. Signed(r)'
  BY <1>1, <1>3, TakenGiven DEF SameShell, Tracks, Signed, Given
<1>5. \A n : /\ Reported(r, n)' <=> Reported(k, n)
             /\ Leaves(r, n) <=> Leaves(k, n)
             /\ ~Waits(r, n) /\ ~Waits(k, n)
  BY <1>1, <1>3 DEF Reported, Leaves, Waits
<1>7. ASSUME NEW n
      PROVE  /\ n = shell.name /\ n # 0 => ~Reported(r, n)' /\ ~Leaves(r, n)
             /\ (\E w : Lease(n, w)') \/ Waits(r, n) => n \in r.known \/ Reported(r, n)'
             /\ n \in r.known /\ n # shell.name =>
                  Leaves(r, n) \/ Reported(r, n)' \/ n \in r.confirming \/ (r.first /\ Waits(r, n))
  <2>1. /\ n = shell.name /\ n # 0 => ~Reported(k, n) /\ ~Leaves(k, n)
        /\ (\E w : Lease(n, w)) \/ Waits(k, n) => n \in k.known \/ Reported(k, n)
        /\ n \in k.known /\ n # shell.name =>
             Leaves(k, n) \/ Reported(k, n) \/ n \in k.confirming \/ (k.first /\ Waits(k, n))
    BY DEF Tracks, Leaving
  <2> QED BY <1>1, <1>3, <1>5, <2>1
<1>8. Leaving(r)'
  BY <1>7 DEF SameShell, Leaving, Leaves, Waits
<1> QED BY <1>4, <1>8 DEF Tracks

(* forward_disconnects takes the next departure.                              *)
LEMMA DepartTracks ==
  ASSUME NEW k, LinkOK(k), Tracks(k), SameShell, UNCHANGED <<events, daemon>>,
         k.departures # <<>>, k.forwarding = {}, NEW leaver, leaver = Head(k.departures), NEW r,
         r = [k EXCEPT !.departures = Tail(k.departures), !.known = k.known \ {leaver},
                       !.forwarding = k.known \cap {leaver}]
  PROVE  Tracks(r)'
<1>1. /\ r.calls = k.calls /\ r.begun = k.begun /\ r.first = k.first
      /\ r.known = k.known \ {leaver} /\ r.departures = Tail(k.departures)
      /\ r.forwarding = k.known \cap {leaver} /\ r.confirming = k.confirming /\ r.reporting = k.reporting
  <2>1. IsLink(k)
    BY DEF LinkOK
  <2> QED BY <2>1 DEF IsLink, Fields
<1>2. /\ leaver = k.departures[1] /\ 1 \in DOMAIN k.departures
      /\ \A i \in DOMAIN r.departures : i + 1 \in DOMAIN k.departures /\ r.departures[i] = k.departures[i + 1]
      /\ \A i \in DOMAIN k.departures :
           i = 1 \/ (i - 1 \in DOMAIN r.departures /\ k.departures[i] = r.departures[i - 1])
  BY <1>1, Taken DEF LinkOK
<1>3. (\A n : Departed(n)' <=> Departed(n)) /\ (\A n, w : Lease(n, w)' <=> Lease(n, w))
  BY EventsKept
<1>4. Signed(r)'
  BY <1>1, <1>2, <1>3 DEF SameShell, Tracks, Signed, Given
<1>5. \A n : /\ Reported(r, n)' <=> Reported(k, n) \/ (n = leaver /\ n \in k.known)
             /\ Leaves(k, n) <=> Leaves(r, n) \/ n = leaver
             /\ Waits(r, n) <=> Waits(k, n)
  <2>1. \A n : Leaves(k, n) <=> Leaves(r, n) \/ n = leaver
    BY <1>2 DEF Leaves
  <2> QED BY <1>1, <1>3, <2>1 DEF Reported, Waits
<1>7. ASSUME NEW n
      PROVE  /\ n = shell.name /\ n # 0 => ~Reported(r, n)' /\ ~Leaves(r, n)
             /\ (\E w : Lease(n, w)') \/ Waits(r, n) => n \in r.known \/ Reported(r, n)'
             /\ n \in r.known /\ n # shell.name =>
                  Leaves(r, n) \/ Reported(r, n)' \/ n \in r.confirming \/ (r.first /\ Waits(r, n))
  <2>1. /\ n = shell.name /\ n # 0 => ~Reported(k, n) /\ ~Leaves(k, n)
        /\ (\E w : Lease(n, w)) \/ Waits(k, n) => n \in k.known \/ Reported(k, n)
        /\ n \in k.known /\ n # shell.name =>
             Leaves(k, n) \/ Reported(k, n) \/ n \in k.confirming \/ (k.first /\ Waits(k, n))
    BY DEF Tracks, Leaving
  <2> QED BY <1>1, <1>3, <1>5, <2>1
<1>8. Leaving(r)'
  BY <1>7 DEF SameShell, Leaving, Leaves, Waits
<1> QED BY <1>4, <1>8 DEF Tracks

(* A client that is gone is reported, by the forwarder or by the question.    *)
LEMMA ForwardTracks ==
  ASSUME IInv, NEW k, LinkOK(k), Tracks(k), SameShell, UNCHANGED daemon,
         NEW n1 \in k.forwarding, NEW e, events' = Append(events, Gone(e, n1)), NEW r,
         r = [k EXCEPT !.forwarding = {}]
  PROVE  Tracks(r)'
<1>1. /\ r.calls = k.calls /\ r.begun = k.begun /\ r.first = k.first
      /\ r.known = k.known /\ r.departures = k.departures
      /\ r.forwarding = {} /\ r.confirming = k.confirming /\ r.reporting = k.reporting
  <2>1. IsLink(k)
    BY DEF LinkOK
  <2> QED BY <2>1 DEF IsLink, Fields
<1>3. (\A n : Departed(n)' <=> n = n1 \/ Departed(n)) /\ (\A n, w : Lease(n, w)' <=> Lease(n, w))
  <2> DEFINE m == Gone(e, n1)
  <2>1. m.kind = "ClientGone" /\ m.name = n1 /\ \A n, w : ~Ends(m, n, w)
    BY GoneEvent
  <2>2. /\ \A n : Departed(n)' <=> /\ m.kind # "ConnectionLost"
                                   /\ (m.kind = "ClientGone" /\ m.name = n) \/ Departed(n)
        /\ \A n, w : Lease(n, w)' <=> IF Ends(m, n, w) THEN m.kind = "Present" ELSE Lease(n, w)
    BY EventPut
  <2> HIDE DEF m
  <2> QED BY <2>1, <2>2
<1>4. Signed(r)'
  BY <1>1, <1>3 DEF SameShell, Tracks, Signed, Given
<1>5. \A n : /\ Reported(r, n)' <=> Reported(k, n)
             /\ Leaves(k, n) <=> Leaves(r, n)
             /\ Waits(r, n) <=> Waits(k, n)
  BY <1>1, <1>3 DEF Reported, Waits, Leaves, LinkOK
<1>7. ASSUME NEW n
      PROVE  /\ n = shell.name /\ n # 0 => ~Reported(r, n)' /\ ~Leaves(r, n)
             /\ (\E w : Lease(n, w)') \/ Waits(r, n) => n \in r.known \/ Reported(r, n)'
             /\ n \in r.known /\ n # shell.name =>
                  Leaves(r, n) \/ Reported(r, n)' \/ n \in r.confirming \/ (r.first /\ Waits(r, n))
  <2>1. /\ n = shell.name /\ n # 0 => ~Reported(k, n) /\ ~Leaves(k, n)
        /\ (\E w : Lease(n, w)) \/ Waits(k, n) => n \in k.known \/ Reported(k, n)
        /\ n \in k.known /\ n # shell.name =>
             Leaves(k, n) \/ Reported(k, n) \/ n \in k.confirming \/ (k.first /\ Waits(k, n))
    BY DEF Tracks, Leaving
  <2> QED BY <1>1, <1>3, <1>5, <2>1
<1>8. Leaving(r)'
  BY <1>7 DEF SameShell, Leaving, Leaves, Waits
<1> QED BY <1>4, <1>8 DEF Tracks

(* A client that the question found gone is reported.                         *)
LEMMA ReportTracks ==
  ASSUME IInv, NEW k, LinkOK(k), Tracks(k), SameShell, UNCHANGED daemon,
         NEW n1 \in k.reporting, NEW e, events' = Append(events, Gone(e, n1)), NEW r,
         r = [k EXCEPT !.reporting = k.reporting \ {n1}]
  PROVE  Tracks(r)'
<1>1. /\ r.calls = k.calls /\ r.begun = k.begun /\ r.first = k.first
      /\ r.known = k.known /\ r.departures = k.departures
      /\ r.reporting = k.reporting \ {n1} /\ r.confirming = k.confirming /\ r.forwarding = k.forwarding
  <2>1. IsLink(k)
    BY DEF LinkOK
  <2> QED BY <2>1 DEF IsLink, Fields
<1>3. (\A n : Departed(n)' <=> n = n1 \/ Departed(n)) /\ (\A n, w : Lease(n, w)' <=> Lease(n, w))
  <2> DEFINE m == Gone(e, n1)
  <2>1. m.kind = "ClientGone" /\ m.name = n1 /\ \A n, w : ~Ends(m, n, w)
    BY GoneEvent
  <2>2. /\ \A n : Departed(n)' <=> /\ m.kind # "ConnectionLost"
                                   /\ (m.kind = "ClientGone" /\ m.name = n) \/ Departed(n)
        /\ \A n, w : Lease(n, w)' <=> IF Ends(m, n, w) THEN m.kind = "Present" ELSE Lease(n, w)
    BY EventPut
  <2> HIDE DEF m
  <2> QED BY <2>1, <2>2
<1>4. Signed(r)'
  BY <1>1, <1>3 DEF SameShell, Tracks, Signed, Given
<1>5. \A n : /\ Reported(r, n)' <=> Reported(k, n)
             /\ Leaves(k, n) <=> Leaves(r, n)
             /\ Waits(r, n) <=> Waits(k, n)
  BY <1>1, <1>3 DEF Reported, Waits, Leaves, LinkOK
<1>7. ASSUME NEW n
      PROVE  /\ n = shell.name /\ n # 0 => ~Reported(r, n)' /\ ~Leaves(r, n)
             /\ (\E w : Lease(n, w)') \/ Waits(r, n) => n \in r.known \/ Reported(r, n)'
             /\ n \in r.known /\ n # shell.name =>
                  Leaves(r, n) \/ Reported(r, n)' \/ n \in r.confirming \/ (r.first /\ Waits(r, n))
  <2>1. /\ n = shell.name /\ n # 0 => ~Reported(k, n) /\ ~Leaves(k, n)
        /\ (\E w : Lease(n, w)) \/ Waits(k, n) => n \in k.known \/ Reported(k, n)
        /\ n \in k.known /\ n # shell.name =>
             Leaves(k, n) \/ Reported(k, n) \/ n \in k.confirming \/ (k.first /\ Waits(k, n))
    BY DEF Tracks, Leaving
  <2> QED BY <1>1, <1>3, <1>5, <2>1
<1>8. Leaving(r)'
  BY <1>7 DEF SameShell, Leaving, Leaves, Waits
<1> QED BY <1>4, <1>8 DEF Tracks

(* confirm_connected                                                          *)
LEMMA ConfirmTracks ==
  ASSUME NEW k, LinkOK(k), Tracks(k), SameShell, UNCHANGED <<events, daemon>>,
         NEW n1, NEW gone, gone = IF shell.name # n1 /\ n1 \in k.known THEN {n1} ELSE {}, NEW r,
         r = [k EXCEPT !.confirming = k.confirming \ {n1}, !.known = k.known \ gone,
                       !.reporting = k.reporting \cup gone]
  PROVE  Tracks(r)'
<1>1. /\ r.calls = k.calls /\ r.begun = k.begun /\ r.first = k.first
      /\ r.known = k.known \ gone /\ r.departures = k.departures
      /\ r.forwarding = k.forwarding /\ r.confirming = k.confirming \ {n1}
      /\ r.reporting = k.reporting \cup gone
  <2>1. IsLink(k)
    BY DEF LinkOK
  <2> QED BY <2>1 DEF IsLink, Fields
<1>3. (\A n : Departed(n)' <=> Departed(n)) /\ (\A n, w : Lease(n, w)' <=> Lease(n, w))
  BY EventsKept
<1>4. Signed(r)'
  BY <1>1, <1>3 DEF SameShell, Tracks, Signed, Given
<1>5. \A n : /\ Reported(r, n)' <=> Reported(k, n) \/ n \in gone
             /\ Leaves(k, n) <=> Leaves(r, n)
             /\ Waits(r, n) <=> Waits(k, n)
  BY <1>1, <1>3 DEF Reported, Waits, Leaves
<1>7. ASSUME NEW n
      PROVE  /\ n = shell.name /\ n # 0 => ~Reported(r, n)' /\ ~Leaves(r, n)
             /\ (\E w : Lease(n, w)') \/ Waits(r, n) => n \in r.known \/ Reported(r, n)'
             /\ n \in r.known /\ n # shell.name =>
                  Leaves(r, n) \/ Reported(r, n)' \/ n \in r.confirming \/ (r.first /\ Waits(r, n))
  <2>1. /\ n = shell.name /\ n # 0 => ~Reported(k, n) /\ ~Leaves(k, n)
        /\ (\E w : Lease(n, w)) \/ Waits(k, n) => n \in k.known \/ Reported(k, n)
        /\ n \in k.known /\ n # shell.name =>
             Leaves(k, n) \/ Reported(k, n) \/ n \in k.confirming \/ (k.first /\ Waits(k, n))
    BY DEF Tracks, Leaving
  <2> QED BY <1>1, <1>3, <1>5, <2>1
<1>8. Leaving(r)'
  BY <1>7 DEF SameShell, Leaving, Leaves, Waits
<1> QED BY <1>4, <1>8 DEF Tracks

(* The shell sends calls behind those there are.                              *)
LEMMA CallsTrack ==
  ASSUME NEW k, LinkOK(k), Tracks(k), UNCHANGED <<bus, events, daemon>>, shell'.name = shell.name,
         NEW q, k.calls # <<>> => q # <<>> /\ Head(q) = Head(k.calls),
         \A i \in DOMAIN q : /\ Given(q[i].name)
                             /\ q[i].name = shell.name => q[i].lifetime <= shell'.lifetime,
         NEW r, r = [k EXCEPT !.calls = q]
  PROVE  Tracks(r)'
<1>1. /\ r.calls = q /\ r.begun = k.begun /\ r.first = k.first
      /\ r.known = k.known /\ r.departures = k.departures
      /\ r.forwarding = k.forwarding /\ r.confirming = k.confirming /\ r.reporting = k.reporting
  <2>1. IsLink(k)
    BY DEF LinkOK
  <2> QED BY <2>1 DEF IsLink, Fields
<1>3. (\A n : Departed(n)' <=> Departed(n)) /\ (\A n, w : Lease(n, w)' <=> Lease(n, w))
  BY EventsKept
<1>4. Signed(r)'
  BY <1>1, <1>3 DEF Tracks, Signed, Given
<1>5. \A n : /\ Reported(r, n)' <=> Reported(k, n)
             /\ Leaves(k, n) <=> Leaves(r, n)
             /\ Waits(r, n) <=> Waits(k, n)
  BY <1>1, <1>3 DEF Reported, Waits, Leaves, LinkOK
<1>7. ASSUME NEW n
      PROVE  /\ n = shell.name /\ n # 0 => ~Reported(r, n)' /\ ~Leaves(r, n)
             /\ (\E w : Lease(n, w)') \/ Waits(r, n) => n \in r.known \/ Reported(r, n)'
             /\ n \in r.known /\ n # shell.name =>
                  Leaves(r, n) \/ Reported(r, n)' \/ n \in r.confirming \/ (r.first /\ Waits(r, n))
  <2>1. /\ n = shell.name /\ n # 0 => ~Reported(k, n) /\ ~Leaves(k, n)
        /\ (\E w : Lease(n, w)) \/ Waits(k, n) => n \in k.known \/ Reported(k, n)
        /\ n \in k.known /\ n # shell.name =>
             Leaves(k, n) \/ Reported(k, n) \/ n \in k.confirming \/ (k.first /\ Waits(k, n))
    BY DEF Tracks, Leaving
  <2> QED BY <1>1, <1>3, <1>5, <2>1
<1>8. Leaving(r)'
  BY <1>7 DEF SameShell, Leaving, Leaves, Waits
<1> QED BY <1>4, <1>8 DEF Tracks

-----------------------------------------------------------------------------
(* The shell and its widgets.                                                 *)

Flags ==
  [alive : BOOLEAN, presented : BOOLEAN, running : BOOLEAN, known : BOOLEAN, active : BOOLEAN]

WidgetsOK(ws) == ws \in [Widget -> Flags] /\ \A w \in Widget : ws[w].presented => ws[w].alive

(* A reply is one to a call of this shell.                                    *)
ReplyOK(m, sh) ==
  /\ m.ok \in BOOLEAN
  /\ m.call.kind \in {"Present", "Dismiss"} /\ m.call.widget \in Widget
  /\ m.call.lifetime \in Nat \ {0} /\ m.call.lifetime <= sh.lifetime /\ m.call.name = sh.name

ShellOK(sh) ==
  /\ sh.lifetime \in Nat \ {0}
  /\ sh.name = 0 => sh.inbox = <<>>
  /\ \A i \in DOMAIN sh.inbox : sh.inbox[i].kind = "Reply" => ReplyOK(sh.inbox[i], sh)

Desk ==
  /\ bus.names \in Nat /\ shell.name \in 0..bus.names
  /\ ShellOK(shell) /\ WidgetsOK(widgets)
  /\ shell.name = 0 => \A w \in Widget : ~widgets[w].presented

(* The calls on their way to the daemon that owns the name.                   *)
Queue(x) == x.connections[bus.owner].calls

(* What a reaction may do to the connections: calls are put behind those      *)
(* there are.                                                                 *)
Rooted(x) ==
  /\ x.shell.name = shell.name
  /\ \A e \in Epoch \ {bus.owner} : x.connections[e] = service.connections[e]
  /\ bus.owner # 0 =>
       LET k == service.connections[bus.owner]
       IN  /\ x.connections[bus.owner] = [k EXCEPT !.calls = Queue(x)]
           /\ \A i \in DOMAIN Queue(x) :
                /\ CallOK(Queue(x)[i]) /\ Given(Queue(x)[i].name)
                /\ Queue(x)[i].name = shell.name => Queue(x)[i].lifetime <= x.shell.lifetime
           /\ k.calls # <<>> => Queue(x) # <<>> /\ Head(Queue(x)) = Head(k.calls)

Typed(x) == Wired(x) /\ WidgetsOK(x.widgets) /\ ShellOK(x.shell) /\ Rooted(x)

(* A shell with a name the bus gave it acts.                                  *)
Acting == bus.owner \in Epoch \cup {0} /\ 0 \notin Epoch /\ Given(shell.name) /\ shell.name # 0

(* A reply is put behind what the shell has to read.                          *)
LEMMA ToldReply ==
  ASSUME NEW sh, Knows(sh), ShellOK(sh), sh.name # 0, NEW m, m.kind = "Reply" => ReplyOK(m, sh), m.kind \in Kinds
  PROVE  LET u == Tell(sh, m)
         IN  /\ Knows(u) /\ ShellOK(u) /\ u.name = sh.name /\ u.lifetime = sh.lifetime
             /\ u.registered = sh.registered /\ u.inbox = Append(sh.inbox, m)
             /\ u.overtaken = sh.overtaken
<1> DEFINE q == sh.inbox
           r == Append(q, m)
           u == [sh EXCEPT !.inbox = r]
<1>1. u = Tell(sh, m)
  BY DEF Tell
<1>2. /\ DOMAIN q = 1..Len(q) /\ DOMAIN r = 1..(Len(q) + 1) /\ Len(q) \in Nat
      /\ \A i \in DOMAIN q : r[i] = q[i]
      /\ r[Len(q) + 1] = m
  BY Appended DEF Knows
<1>3. \A i \in DOMAIN r : r[i] = m \/ (i \in DOMAIN q /\ r[i] = q[i])
  BY <1>2
<1> HIDE DEF r
<1>4. /\ u.inbox = r /\ u.name = sh.name /\ u.lifetime = sh.lifetime
      /\ u.registered = sh.registered /\ u.overtaken = sh.overtaken
  BY DEF Knows
<1>5. Knows(u)
  <2>1. Knows(Tell(sh, m))
    BY TellKnows
  <2> QED BY <1>1, <2>1
<1> HIDE DEF u
<1>6. \A i \in DOMAIN r : r[i].kind = "Reply" => ReplyOK(r[i], u)
  <2>1. ASSUME NEW i \in DOMAIN r, r[i].kind = "Reply"
        PROVE  ReplyOK(r[i], sh)
    BY <1>3, <2>1 DEF ShellOK
  <2> QED BY <1>4, <2>1 DEF ReplyOK
<1>7. ShellOK(u)
  BY <1>4, <1>6 DEF ShellOK
<1> QED BY <1>1, <1>4, <1>5, <1>7 DEF r

(* A call is sent by the shell, or fails at once.                             *)
LEMMA SendTyped ==
  ASSUME Acting, NEW x, Typed(x), NEW c, CallOK(c), c.name = x.shell.name, c.lifetime <= x.shell.lifetime
  PROVE  LET y == Send(x, c)
         IN  /\ Typed(y) /\ y.widgets = x.widgets
             /\ y.shell.registered = x.shell.registered /\ y.shell.lifetime = x.shell.lifetime
             /\ bus.owner # 0 => y.shell = x.shell /\ Queue(y) = Append(Queue(x), c)
<1>0. Wired(Send(x, c))
  BY SendReacts DEF Acting, Typed, Reacts
<1>1. CASE bus.owner # 0
  <2> DEFINE o == bus.owner
             q == x.connections[o].calls
             r == Append(q, c)
             k == [x.connections[o] EXCEPT !.calls = r]
             conns == [x.connections EXCEPT ![o] = k]
             y == [x EXCEPT !.connections = conns]
  <2>1. y = Send(x, c)
    <3>1. conns = [x.connections EXCEPT ![o].calls = r]
      OBVIOUS
    <3>2. conns = Routed(x.connections, c)
      BY <1>1, <3>1 DEF Routed
    <3> QED BY <1>1, <3>2 DEF Send
  <2>2. Linked(x.connections) /\ o \in Epoch
    BY <1>1 DEF Acting, Typed, Wired
  <2>3. /\ Sequenced(q) /\ r # <<>> /\ Sequenced(r)
        /\ Len(q) \in Nat /\ DOMAIN q = 1..Len(q) /\ DOMAIN r = 1..(Len(q) + 1)
        /\ \A i \in DOMAIN q : r[i] = q[i]
        /\ r[Len(q) + 1] = c
    BY <2>2, Appended DEF Linked
  <2>4. q # <<>> => Head(r) = Head(q)
    <3> SUFFICES ASSUME q # <<>> PROVE Head(r) = Head(q)
      OBVIOUS
    <3>1. Head(q) = q[1] /\ 1 \in DOMAIN q
      BY <2>3, Taken
    <3>2. Head(r) = r[1]
      <4> HIDE DEF r
      <4> QED BY <2>3, Taken
    <3> QED BY <2>3, <3>1, <3>2
  <2>5. \A i \in DOMAIN r : r[i] = c \/ (i \in DOMAIN q /\ r[i] = q[i])
    BY <2>3
  <2> HIDE DEF r
  <2>6. /\ k.calls = r /\ DOMAIN conns = Epoch /\ conns[o] = k
        /\ \A e \in Epoch \ {o} : conns[e] = x.connections[e]
    BY <2>2 DEF Linked
  <2>7. k = [service.connections[o] EXCEPT !.calls = r]
    <3>1. x.connections[o] = [service.connections[o] EXCEPT !.calls = Queue(x)]
      BY <1>1 DEF Typed, Rooted
    <3> QED BY <3>1
  <2> HIDE DEF k, q
  <2> HIDE DEF conns
  <2>9. /\ y.shell = x.shell /\ y.widgets = x.widgets /\ y.connections = conns
    BY DEF Typed, Wired
  <2> HIDE DEF y
  <2>10. Rooted(y)
    <3>1. \A i \in DOMAIN q : /\ CallOK(q[i]) /\ Given(q[i].name)
                              /\ q[i].name = shell.name => q[i].lifetime <= x.shell.lifetime
      BY <1>1 DEF Typed, Rooted, Queue, q
    <3>2. Given(c.name)
      BY DEF Acting, Typed, Rooted
    <3>3. Queue(y) = r
      BY <2>6, <2>9 DEF Queue
    <3>4. \A i \in DOMAIN r : /\ CallOK(r[i]) /\ Given(r[i].name)
                              /\ r[i].name = shell.name => r[i].lifetime <= x.shell.lifetime
      BY <2>5, <3>1, <3>2
    <3>5. service.connections[o].calls # <<>> => r # <<>> /\ Head(r) = Head(service.connections[o].calls)
      BY <1>1, <2>3, <2>4 DEF Typed, Rooted, Queue, q
    <3>6. x.shell.name = shell.name /\ \A e \in Epoch \ {o} : conns[e] = service.connections[e]
      BY <2>6 DEF Typed, Rooted
    <3> QED BY <2>6, <2>7, <2>9, <3>3, <3>4, <3>5, <3>6 DEF Rooted
  <2>11. Typed(y)
    BY <1>0, <2>1, <2>9, <2>10 DEF Typed
  <2>12. Queue(y) = r
    BY <2>6, <2>9 DEF Queue
  <2> QED BY <2>1, <2>9, <2>11, <2>12 DEF Queue, r, q
<1>2. CASE bus.owner = 0
  <2> DEFINE m  == ErrorReply(c)
             sh == Tell(x.shell, m)
             y  == [x EXCEPT !.shell = sh]
  <2>1. Send(x, c) = IF Tracked(c) THEN y ELSE x
    BY <1>2 DEF Send
  <2>2. CASE ~Tracked(c)
    BY <1>0, <1>2, <2>1, <2>2
  <2>3. CASE Tracked(c)
    <3>1. m.kind = "Reply" /\ ReplyOK(m, x.shell)
      BY <2>3 DEF ErrorReply, ReplyOK, CallOK, Tracked
    <3> HIDE DEF m
    <3>2. x.shell.name # 0 /\ Knows(x.shell) /\ ShellOK(x.shell) /\ m.kind \in Kinds
      BY <3>1 DEF Acting, Typed, Rooted, Wired, Kinds
    <3>3. /\ ShellOK(sh) /\ sh.name = x.shell.name /\ sh.lifetime = x.shell.lifetime
          /\ sh.registered = x.shell.registered
      BY <3>1, <3>2, ToldReply
    <3> HIDE DEF sh
    <3>8. y.shell = sh /\ y.widgets = x.widgets /\ y.connections = x.connections
      BY DEF Typed, Wired
    <3> HIDE DEF y
    <3>9. Rooted(y)
      BY <1>2, <3>3, <3>8 DEF Typed, Rooted
    <3> QED BY <1>0, <1>2, <2>1, <2>3, <3>3, <3>8, <3>9 DEF Typed
  <2> QED BY <2>2, <2>3
<1> QED BY <1>1, <1>2

(* A widget changes, no more.                                                 *)
LEMMA WidgetTyped ==
  ASSUME NEW x, Typed(x), NEW f, WidgetsOK(f)
  PROVE  LET y == [x EXCEPT !.widgets = f]
         IN  Typed(y) /\ y.widgets = f /\ y.shell = x.shell /\ y.connections = x.connections /\ Queue(y) = Queue(x)
<1> DEFINE y == [x EXCEPT !.widgets = f]
<1>1. /\ y.widgets = f /\ y.shell = x.shell /\ y.connections = x.connections
      /\ {"shell", "widgets", "connections"} \subseteq DOMAIN y
  BY DEF Typed, Wired
<1> HIDE DEF y
<1>2. Wired(y) /\ Queue(y) = Queue(x)
  BY <1>1 DEF Typed, Wired, Queue
<1>3. Rooted(y)
  BY <1>1, <1>2 DEF Typed, Rooted
<1> QED BY <1>1, <1>2, <1>3 DEF Typed, y

(* What a drain comes to.                                                     *)
LEMMA DrainCases ==
  ASSUME NEW x, NEW w
  PROVE  LET v == x.widgets[w]
             c == Call(x, IF v.presented THEN "Present" ELSE "Dismiss", w)
             idle == ~v.alive \/ v.running \/ (v.known /\ v.active = v.presented)
         IN  /\ idle => DrainLease(x, w) = x
             /\ ~idle /\ ~x.shell.registered =>
                  DrainLease(x, w) = [x EXCEPT !.widgets = [x.widgets EXCEPT ![w] = [v EXCEPT !.known = FALSE]]]
             /\ ~idle /\ x.shell.registered =>
                  DrainLease(x, w)
                    = Send([x EXCEPT !.widgets = [x.widgets EXCEPT ![w] = [v EXCEPT !.running = TRUE]]], c)
BY DEF DrainLease, Call

-----------------------------------------------------------------------------
(* What the widgets intend, and what is on its way of it.                     *)

(* The daemon will hold the lease once calls q and all events are handled.    *)
Predict(n, q, w) == Holds(q, Lease(n, w), n, w)

(* A loss is followed by the news of another connection.                      *)
News(sh) ==
  \A i \in DOMAIN sh.inbox :
    sh.inbox[i].kind = "Lost" => \E j \in DOMAIN sh.inbox : j > i /\ sh.inbox[j].kind = "Registered"

Unasked(sh, q, w) == None(sh.inbox, sh.name, w, sh.lifetime) /\ None(q, sh.name, w, sh.lifetime)

Awaits(sh, q, w, kind) ==
  \/ One(sh.inbox, kind, sh.name, w, sh.lifetime) /\ None(q, sh.name, w, sh.lifetime)
  \/ None(sh.inbox, sh.name, w, sh.lifetime) /\ One(q, kind, sh.name, w, sh.lifetime)

(* What will be held is what the widget presents; but a lease may be held     *)
(* that is not wanted if the widget was used too early.                       *)
Granted(sh, v, q, w) ==
  /\ v.presented => Predict(sh.name, q, w)
  /\ Predict(sh.name, q, w) => v.presented \/ w \in sh.overtaken

(* A widget that runs has one call or reply on its way, which says what will  *)
(* be held; one that does not has what it presents.                           *)
Fine(sh, v, q, w) ==
  /\ ~v.alive => ~Predict(sh.name, q, w)
  /\ v.alive /\ v.running =>
       \E kind \in {"Present", "Dismiss"} :
         (Predict(sh.name, q, w) <=> kind = "Present") /\ Awaits(sh, q, w, kind)
  /\ v.alive /\ ~v.running =>
       /\ v.known /\ v.active = v.presented
       /\ Granted(sh, v, q, w)
       /\ Unasked(sh, q, w)

(* A widget that may be drained.                                              *)
Ready(sh, v, q, w) ==
  /\ ~v.alive => ~Predict(sh.name, q, w)
  /\ v.alive =>
       /\ ~v.running /\ Unasked(sh, q, w)
       /\ v.active = v.presented => Granted(sh, v, q, w)

Wanted(sh, v, q, w) ==
  Predict(sh.name, q, w) => v.presented \/ (v.alive /\ w \in sh.overtaken)

(* No call of this registration has failed.                                   *)
Confirmed(sh) ==
  \A i \in DOMAIN sh.inbox :
    sh.inbox[i].kind = "Reply" /\ sh.inbox[i].call.lifetime = sh.lifetime => sh.inbox[i].ok

(* Before a registration is read a lease is wanted or was asked for too       *)
(* early; afterwards every widget is fine.                                    *)
Intents(sh, ws, q) ==
  IF Noticed(sh.inbox) THEN \A w \in Widget : Wanted(sh, ws[w], q, w)
  ELSE sh.registered /\ Confirmed(sh) /\ \A w \in Widget : Fine(sh, ws[w], q, w)

(* A call that is none about widget w.                                        *)
Elsewhere(c, n, w) ==
  /\ c.kind \in {"GetAll", "StepPage", "Present", "Dismiss"}
  /\ ~(c.kind \in {"Present", "Dismiss"} /\ c.name = n /\ c.widget = w)

(* A call elsewhere changes nothing of the widget.                            *)
LEMMA QueueFrame ==
  ASSUME NEW q, Sequenced(q), NEW c, NEW n, NEW w, Elsewhere(c, n, w)
  PROVE  LET r == Append(q, c)
         IN  /\ Predict(n, r, w) <=> Predict(n, q, w)
             /\ \A lifetime : None(r, n, w, lifetime) <=> None(q, n, w, lifetime)
             /\ \A lifetime, kind : One(r, kind, n, w, lifetime) <=> One(q, kind, n, w, lifetime)
<1> DEFINE r == Append(q, c)
           held == Lease(n, w)
<1>1. ~Ends(c, n, w) /\ \A lifetime : ~About(c, n, w, lifetime)
  BY DEF Elsewhere, Ends, About, Subject
<1> HIDE DEF held
<1>2. Holds(r, held, n, w) <=> Holds(q, held, n, w)
  BY <1>1, HoldsAppend
<1>3. ASSUME NEW lifetime
      PROVE  /\ None(r, n, w, lifetime) <=> None(q, n, w, lifetime)
             /\ \A kind : One(r, kind, n, w, lifetime) <=> One(q, kind, n, w, lifetime)
  BY <1>1, AboutAppend
<1> QED BY <1>2, <1>3 DEF Predict, held

(* Widgets that a call is not about stay as they are.                         *)
LEMMA FineFrame ==
  ASSUME NEW sh, NEW q, Sequenced(q), NEW c, NEW w, Elsewhere(c, sh.name, w), NEW v
  PROVE  LET r == Append(q, c)
         IN  /\ Fine(sh, v, q, w) <=> Fine(sh, v, r, w)
             /\ Unasked(sh, q, w) <=> Unasked(sh, r, w)
             /\ Wanted(sh, v, q, w) <=> Wanted(sh, v, r, w)
<1> DEFINE r == Append(q, c)
<1>1. /\ Predict(sh.name, r, w) <=> Predict(sh.name, q, w)
      /\ \A lifetime : None(r, sh.name, w, lifetime) <=> None(q, sh.name, w, lifetime)
      /\ \A lifetime, kind : One(r, kind, sh.name, w, lifetime) <=> One(q, kind, sh.name, w, lifetime)
  BY QueueFrame
<1> HIDE DEF r
<1>2. /\ Unasked(sh, q, w) <=> Unasked(sh, r, w)
      /\ \A kind : Awaits(sh, q, w, kind) <=> Awaits(sh, r, w, kind)
  BY <1>1 DEF Unasked, Awaits
<1> QED BY <1>1, <1>2 DEF Fine, Granted, Wanted, r

(* Which widgets were used too early matters to those widgets alone.          *)
LEMMA OvertakenFrame ==
  ASSUME NEW sh, NEW t, t.name = sh.name, t.inbox = sh.inbox, t.lifetime = sh.lifetime,
         NEW v, NEW q, NEW w
  PROVE  /\ ShellOK(sh) => ShellOK(t)
         /\ News(sh) => News(t)
         /\ Confirmed(sh) => Confirmed(t)
         /\ (w \in sh.overtaken <=> w \in t.overtaken) /\ Fine(sh, v, q, w) => Fine(t, v, q, w)
         /\ (w \in sh.overtaken => w \in t.overtaken) /\ Wanted(sh, v, q, w) => Wanted(t, v, q, w)
<1>1. ShellOK(sh) => ShellOK(t)
  BY DEF ShellOK, ReplyOK
<1>2. (News(sh) => News(t)) /\ (Confirmed(sh) => Confirmed(t))
  BY DEF News, Confirmed
<1>3. /\ Unasked(sh, q, w) <=> Unasked(t, q, w)
      /\ \A kind : Awaits(sh, q, w, kind) <=> Awaits(t, q, w, kind)
  BY DEF Unasked, Awaits
<1>4. (w \in sh.overtaken <=> w \in t.overtaken) /\ Fine(sh, v, q, w) => Fine(t, v, q, w)
  BY <1>3 DEF Fine, Granted
<1>5. (w \in sh.overtaken => w \in t.overtaken) /\ Wanted(sh, v, q, w) => Wanted(t, v, q, w)
  BY DEF Wanted
<1> QED BY <1>1, <1>2, <1>4, <1>5

(* A call about widget w says what will be held.                              *)
LEMMA CallPredicts ==
  ASSUME NEW q, Sequenced(q), NEW c, c.kind \in {"Present", "Dismiss"}
  PROVE  LET r == Append(q, c)
         IN  /\ Predict(c.name, r, c.widget) <=> c.kind = "Present"
             /\ None(q, c.name, c.widget, c.lifetime) => One(r, c.kind, c.name, c.widget, c.lifetime)
<1> DEFINE held == Lease(c.name, c.widget)
           r == Append(q, c)
<1>1. Ends(c, c.name, c.widget) /\ About(c, c.name, c.widget, c.lifetime) /\ Subject(c).kind = c.kind
  BY DEF Ends, About, Subject
<1> HIDE DEF held
<1>2. Holds(r, held, c.name, c.widget) <=> c.kind = "Present"
  BY <1>1, HoldsAppend
<1>3. None(q, c.name, c.widget, c.lifetime) => One(r, c.kind, c.name, c.widget, c.lifetime)
  BY <1>1, AboutAppend
<1> QED BY <1>2, <1>3 DEF Predict, held

-----------------------------------------------------------------------------
(* The reactions of the widgets.                                              *)

(* The calls of the owner stay a sequence.                                    *)
LEMMA QueueSequenced ==
  ASSUME Acting, bus.owner # 0, NEW x, Typed(x)
  PROVE  Sequenced(Queue(x))
BY DEF Acting, Typed, Wired, Linked, Queue

(* A drain leaves the types and what the shell knows.                         *)
LEMMA DrainTyped ==
  ASSUME Acting, NEW x, Typed(x), NEW w \in Widget, NEW y, y = DrainLease(x, w)
  PROVE  /\ Typed(y) /\ y.shell.registered = x.shell.registered /\ y.shell.lifetime = x.shell.lifetime
         /\ bus.owner # 0 => y.shell = x.shell
<1> DEFINE v == x.widgets[w]
           c == Call(x, IF v.presented THEN "Present" ELSE "Dismiss", w)
           unknown == [x.widgets EXCEPT ![w] = [v EXCEPT !.known = FALSE]]
           runs == [x.widgets EXCEPT ![w] = [v EXCEPT !.running = TRUE]]
           running == [x EXCEPT !.widgets = runs]
<1>1. WidgetsOK(x.widgets) /\ v \in Flags
  BY DEF Typed, WidgetsOK
<1>2. WidgetsOK(unknown) /\ WidgetsOK(runs)
  BY <1>1 DEF WidgetsOK, Flags
<1>3. CallOK(c) /\ c.name = x.shell.name /\ c.lifetime = x.shell.lifetime
  BY DEF CallOK, Call, Typed, ShellOK
<1>4. x.shell.lifetime \in Nat
  BY DEF Typed, ShellOK
<1>5. y \in {x, [x EXCEPT !.widgets = unknown], Send(running, c)}
  BY DrainCases
<1> HIDE DEF unknown, runs, c
<1>6. Typed([x EXCEPT !.widgets = unknown]) /\ [x EXCEPT !.widgets = unknown].shell = x.shell
  BY <1>2, WidgetTyped
<1>7. Typed(running) /\ running.shell = x.shell
  BY <1>2, WidgetTyped
<1> HIDE DEF running
<1>8. /\ Typed(Send(running, c)) /\ Send(running, c).shell.registered = x.shell.registered
      /\ Send(running, c).shell.lifetime = x.shell.lifetime
      /\ bus.owner # 0 => Send(running, c).shell = x.shell
  BY <1>3, <1>4, <1>7, SendTyped
<1> QED BY <1>5, <1>6, <1>8

(* A call of widget w: the others stay as they are, and what will be held of  *)
(* w is what is sent.                                                         *)
LEMMA CallEffect ==
  ASSUME Acting, bus.owner # 0, NEW x, Typed(x), NEW w \in Widget, NEW ws, WidgetsOK(ws),
         NEW c, c.kind \in {"Present", "Dismiss"}, c.name = x.shell.name, c.widget = w,
         c.lifetime \in Nat, c.lifetime <= x.shell.lifetime,
         \A u \in Widget \ {w} : ws[u] = x.widgets[u],
         NEW y, y = Send([x EXCEPT !.widgets = ws], c)
  PROVE  /\ Typed(y) /\ y.shell = x.shell /\ y.widgets = ws
         /\ \A u \in Widget \ {w} :
              /\ Fine(x.shell, x.widgets[u], Queue(x), u) <=> Fine(y.shell, y.widgets[u], Queue(y), u)
              /\ Wanted(x.shell, x.widgets[u], Queue(x), u) <=> Wanted(y.shell, y.widgets[u], Queue(y), u)
              /\ Unasked(x.shell, Queue(x), u) <=> Unasked(y.shell, Queue(y), u)
         /\ Predict(y.shell.name, Queue(y), w) <=> c.kind = "Present"
         /\ c.lifetime = x.shell.lifetime /\ Unasked(x.shell, Queue(x), w) => Awaits(y.shell, Queue(y), w, c.kind)
<1> DEFINE z == [x EXCEPT !.widgets = ws]
           q == Queue(x)
           r == Append(q, c)
           sh == x.shell
<1>1. Typed(z) /\ z.widgets = ws /\ z.shell = x.shell /\ Queue(z) = q
  BY WidgetTyped
<1>2. CallOK(c) /\ y = Send(z, c)
  BY DEF CallOK
<1> HIDE DEF z
<1>3. Typed(y) /\ y.widgets = ws /\ y.shell = sh /\ Queue(y) = r
  <2>1. c.name = z.shell.name /\ c.lifetime <= z.shell.lifetime
    BY <1>1
  <2>2. /\ Typed(Send(z, c)) /\ Send(z, c).widgets = z.widgets /\ Send(z, c).shell = z.shell
        /\ Queue(Send(z, c)) = Append(Queue(z), c)
    BY <1>1, <1>2, <2>1, SendTyped
  <2> QED BY <1>1, <1>2, <2>2
<1>4. Sequenced(q)
  BY QueueSequenced
<1> HIDE DEF q
<1>5. /\ Predict(sh.name, r, w) <=> c.kind = "Present"
      /\ None(q, sh.name, w, c.lifetime) => One(r, c.kind, sh.name, w, c.lifetime)
  BY <1>4, CallPredicts
<1>6. ASSUME NEW u \in Widget \ {w}
      PROVE  /\ Fine(sh, x.widgets[u], q, u) <=> Fine(sh, ws[u], r, u)
             /\ Wanted(sh, x.widgets[u], q, u) <=> Wanted(sh, ws[u], r, u)
             /\ Unasked(sh, q, u) <=> Unasked(sh, r, u)
  <2>1. Elsewhere(c, sh.name, u) /\ ws[u] = x.widgets[u]
    BY DEF Elsewhere
  <2> QED BY <1>4, <2>1, FineFrame
<1>7. c.lifetime = sh.lifetime /\ Unasked(sh, q, w) => Awaits(sh, r, w, c.kind)
  BY <1>5 DEF Unasked, Awaits
<1> HIDE DEF r, sh
<1> QED BY <1>3, <1>5, <1>6, <1>7 DEF q, sh

(* drain: what is wanted stays wanted, and a widget that was ready is fine.   *)
LEMMA DrainKeeps ==
  ASSUME Acting, bus.owner # 0, NEW x, Typed(x), NEW w \in Widget, NEW y, y = DrainLease(x, w)
  PROVE  /\ Typed(y) /\ y.shell = x.shell
         /\ \A u \in Widget \ {w} :
              /\ Fine(x.shell, x.widgets[u], Queue(x), u) => Fine(y.shell, y.widgets[u], Queue(y), u)
              /\ Unasked(x.shell, Queue(x), u) => Unasked(y.shell, Queue(y), u)
         /\ \A u \in Widget :
              Wanted(x.shell, x.widgets[u], Queue(x), u) => Wanted(y.shell, y.widgets[u], Queue(y), u)
         /\ \A u \in Widget : /\ y.widgets[u].presented = x.widgets[u].presented
                              /\ y.widgets[u].alive = x.widgets[u].alive
         /\ x.shell.registered /\ Ready(x.shell, x.widgets[w], Queue(x), w)
              => Fine(y.shell, y.widgets[w], Queue(y), w)
<1> DEFINE v == x.widgets[w]
           c == Call(x, IF v.presented THEN "Present" ELSE "Dismiss", w)
           unknown == [x.widgets EXCEPT ![w] = [v EXCEPT !.known = FALSE]]
           runs == [x.widgets EXCEPT ![w] = [v EXCEPT !.running = TRUE]]
           idle == ~v.alive \/ v.running \/ (v.known /\ v.active = v.presented)
<1>1. WidgetsOK(x.widgets) /\ v \in Flags /\ x.widgets \in [Widget -> Flags]
  BY DEF Typed, WidgetsOK
<1>2. Typed(y) /\ y.shell = x.shell
  BY DrainTyped
<1>3. /\ idle => y = x
      /\ ~idle /\ ~x.shell.registered => y = [x EXCEPT !.widgets = unknown]
      /\ ~idle /\ x.shell.registered => y = Send([x EXCEPT !.widgets = runs], c)
  BY DrainCases
<1>4. /\ WidgetsOK(unknown) /\ WidgetsOK(runs)
      /\ \A u \in Widget \ {w} : unknown[u] = x.widgets[u] /\ runs[u] = x.widgets[u]
      /\ unknown[w].presented = v.presented /\ unknown[w].alive = v.alive
      /\ runs[w].presented = v.presented /\ runs[w].alive = v.alive /\ runs[w].running = TRUE
  BY <1>1 DEF WidgetsOK, Flags
<1>5. /\ c.kind = IF v.presented THEN "Present" ELSE "Dismiss"
      /\ c.name = x.shell.name /\ c.lifetime = x.shell.lifetime /\ c.widget = w
      /\ c.lifetime \in Nat /\ c.lifetime <= x.shell.lifetime
  BY DEF Call, Typed, ShellOK
<1> HIDE DEF c, unknown, runs
<1>6. CASE idle
  <2>1. y = x
    BY <1>3, <1>6
  <2>2. Ready(x.shell, v, Queue(x), w) => Fine(x.shell, v, Queue(x), w)
    BY <1>1, <1>6 DEF Ready, Fine, Granted, Flags
  <2> QED BY <1>2, <2>1, <2>2
<1>7. CASE ~idle /\ ~x.shell.registered
  <2>0. y = [x EXCEPT !.widgets = unknown]
    BY <1>3, <1>7
  <2>1. y.widgets = unknown /\ Queue(y) = Queue(x)
    BY <1>4, <2>0, WidgetTyped
  <2> HIDE DEF v
  <2>2. \A u \in Widget : /\ y.widgets[u].presented = x.widgets[u].presented
                          /\ y.widgets[u].alive = x.widgets[u].alive
    BY <1>4, <2>1 DEF v
  <2> QED BY <1>2, <1>4, <1>7, <2>1, <2>2 DEF Wanted
<1>8. CASE ~idle /\ x.shell.registered
  <2>0. c.kind \in {"Present", "Dismiss"} /\ y = Send([x EXCEPT !.widgets = runs], c)
    BY <1>3, <1>5, <1>8
  <2>1. /\ y.widgets = runs
        /\ \A u \in Widget \ {w} :
             /\ Fine(x.shell, x.widgets[u], Queue(x), u) <=> Fine(y.shell, y.widgets[u], Queue(y), u)
             /\ Wanted(x.shell, x.widgets[u], Queue(x), u) <=> Wanted(y.shell, y.widgets[u], Queue(y), u)
             /\ Unasked(x.shell, Queue(x), u) <=> Unasked(y.shell, Queue(y), u)
        /\ Predict(y.shell.name, Queue(y), w) <=> c.kind = "Present"
        /\ Unasked(x.shell, Queue(x), w) => Awaits(y.shell, Queue(y), w, c.kind)
    BY <1>4, <1>5, <2>0, CallEffect
  <2>2. Wanted(y.shell, y.widgets[w], Queue(y), w)
    BY <1>4, <1>5, <2>1 DEF Wanted
  <2>3. Ready(x.shell, v, Queue(x), w) => Fine(y.shell, y.widgets[w], Queue(y), w)
    <3> SUFFICES ASSUME Ready(x.shell, v, Queue(x), w) PROVE Fine(y.shell, y.widgets[w], Queue(y), w)
      OBVIOUS
    <3>1. v.alive /\ Unasked(x.shell, Queue(x), w)
      BY <1>8 DEF Ready
    <3>2. y.widgets[w].alive = v.alive /\ y.widgets[w].running = TRUE
      BY <1>4, <2>1
    <3>3. (Predict(y.shell.name, Queue(y), w) <=> c.kind = "Present") /\ Awaits(y.shell, Queue(y), w, c.kind)
      BY <2>1, <3>1
    <3> HIDE DEF v
    <3> QED BY <2>0, <3>1, <3>2, <3>3 DEF Fine
  <2>4. \A u \in Widget : /\ y.widgets[u].presented = x.widgets[u].presented
                          /\ y.widgets[u].alive = x.widgets[u].alive
    BY <1>4, <2>1
  <2> QED BY <1>2, <2>1, <2>2, <2>3, <2>4
<1> QED BY <1>6, <1>7, <1>8

-----------------------------------------------------------------------------
(* A widget changes: the types stay.                                          *)
LEMMA WidgetSet ==
  ASSUME NEW ws, WidgetsOK(ws), NEW w \in Widget, NEW v \in Flags, v.presented => v.alive
  PROVE  LET f == [ws EXCEPT ![w] = v]
         IN  WidgetsOK(f) /\ f[w] = v /\ \A u \in Widget \ {w} : f[u] = ws[u]
BY DEF WidgetsOK

(* The widget of a reply, and what it becomes.                                *)
Answers(x, m, f) ==
  LET w == m.call.widget
  IN  /\ w \in Widget /\ WidgetsOK(f) /\ \A u \in Widget \ {w} : f[u] = x.widgets[u]
      /\ ~f[w].running /\ f[w].presented = x.widgets[w].presented /\ f[w].alive = x.widgets[w].alive
      /\ m.ok => f[w].known /\ (f[w].active = (m.call.kind = "Present"))

(* What a reply comes to: nothing, a settled widget, or one that is drained.  *)
LEMMA SettledCases ==
  ASSUME NEW x, Typed(x), NEW m, ReplyOK(m, x.shell)
  PROVE  \E f : LET z == [x EXCEPT !.widgets = f]
                    w == m.call.widget
                IN  /\ Answers(x, m, f)
                    /\ m.call.lifetime # x.shell.lifetime => Settled(x, m) = x
                    /\ m.call.lifetime = x.shell.lifetime => Settled(x, m) \in {z, DrainLease(z, w)}
                    /\ m.call.lifetime = x.shell.lifetime /\ m.ok => Settled(x, m) = DrainLease(z, w)
<1> DEFINE w == m.call.widget
           intent == m.call.kind = "Present"
           old == x.widgets[w]
           active == IF m.ok THEN intent ELSE old.active
           v == [old EXCEPT !.running = FALSE, !.known = m.ok, !.active = active]
           f == [x.widgets EXCEPT ![w] = v]
           z == [x EXCEPT !.widgets = f]
<1>1. w \in Widget /\ m.ok \in BOOLEAN /\ WidgetsOK(x.widgets) /\ old \in Flags /\ (old.presented => old.alive)
  BY DEF ReplyOK, Typed, WidgetsOK
<1>2. active \in BOOLEAN /\ (m.ok => active = intent)
  BY <1>1 DEF Flags
<1>3. Settled(x, m) = IF m.call.lifetime # x.shell.lifetime THEN x
                      ELSE IF m.ok \/ x.widgets[m.call.widget].presented # intent THEN DrainLease(z, w) ELSE z
  BY DEF Settled
<1> HIDE DEF active, old
<1>4. /\ v \in Flags /\ v.running = FALSE /\ v.presented = old.presented /\ v.alive = old.alive
      /\ v.known = m.ok /\ v.active = active
  BY <1>1, <1>2 DEF Flags
<1> HIDE DEF v
<1>5. WidgetsOK(f) /\ f[w] = v /\ \A u \in Widget \ {w} : f[u] = x.widgets[u]
  BY <1>1, <1>4, WidgetSet
<1> HIDE DEF f
<1>6. /\ m.call.lifetime # x.shell.lifetime => Settled(x, m) = x
      /\ m.call.lifetime = x.shell.lifetime => Settled(x, m) \in {z, DrainLease(z, w)}
      /\ m.call.lifetime = x.shell.lifetime /\ m.ok => Settled(x, m) = DrainLease(z, w)
  BY <1>3
<1>7. Answers(x, m, f)
  BY <1>1, <1>2, <1>4, <1>5 DEF Answers, old
<1> HIDE DEF intent
<1> QED BY <1>6, <1>7

(* A reply keeps the types.                                                   *)
LEMMA SettledTyped ==
  ASSUME Acting, NEW x, Typed(x), NEW m, ReplyOK(m, x.shell), NEW y, y = Settled(x, m)
  PROVE  Typed(y)
<1> DEFINE w == m.call.widget
<1>1. PICK f : Answers(x, m, f) /\ y \in {x, [x EXCEPT !.widgets = f], DrainLease([x EXCEPT !.widgets = f], w)}
  BY SettledCases
<1> DEFINE z == [x EXCEPT !.widgets = f]
<1>2. Typed(z) /\ w \in Widget
  BY <1>1, WidgetTyped DEF Answers
<1> HIDE DEF z, w
<1>3. Typed(DrainLease(z, w))
  BY <1>2, DrainTyped
<1> QED BY <1>1, <1>2, <1>3 DEF z

(* A reply: what is wanted stays wanted; if it is the one that was awaited,   *)
(* its widget is fine.                                                        *)
Replied(x, m, y) ==
  /\ y.shell = x.shell
  /\ m.call.lifetime # x.shell.lifetime => y = x
  /\ \A u \in Widget :
       Wanted(x.shell, x.widgets[u], Queue(x), u) => Wanted(y.shell, y.widgets[u], Queue(y), u)
  /\ m.ok /\ m.call.lifetime = x.shell.lifetime =>
       \A u \in Widget \ {m.call.widget} :
         Fine(x.shell, x.widgets[u], Queue(x), u) => Fine(y.shell, y.widgets[u], Queue(y), u)
  /\ LET w == m.call.widget
         h == Predict(x.shell.name, Queue(x), w)
     IN  /\ m.ok /\ m.call.lifetime = x.shell.lifetime /\ x.shell.registered
         /\ ~x.widgets[w].alive => ~h
         /\ x.widgets[w].alive => (h <=> m.call.kind = "Present") /\ Unasked(x.shell, Queue(x), w)
         => Fine(y.shell, y.widgets[w], Queue(y), w)

LEMMA SettledKeeps ==
  ASSUME Acting, bus.owner # 0, NEW x, Typed(x), NEW m, ReplyOK(m, x.shell), NEW y, y = Settled(x, m)
  PROVE  Replied(x, m, y)
<1> DEFINE w == m.call.widget
           h == Predict(x.shell.name, Queue(x), w)
<1>0. PICK f : LET z == [x EXCEPT !.widgets = f]
               IN  /\ Answers(x, m, f)
                   /\ m.call.lifetime # x.shell.lifetime => y = x
                   /\ m.call.lifetime = x.shell.lifetime => y \in {z, DrainLease(z, w)}
                   /\ m.call.lifetime = x.shell.lifetime /\ m.ok => y = DrainLease(z, w)
  BY SettledCases
<1> DEFINE z == [x EXCEPT !.widgets = f]
           v == f[w]
<1>1. /\ w \in Widget /\ WidgetsOK(f) /\ \A u \in Widget \ {w} : f[u] = x.widgets[u]
      /\ ~v.running /\ v.presented = x.widgets[w].presented /\ v.alive = x.widgets[w].alive
      /\ m.ok => v.known /\ (v.active = (m.call.kind = "Present"))
      /\ m.call.lifetime # x.shell.lifetime => y = x
      /\ m.call.lifetime = x.shell.lifetime => y \in {z, DrainLease(z, w)}
      /\ m.call.lifetime = x.shell.lifetime /\ m.ok => y = DrainLease(z, w)
  BY <1>0 DEF Answers
<1>2. Typed(z) /\ z.widgets = f /\ z.shell = x.shell /\ Queue(z) = Queue(x)
  BY <1>1, WidgetTyped
<1> HIDE DEF z
<1>3. \A u \in Widget : Wanted(x.shell, x.widgets[u], Queue(x), u) => Wanted(z.shell, z.widgets[u], Queue(z), u)
  <2>1. \A u \in Widget : /\ z.widgets[u].presented = x.widgets[u].presented
                          /\ z.widgets[u].alive = x.widgets[u].alive
    BY <1>1, <1>2
  <2> HIDE DEF h, w
  <2> QED BY <1>2, <2>1 DEF Wanted
<1>4. \A u \in Widget \ {w} : Fine(x.shell, x.widgets[u], Queue(x), u) => Fine(z.shell, z.widgets[u], Queue(z), u)
  BY <1>1, <1>2
<1>5. ASSUME NEW d, d = DrainLease(z, w)
      PROVE  /\ d.shell = z.shell
             /\ \A u \in Widget :
                  Wanted(z.shell, z.widgets[u], Queue(z), u) => Wanted(d.shell, d.widgets[u], Queue(d), u)
             /\ \A u \in Widget \ {w} :
                  Fine(z.shell, z.widgets[u], Queue(z), u) => Fine(d.shell, d.widgets[u], Queue(d), u)
             /\ z.shell.registered /\ Ready(z.shell, z.widgets[w], Queue(z), w)
                  => Fine(d.shell, d.widgets[w], Queue(d), w)
  <2> HIDE DEF h, w
  <2> QED BY <1>1, <1>2, <1>5, DrainKeeps
<1>6. ASSUME m.ok, m.call.lifetime = x.shell.lifetime, x.shell.registered,
             ~x.widgets[w].alive => ~h,
             x.widgets[w].alive => (h <=> m.call.kind = "Present") /\ Unasked(x.shell, Queue(x), w)
      PROVE  Fine(y.shell, y.widgets[w], Queue(y), w)
  <2>1. Predict(z.shell.name, Queue(z), w) <=> h
    BY <1>2
  <2> HIDE DEF h
  <2>2. Unasked(z.shell, Queue(z), w) <=> Unasked(x.shell, Queue(x), w)
    BY <1>2
  <2>3. z.widgets[w] = v
    BY <1>1, <1>2
  <2> HIDE DEF v, w
  <2>4. v.active = v.presented => (m.call.kind = "Present" <=> v.presented)
    BY <1>1, <1>6
  <2>5. Ready(z.shell, z.widgets[w], Queue(z), w)
    BY <1>1, <1>6, <2>1, <2>2, <2>3, <2>4 DEF Ready, Granted
  <2> QED BY <1>1, <1>2, <1>5, <1>6, <2>5
<1>7. CASE m.call.lifetime # x.shell.lifetime
  BY <1>1, <1>7 DEF Replied
<1>8. CASE m.call.lifetime = x.shell.lifetime
  <2>1. y \in {z, DrainLease(z, w)} /\ (m.ok => y = DrainLease(z, w))
    BY <1>1, <1>8
  <2>2. y.shell = x.shell
    BY <1>2, <1>5, <2>1
  <2>3. \A u \in Widget :
          Wanted(x.shell, x.widgets[u], Queue(x), u) => Wanted(y.shell, y.widgets[u], Queue(y), u)
    BY <1>3, <1>5, <2>1
  <2>4. m.ok => \A u \in Widget \ {w} :
          Fine(x.shell, x.widgets[u], Queue(x), u) => Fine(y.shell, y.widgets[u], Queue(y), u)
    BY <1>4, <1>5, <2>1
  <2> QED BY <1>6, <1>8, <2>2, <2>3, <2>4 DEF Replied
<1> QED BY <1>7, <1>8

-----------------------------------------------------------------------------
(* The registration: every widget once.                                       *)

(* The list of the widgets has each of them once.                             *)
LEMMA EveryWidgetOnce ==
  ASSUME IsFiniteSet(Widget)
  PROVE  /\ Len(InOrder) \in Nat
         /\ \A i \in 1..Len(InOrder) : InOrder[i] \in Widget
         /\ \A i, j \in 1..Len(InOrder) : InOrder[i] = InOrder[j] => i = j
         /\ \A w \in Widget : \E i \in 1..Len(InOrder) : InOrder[i] = w
<1> DEFINE n == Cardinality(Widget)
<1>1. n \in Nat /\ ExistsBijection(1..n, Widget)
  BY FS_CardinalityType
<1>2. \E f \in [1..n -> Widget] : IsInjective(f)
  BY <1>1 DEF ExistsBijection, Bijection, Injection, IsInjective
<1>3. InOrder \in [1..n -> Widget] /\ IsInjective(InOrder)
  BY <1>2 DEF InOrder, SetToSeq
<1>4. Cardinality(1..n) = n
  BY <1>1, FS_Interval
<1> HIDE DEF n
<1>5. InOrder \in Injection(1..n, Widget)
  BY <1>3 DEF Injection
<1>6. Cardinality(1..n) = Cardinality(Widget) <=> InOrder \in Surjection(1..n, Widget)
  BY <1>5, FS_Injection
<1>7. InOrder \in Surjection(1..n, Widget)
  BY <1>4, <1>6 DEF n
<1>8. Len(InOrder) = n /\ DOMAIN InOrder = 1..n
  BY <1>1, <1>3
<1> QED BY <1>1, <1>3, <1>7, <1>8 DEF IsInjective, Surjection

(* restart: the lease of a widget is drained as if none was held.             *)
LEMMA RestartCases ==
  ASSUME NEW x, Typed(x), NEW w \in Widget
  PROVE  \E f : /\ WidgetsOK(f) /\ \A u \in Widget \ {w} : f[u] = x.widgets[u]
                /\ ~f[w].running /\ f[w].presented = x.widgets[w].presented /\ f[w].alive = x.widgets[w].alive
                /\ f[w].active = FALSE
                /\ RestartLease(x, w) = DrainLease([x EXCEPT !.widgets = f], w)
<1> DEFINE old == x.widgets[w]
           v == [old EXCEPT !.running = FALSE, !.known = TRUE, !.active = FALSE]
           f == [x.widgets EXCEPT ![w] = v]
<1>1. WidgetsOK(x.widgets) /\ old \in Flags /\ (old.presented => old.alive)
  BY DEF Typed, WidgetsOK
<1>2. RestartLease(x, w) = DrainLease([x EXCEPT !.widgets = f], w)
  BY DEF RestartLease
<1> HIDE DEF old
<1>3. /\ v \in Flags /\ v.running = FALSE /\ v.presented = old.presented /\ v.alive = old.alive
      /\ v.active = FALSE
  BY <1>1 DEF Flags
<1> HIDE DEF v
<1>4. WidgetsOK(f) /\ f[w] = v /\ \A u \in Widget \ {w} : f[u] = x.widgets[u]
  BY <1>1, <1>3, WidgetSet
<1> HIDE DEF f
<1> QED BY <1>2, <1>3, <1>4 DEF old

(* So does a restart.                                                         *)
LEMMA RestartTyped ==
  ASSUME Acting, NEW x, Typed(x), NEW w \in Widget, NEW y, y = RestartLease(x, w)
  PROVE  Typed(y) /\ y.shell.registered = x.shell.registered /\ y.shell.lifetime = x.shell.lifetime
<1>1. PICK f : WidgetsOK(f) /\ y = DrainLease([x EXCEPT !.widgets = f], w)
  BY RestartCases
<1> DEFINE z == [x EXCEPT !.widgets = f]
<1>2. Typed(z) /\ z.shell = x.shell
  BY <1>1, WidgetTyped
<1> HIDE DEF z
<1>3. y = DrainLease(z, w)
  BY <1>1 DEF z
<1> QED BY <1>2, <1>3, DrainTyped

(* A widget that is not awaited, and wants what is held, is fine once it is   *)
(* restarted.                                                                 *)
LEMMA RestartKeeps ==
  ASSUME Acting, bus.owner # 0, NEW x, Typed(x), NEW w \in Widget, NEW y, y = RestartLease(x, w)
  PROVE  /\ y.shell = x.shell
         /\ \A u \in Widget \ {w} :
              /\ Fine(x.shell, x.widgets[u], Queue(x), u) => Fine(y.shell, y.widgets[u], Queue(y), u)
              /\ Unasked(x.shell, Queue(x), u) => Unasked(y.shell, Queue(y), u)
         /\ \A u \in Widget :
              Wanted(x.shell, x.widgets[u], Queue(x), u) => Wanted(y.shell, y.widgets[u], Queue(y), u)
         /\ /\ x.shell.registered /\ Unasked(x.shell, Queue(x), w)
            /\ Wanted(x.shell, x.widgets[w], Queue(x), w)
            => Fine(y.shell, y.widgets[w], Queue(y), w)
<1>1. PICK f : /\ WidgetsOK(f) /\ \A u \in Widget \ {w} : f[u] = x.widgets[u]
               /\ ~f[w].running /\ f[w].presented = x.widgets[w].presented /\ f[w].alive = x.widgets[w].alive
               /\ f[w].active = FALSE
               /\ y = DrainLease([x EXCEPT !.widgets = f], w)
  BY RestartCases
<1> DEFINE z == [x EXCEPT !.widgets = f]
<1>2. Typed(z) /\ z.widgets = f /\ z.shell = x.shell /\ Queue(z) = Queue(x)
  BY <1>1, WidgetTyped
<1> HIDE DEF z
<1>3. y = DrainLease(z, w)
  BY <1>1 DEF z
<1>4. /\ y.shell = z.shell
      /\ \A u \in Widget \ {w} :
           /\ Fine(z.shell, z.widgets[u], Queue(z), u) => Fine(y.shell, y.widgets[u], Queue(y), u)
           /\ Unasked(z.shell, Queue(z), u) => Unasked(y.shell, Queue(y), u)
      /\ \A u \in Widget :
           Wanted(z.shell, z.widgets[u], Queue(z), u) => Wanted(y.shell, y.widgets[u], Queue(y), u)
      /\ z.shell.registered /\ Ready(z.shell, z.widgets[w], Queue(z), w)
           => Fine(y.shell, y.widgets[w], Queue(y), w)
  BY <1>2, <1>3, DrainKeeps
<1>5. \A u \in Widget \ {w} : z.widgets[u] = x.widgets[u]
  BY <1>1, <1>2
<1>6. \A u \in Widget :
        Wanted(x.shell, x.widgets[u], Queue(x), u) => Wanted(z.shell, z.widgets[u], Queue(z), u)
  <2>1. \A u \in Widget : /\ z.widgets[u].presented = x.widgets[u].presented
                          /\ z.widgets[u].alive = x.widgets[u].alive
    BY <1>1, <1>2
  <2> QED BY <1>2, <2>1 DEF Wanted
<1>7. ASSUME Unasked(x.shell, Queue(x), w), Wanted(x.shell, x.widgets[w], Queue(x), w)
      PROVE  Ready(z.shell, z.widgets[w], Queue(z), w)
  <2>1. f[w] \in Flags /\ (f[w].presented => f[w].alive)
    BY <1>1 DEF WidgetsOK
  <2>2. Predict(z.shell.name, Queue(z), w) => f[w].presented \/ (f[w].alive /\ w \in z.shell.overtaken)
    BY <1>1, <1>2, <1>7 DEF Wanted
  <2>3. Unasked(z.shell, Queue(z), w)
    BY <1>2, <1>7
  <2> QED BY <1>1, <1>2, <2>1, <2>2, <2>3 DEF Ready, Granted, Flags
<1> QED BY <1>2, <1>4, <1>5, <1>6, <1>7

(* A new registration: no call or reply is of its lifetime.                   *)
LEMMA CountedTyped ==
  ASSUME Acting, NEW x, Typed(x)
  PROVE  LET y == [x EXCEPT !.shell.registered = TRUE, !.shell.lifetime = x.shell.lifetime + 1]
         IN  /\ Typed(y) /\ y.widgets = x.widgets
             /\ y.shell.registered = TRUE /\ y.shell.inbox = x.shell.inbox /\ y.shell.name = x.shell.name
             /\ y.shell.lifetime = x.shell.lifetime + 1
             /\ bus.owner # 0 =>
                  /\ Confirmed(y.shell)
                  /\ \A u \in Widget :
                       /\ Unasked(y.shell, Queue(y), u)
                       /\ Wanted(x.shell, x.widgets[u], Queue(x), u)
                            => Wanted(y.shell, y.widgets[u], Queue(y), u)
<1> DEFINE s == x.shell
           t == [s EXCEPT !.registered = TRUE, !.lifetime = s.lifetime + 1]
           y == [x EXCEPT !.shell = t]
<1>1. y = [x EXCEPT !.shell.registered = TRUE, !.shell.lifetime = x.shell.lifetime + 1]
  BY DEF Typed, Wired
<1>2. Knows(s) /\ ShellOK(s)
  BY DEF Typed, Wired
<1> HIDE DEF s
<1>3. /\ Knows(t) /\ t.name = s.name /\ t.inbox = s.inbox /\ t.registered = TRUE
      /\ t.lifetime = s.lifetime + 1 /\ t.overtaken = s.overtaken
  BY <1>2 DEF Knows
<1> HIDE DEF t
<1>4. s.lifetime \in Nat \ {0}
  BY <1>2 DEF ShellOK
<1>5. ShellOK(t)
  <2>1. ASSUME NEW i \in DOMAIN s.inbox, s.inbox[i].kind = "Reply"
        PROVE  ReplyOK(s.inbox[i], t)
    <3>1. ReplyOK(s.inbox[i], s)
      BY <1>2, <2>1 DEF ShellOK
    <3> QED BY <1>3, <1>4, <3>1 DEF ReplyOK
  <2> QED BY <1>2, <1>3, <1>4, <2>1 DEF ShellOK
<1>6. y.shell = t /\ y.widgets = x.widgets /\ y.connections = x.connections
      /\ {"shell", "widgets", "connections"} \subseteq DOMAIN y
  BY DEF Typed, Wired
<1> HIDE DEF y
<1>7. Wired(y) /\ Queue(y) = Queue(x)
  BY <1>3, <1>6 DEF Typed, Wired, Queue
<1>8. bus.owner # 0 => \A i \in DOMAIN Queue(x) :
        /\ Queue(x)[i].name = shell.name => Queue(x)[i].lifetime <= s.lifetime
        /\ Queue(x)[i].lifetime \in Nat
  BY DEF Typed, Rooted, CallOK, s
<1>9. Rooted(y)
  <2>1. bus.owner # 0 => \A i \in DOMAIN Queue(y) :
          Queue(y)[i].name = shell.name => Queue(y)[i].lifetime <= y.shell.lifetime
    BY <1>3, <1>4, <1>6, <1>7, <1>8
  <2> QED BY <1>3, <1>6, <1>7, <2>1 DEF Typed, Rooted, s
<1>10. Typed(y)
  BY <1>3, <1>5, <1>6, <1>7, <1>9 DEF Typed
<1>11. Confirmed(t)
  <2>1. \A i \in DOMAIN s.inbox : s.inbox[i].kind = "Reply" =>
           s.inbox[i].call.lifetime \in Nat /\ s.inbox[i].call.lifetime <= s.lifetime
    BY <1>2 DEF ShellOK, ReplyOK
  <2> QED BY <1>3, <1>4, <2>1 DEF Confirmed
<1>12. ASSUME bus.owner # 0, NEW u \in Widget
       PROVE  Unasked(t, Queue(y), u)
  <2>1. None(Queue(y), t.name, u, t.lifetime)
    <3>1. t.name = shell.name
      BY <1>3 DEF Typed, Rooted, s
    <3>2. \A i \in DOMAIN Queue(x) : Queue(x)[i].kind # "Reply"
      BY <1>12 DEF Typed, Rooted, CallOK
    <3> QED BY <1>3, <1>4, <1>7, <1>8, <1>12, <3>1, <3>2 DEF None, About, Subject
  <2>2. None(t.inbox, t.name, u, t.lifetime)
    <3> SUFFICES ASSUME NEW i \in DOMAIN s.inbox, About(s.inbox[i], t.name, u, t.lifetime) PROVE FALSE
      BY <1>3 DEF None
    <3>1. s.inbox[i].kind = "Reply"
      BY <1>2 DEF About, Knows, Kinds
    <3>2. s.inbox[i].call.lifetime \in Nat /\ s.inbox[i].call.lifetime <= s.lifetime
      BY <1>2, <3>1 DEF ShellOK, ReplyOK
    <3> QED BY <1>3, <1>4, <3>1, <3>2 DEF About, Subject
  <2> QED BY <2>1, <2>2 DEF Unasked
<1>13. \A u \in Widget : Wanted(s, x.widgets[u], Queue(x), u) => Wanted(t, y.widgets[u], Queue(y), u)
  BY <1>3, <1>6, <1>7 DEF Wanted
<1> QED BY <1>1, <1>3, <1>6, <1>10, <1>11, <1>12, <1>13 DEF s, y

(* The shell asks for everything: no widget is concerned.                     *)
LEMMA AsideKeeps ==
  ASSUME Acting, NEW x, Typed(x), NEW c, c.kind \in {"GetAll", "StepPage"},
         c.name = x.shell.name, c.lifetime = x.shell.lifetime, NEW y, y = Send(x, c)
  PROVE  /\ Typed(y) /\ y.shell.registered = x.shell.registered /\ y.shell.lifetime = x.shell.lifetime
         /\ bus.owner # 0 =>
              /\ y.shell = x.shell /\ y.widgets = x.widgets
              /\ \A u \in Widget :
                   /\ Fine(x.shell, x.widgets[u], Queue(x), u) => Fine(y.shell, y.widgets[u], Queue(y), u)
                   /\ Unasked(x.shell, Queue(x), u) => Unasked(y.shell, Queue(y), u)
                   /\ Wanted(x.shell, x.widgets[u], Queue(x), u) => Wanted(y.shell, y.widgets[u], Queue(y), u)
<1>1. CallOK(c) /\ c.lifetime <= x.shell.lifetime
  BY DEF CallOK, Typed, ShellOK
<1>2. /\ Typed(y) /\ y.widgets = x.widgets
      /\ y.shell.registered = x.shell.registered /\ y.shell.lifetime = x.shell.lifetime
      /\ bus.owner # 0 => y.shell = x.shell /\ Queue(y) = Append(Queue(x), c)
  BY <1>1, SendTyped
<1>3. ASSUME bus.owner # 0, NEW u \in Widget
      PROVE  /\ Fine(x.shell, x.widgets[u], Queue(x), u) => Fine(y.shell, y.widgets[u], Queue(y), u)
             /\ Unasked(x.shell, Queue(x), u) => Unasked(y.shell, Queue(y), u)
             /\ Wanted(x.shell, x.widgets[u], Queue(x), u) => Wanted(y.shell, y.widgets[u], Queue(y), u)
  <2>1. Elsewhere(c, x.shell.name, u) /\ Sequenced(Queue(x))
    BY <1>3, QueueSequenced DEF Elsewhere
  <2>2. y.shell = x.shell /\ y.widgets = x.widgets /\ Queue(y) = Append(Queue(x), c)
    BY <1>2, <1>3
  <2> DEFINE sh == x.shell
             q == Queue(x)
             v == x.widgets[u]
  <2>3. Elsewhere(c, sh.name, u) /\ Sequenced(q)
    BY <2>1
  <2> HIDE DEF sh, q, v
  <2>4. /\ Fine(sh, v, q, u) <=> Fine(sh, v, Append(q, c), u)
        /\ Unasked(sh, q, u) <=> Unasked(sh, Append(q, c), u)
        /\ Wanted(sh, v, q, u) <=> Wanted(sh, v, Append(q, c), u)
    BY <2>3, FineFrame
  <2> QED BY <2>2, <2>4 DEF sh, q, v
<1> QED BY <1>2, <1>3

(* daemonRegistered: afterwards every widget is fine.                         *)
LEMMA RegisteredKeeps ==
  ASSUME AppletAssumption, Acting, NEW x, Typed(x), NEW y, y = DaemonRegistered(x)
  PROVE  /\ Typed(y)
         /\ bus.owner # 0 /\ (\A u \in Widget : Wanted(x.shell, x.widgets[u], Queue(x), u)) =>
              /\ y.shell.registered /\ y.shell.inbox = x.shell.inbox /\ Confirmed(y.shell)
              /\ \A u \in Widget : /\ Wanted(y.shell, y.widgets[u], Queue(y), u)
                                   /\ Fine(y.shell, y.widgets[u], Queue(y), u)
<1> DEFINE counted == [x EXCEPT !.shell.registered = TRUE, !.shell.lifetime = x.shell.lifetime + 1]
           call    == Call(counted, "GetAll", AnyWidget)
           fetched == Send(counted, call)
           chosen  == CHOOSE f : Restarts(fetched, f)
           N       == Len(InOrder)
<1>0. /\ N \in Nat /\ \A i \in 1..N : InOrder[i] \in Widget
      /\ \A i, j \in 1..N : InOrder[i] = InOrder[j] => i = j
      /\ \A w \in Widget : \E i \in 1..N : InOrder[i] = w
  BY EveryWidgetOnce DEF AppletAssumption
<1>1. y = chosen[N]
  BY DEF DaemonRegistered, Restarts
<1>2. /\ Typed(counted) /\ counted.shell.registered = TRUE /\ counted.shell.inbox = x.shell.inbox
      /\ bus.owner # 0 =>
           /\ Confirmed(counted.shell)
           /\ \A u \in Widget :
                /\ Unasked(counted.shell, Queue(counted), u)
                /\ Wanted(x.shell, x.widgets[u], Queue(x), u)
                     => Wanted(counted.shell, counted.widgets[u], Queue(counted), u)
  BY CountedTyped
<1>3. call.kind = "GetAll" /\ call.name = counted.shell.name /\ call.lifetime = counted.shell.lifetime
  BY DEF Call
<1> HIDE DEF counted, call
<1>4. /\ Typed(fetched) /\ fetched.shell.registered = TRUE
      /\ bus.owner # 0 =>
           /\ fetched.shell = counted.shell
           /\ \A u \in Widget :
                /\ Unasked(fetched.shell, Queue(fetched), u)
                /\ Wanted(x.shell, x.widgets[u], Queue(x), u)
                     => Wanted(fetched.shell, fetched.widgets[u], Queue(fetched), u)
  BY <1>2, <1>3, AsideKeeps
<1> HIDE DEF fetched
<1>5. Restarts(fetched, chosen)
  BY <1>0, RestartsExist
<1> HIDE DEF chosen
<1>6. chosen[0] = fetched /\ \A n \in 1..N : chosen[n] = RestartLease(chosen[n - 1], InOrder[n])
  BY <1>0, <1>5 DEF Restarts
<1> HIDE DEF N
<1>7. Typed(chosen[N])
  <2> DEFINE A == {n \in 0..N : Typed(chosen[n])}
  <2>1. 0 \in A
    BY <1>0, <1>4, <1>6
  <2>2. ASSUME NEW n \in 1..N, n - 1 \in A
        PROVE  n \in A
    BY <1>0, <1>6, <2>2, RestartTyped
  <2> HIDE DEF A
  <2>3. N \in A
    BY <1>0, <2>1, <2>2, EveryPosition
  <2> QED BY <2>3 DEF A
<1>8. ASSUME bus.owner # 0, \A u \in Widget : Wanted(x.shell, x.widgets[u], Queue(x), u)
      PROVE  /\ y.shell = counted.shell
             /\ \A u \in Widget : /\ Wanted(y.shell, y.widgets[u], Queue(y), u)
                                  /\ Fine(y.shell, y.widgets[u], Queue(y), u)
  <2> DEFINE B(n) == /\ Typed(chosen[n]) /\ chosen[n].shell = counted.shell
                     /\ \A u \in Widget : Wanted(chosen[n].shell, chosen[n].widgets[u], Queue(chosen[n]), u)
                     /\ \A i \in 1..N : i <= n =>
                          Fine(chosen[n].shell, chosen[n].widgets[InOrder[i]], Queue(chosen[n]), InOrder[i])
                     /\ \A i \in 1..N : i > n => Unasked(chosen[n].shell, Queue(chosen[n]), InOrder[i])
             A == {n \in 0..N : B(n)}
  <2>1. 0 \in A
    <3>1. \A i \in 1..N : ~(i <= 0) /\ InOrder[i] \in Widget
      BY <1>0
    <3> QED BY <1>0, <1>4, <1>6, <1>8, <3>1
  <2>2. ASSUME NEW n \in 1..N, n - 1 \in A
        PROVE  n \in A
    <3> DEFINE z == chosen[n - 1]
               d == chosen[n]
               w == InOrder[n]
    <3>1. d = RestartLease(z, w) /\ w \in Widget /\ B(n - 1) /\ n \in 0..N
      BY <1>0, <1>6, <2>2
    <3>2. Typed(z) /\ z.shell = counted.shell /\ z.shell.registered
      BY <1>2, <3>1
    <3>3. Unasked(z.shell, Queue(z), w) /\ Wanted(z.shell, z.widgets[w], Queue(z), w)
      BY <1>0, <3>1
    <3>4. \A i \in 1..N : i < n => Fine(z.shell, z.widgets[InOrder[i]], Queue(z), InOrder[i])
      BY <1>0, <3>1
    <3>5. \A i \in 1..N : i > n => Unasked(z.shell, Queue(z), InOrder[i])
      BY <1>0, <3>1
    <3>6. \A u \in Widget : Wanted(z.shell, z.widgets[u], Queue(z), u)
      BY <3>1
    <3> HIDE DEF B, A, z, d
    <3>7. Typed(d)
      BY <3>1, <3>2, RestartTyped
    <3>8. /\ d.shell = z.shell
          /\ \A u \in Widget \ {w} :
               /\ Fine(z.shell, z.widgets[u], Queue(z), u) => Fine(d.shell, d.widgets[u], Queue(d), u)
               /\ Unasked(z.shell, Queue(z), u) => Unasked(d.shell, Queue(d), u)
          /\ \A u \in Widget : Wanted(d.shell, d.widgets[u], Queue(d), u)
          /\ Fine(d.shell, d.widgets[w], Queue(d), w)
      BY <1>8, <3>1, <3>2, <3>3, <3>6, RestartKeeps
    <3>9. \A i \in 1..N : i # n => InOrder[i] \in Widget \ {w}
      BY <1>0
    <3>10. \A i \in 1..N : i <= n => Fine(d.shell, d.widgets[InOrder[i]], Queue(d), InOrder[i])
      <4> SUFFICES ASSUME NEW i \in 1..N, i <= n
                   PROVE  Fine(d.shell, d.widgets[InOrder[i]], Queue(d), InOrder[i])
        OBVIOUS
      <4>1. i = n \/ i < n
        BY <1>0
      <4> QED BY <3>4, <3>8, <3>9, <4>1
    <3>11. \A i \in 1..N : i > n => Unasked(d.shell, Queue(d), InOrder[i])
      BY <1>0, <3>5, <3>8, <3>9
    <3> QED BY <3>1, <3>2, <3>7, <3>8, <3>10, <3>11 DEF A, B, d
  <2> HIDE DEF A, B
  <2>3. N \in A
    BY <1>0, <2>1, <2>2, EveryPosition
  <2>4. B(N)
    BY <2>3 DEF A
  <2>5. \A i \in 1..N : i <= N
    BY <1>0
  <2>6. \A i \in 1..N : Fine(y.shell, y.widgets[InOrder[i]], Queue(y), InOrder[i])
    BY <1>1, <2>4, <2>5 DEF B
  <2> QED BY <1>0, <1>1, <2>4, <2>6 DEF B
<1> QED BY <1>1, <1>2, <1>7, <1>8

-----------------------------------------------------------------------------
(* The invariant.                                                             *)

(* Of the connection that owns the name, k: its clients are tracked, and the  *)
(* intents of a connected shell are on their way.                             *)
Bound(k) == Tracks(k) /\ News(shell) /\ (shell.name # 0 => Intents(shell, widgets, k.calls))

(* What makes LeasesFollowIntent inductive.                                   *)
LeaseInv ==
  /\ Table /\ Links /\ Desk
  /\ bus.owner # 0 => Bound(service.connections[bus.owner])

(* The connection that owns the name.                                         *)
LEMMA OwnersLink ==
  ASSUME IInv, ViewInv, Links, bus.owner # 0
  PROVE  LET k == service.connections[bus.owner]
         IN  /\ bus.owner \in Epoch /\ bus.owner = service.epoch /\ bus.owner <= service.epoch
             /\ service.phase = "Serving" /\ bus.owner \notin service.retired
             /\ LinkOK(k) /\ Sequenced(k.calls)
<1>1. bus.owner \in Epoch /\ bus.owner = service.epoch /\ service.phase = "Serving"
      /\ bus.owner <= service.epoch /\ bus.owner \notin service.retired
  BY DEF IInv, TypeOK, Epoch
<1> QED BY <1>1 DEF Links, ViewInv, Linked

(* What will be held depends on the events and the table only.                *)
LEMMA PredictAnew ==
  ASSUME NEW n, NEW q, NEW w, Lease(n, w)' <=> Lease(n, w)
  PROVE  Predict(n, q, w)' <=> Predict(n, q, w)
BY DEF Predict, Holds

(* The daemon goes on: the shell may be told something.                       *)
LEMMA IntentsAnew ==
  ASSUME NEW sh, NEW ws, NEW q, NEW t, NEW r, Intents(sh, ws, q),
         t.name = sh.name, t.registered = sh.registered, t.overtaken = sh.overtaken,
         Noticed(t.inbox) <=> Noticed(sh.inbox), Confirmed(sh) => Confirmed(t),
         \A w \in Widget : /\ Predict(sh.name, r, w)' <=> Predict(sh.name, q, w)
                           /\ Unasked(sh, q, w) => Unasked(t, r, w)
                           /\ \A kind : Awaits(sh, q, w, kind) => Awaits(t, r, w, kind)
  PROVE  Intents(t, ws, r)'
<1>1. CASE Noticed(sh.inbox)
  <2>1. \A w \in Widget : Wanted(t, ws[w], r, w)'
    BY <1>1 DEF Intents, Wanted
  <2> QED BY <1>1, <2>1 DEF Intents
<1>2. CASE ~Noticed(sh.inbox)
  <2>1. ASSUME NEW w \in Widget
        PROVE  Fine(t, ws[w], r, w)'
    <3>1. Fine(sh, ws[w], q, w)
      BY <1>2 DEF Intents
    <3>2. \A kind : Awaits(t, r, w, kind)' <=> Awaits(t, r, w, kind)
      BY DEF Awaits, None, One, About, Subject
    <3>3. Unasked(t, r, w)' <=> Unasked(t, r, w)
      BY DEF Unasked, None, About, Subject
    <3> QED BY <3>1, <3>2, <3>3 DEF Fine, Granted
  <2> QED BY <1>2, <2>1 DEF Intents, Confirmed
<1> QED BY <1>1, <1>2

(* The next connections, and what they are bound to.                          *)
LEMMA BoundAnew ==
  ASSUME bus.owner # 0, UNCHANGED bus, NEW r, service'.connections[bus.owner] = r, Tracks(r)',
         NEW t, t = shell', NEW ws, ws = widgets', News(t), t.name # 0 => Intents(t, ws, r.calls)'
  PROVE  (bus.owner # 0 => Bound(service.connections[bus.owner]))'
<1>1. Bound(r)'
  BY DEF Bound, News, Intents
<1> QED BY <1>1

-----------------------------------------------------------------------------
(* The steps of the shell.                                                    *)

(* A reaction keeps the invariant if it keeps the intents.                    *)
LEMMA ReactionHolds ==
  ASSUME IInv, ViewInv, LeaseInv, Acting, NEW y, Typed(y), Happens(y), UNCHANGED <<bus, events, daemon>>,
         bus.owner # 0 => News(y.shell) /\ Intents(y.shell, y.widgets, Queue(y))
  PROVE  LeaseInv'
<1>1. /\ shell' = y.shell /\ widgets' = y.widgets /\ service'.connections = y.connections
      /\ service'.phase = service.phase /\ service'.epoch = service.epoch
  BY DEF Happens, IInv, Shape
<1>2. Table'
  BY <1>1, TableKept DEF LeaseInv
<1>3. Desk'
  <2>1. shell'.name = shell.name /\ ShellOK(y.shell) /\ WidgetsOK(y.widgets) /\ shell.name # 0
    BY <1>1 DEF Typed, Rooted, Acting
  <2>2. ShellOK(shell)' /\ WidgetsOK(widgets)'
    BY <1>1, <2>1 DEF ShellOK, ReplyOK, WidgetsOK
  <2> QED BY <2>1, <2>2 DEF LeaseInv, Desk
<1>4. CASE bus.owner # 0
  <2>10. PICK o, k, q : o = bus.owner /\ k = service.connections[o] /\ q = Queue(y)
    OBVIOUS
  <2>11. PICK r : r = [k EXCEPT !.calls = q]
    OBVIOUS
  <2>1. /\ o \in Epoch /\ o <= service.epoch /\ LinkOK(k) /\ Sequenced(k.calls) /\ service.epoch \in Int
    BY <1>4, <2>10, OwnersLink DEF LeaseInv, IInv, TypeOK
  <2>2. /\ y.shell.name = shell.name
        /\ \A e \in Epoch \ {o} : y.connections[e] = service.connections[e]
        /\ y.connections[o] = r
        /\ \A i \in DOMAIN q : /\ CallOK(q[i]) /\ Given(q[i].name)
                               /\ q[i].name = shell.name => q[i].lifetime <= y.shell.lifetime
        /\ k.calls # <<>> => q # <<>> /\ Head(q) = Head(k.calls)
    BY <1>4, <2>10, <2>11 DEF Typed, Rooted
  <2>3. Tracks(k)
    BY <1>4, <2>10 DEF LeaseInv, Bound
  <2>4. /\ IsLink(r) /\ r.calls = q /\ r.begun = k.begun /\ r.first = k.first
        /\ r.departures = k.departures /\ r.forwarding = k.forwarding
    <3>1. IsLink(k)
      BY <2>1 DEF LinkOK
    <3> QED BY <2>11, <3>1 DEF IsLink, Fields
  <2>5. LinkOK(r)
    <3> QED BY <2>1, <2>2, <2>4 DEF LinkOK
  <2>6. Tracks(r)'
    BY <1>1, <2>1, <2>2, <2>3, <2>11, CallsTrack
  <2>7. Links'
    <3>1. \A e \in Epoch \ {o} : service'.connections[e] = service.connections[e]
      BY <1>1, <2>2
    <3>2. service'.connections[o] = r /\ ~(o > service'.epoch)
      BY <1>1, <2>1, <2>2 DEF Epoch
    <3> QED BY <1>1, <2>1, <2>5, <3>1, <3>2 DEF LeaseInv, Links, LinkOK, CallOK, NewConnection, Sequenced
  <2>8. Intents(y.shell, y.widgets, r.calls)'
    <3>1. Intents(y.shell, y.widgets, r.calls)
      BY <1>4, <2>4, <2>10
    <3>2. \A n, w : Lease(n, w)' <=> Lease(n, w)
      BY EventsKept
    <3>3. \A w \in Widget : Predict(y.shell.name, r.calls, w)' <=> Predict(y.shell.name, r.calls, w)
      BY <3>2, PredictAnew
    <3> QED BY <3>1, <3>3, IntentsAnew
  <2>9. (bus.owner # 0 => Bound(service.connections[bus.owner]))'
    <3>1. service'.connections[bus.owner] = r
      BY <1>1, <2>2, <2>10
    <3> QED BY <1>1, <1>4, <2>6, <2>8, <3>1, BoundAnew
  <2> QED BY <1>2, <1>3, <2>7, <2>9 DEF LeaseInv
<1>5. CASE bus.owner = 0
  <2>1. \A e \in Epoch : service'.connections[e] = service.connections[e]
    BY <1>1, <1>5 DEF Typed, Rooted, Acting
  <2>2. Links'
    BY <1>1, <2>1 DEF LeaseInv, Links, LinkOK, CallOK, NewConnection, Sequenced
  <2> QED BY <1>2, <1>3, <1>5, <2>2 DEF LeaseInv
<1> QED BY <1>4, <1>5

(* What a reaction starts from.                                               *)
LEMMA WorldTyped ==
  ASSUME IInv, ViewInv, LeaseInv, shell.name # 0
  PROVE  /\ Acting /\ Typed(World)
         /\ World.shell = shell /\ World.widgets = widgets /\ World.connections = service.connections
         /\ bus.owner # 0 => News(World.shell) /\ Intents(World.shell, World.widgets, Queue(World))
<1>1. /\ World.shell = shell /\ World.widgets = widgets /\ World.connections = service.connections
      /\ {"shell", "widgets", "connections"} \subseteq DOMAIN World
  BY DEF World
<1>2. Acting
  BY OwnerIsOpen DEF LeaseInv, Desk, Acting, Given
<1>3. Rooted(World)
  <2> SUFFICES ASSUME bus.owner # 0
               PROVE  LET k == service.connections[bus.owner]
                          q == k.calls
                      IN  /\ k = [k EXCEPT !.calls = q]
                          /\ \A i \in DOMAIN q : /\ CallOK(q[i]) /\ Given(q[i].name)
                                                 /\ q[i].name = shell.name => q[i].lifetime <= shell.lifetime
    BY <1>1 DEF Rooted, Queue
  <2>1. PICK k : k = service.connections[bus.owner]
    OBVIOUS
  <2>2. LinkOK(k) /\ Tracks(k)
    BY <2>1, OwnersLink DEF LeaseInv, Bound
  <2>3. IsLink(k)
    BY <2>2 DEF LinkOK
  <2>4. k = [k EXCEPT !.calls = k.calls]
    BY <2>3 DEF IsLink, Fields
  <2> QED BY <2>1, <2>2, <2>4 DEF LinkOK, Tracks, Signed
<1>4. Typed(World)
  BY <1>1, <1>3, WorldWired DEF LeaseInv, Desk, Typed
<1>5. bus.owner # 0 => News(World.shell) /\ Intents(World.shell, World.widgets, Queue(World))
  <2> SUFFICES ASSUME bus.owner # 0
               PROVE  News(World.shell) /\ Intents(World.shell, World.widgets, Queue(World))
    OBVIOUS
  <2>1. Queue(World) = service.connections[bus.owner].calls
    BY <1>1 DEF Queue
  <2> QED BY <1>1, <2>1 DEF LeaseInv, Bound
<1> QED BY <1>1, <1>2, <1>4, <1>5

(* What makes the intents of a shell that has no news.                        *)
LEMMA FineIntents ==
  ASSUME NEW sh, NEW ws, NEW q, ~Noticed(sh.inbox), sh.registered, Confirmed(sh),
         \A u \in Widget : Fine(sh, ws[u], q, u)
  PROVE  Intents(sh, ws, q)
BY DEF Intents

(* A wheel gesture concerns no lease.                                         *)
LEMMA WheelHolds ==
  ASSUME IInv, ViewInv, LeaseInv, Wheel
  PROVE  LeaseInv'
<1> DEFINE x == World
<1>1. shell.name # 0 /\ UNCHANGED <<bus, events, daemon>>
  BY DEF Wheel
<1>2. PICK delta : Happens(Send(x, [Call(x, "StepPage", AnyWidget) EXCEPT !.step = delta]))
  BY DEF Wheel
<1> DEFINE c == [Call(x, "StepPage", AnyWidget) EXCEPT !.step = delta]
<1>3. c.kind = "StepPage" /\ c.name = x.shell.name /\ c.lifetime = x.shell.lifetime
  BY DEF Call
<1>4. PICK z, d, y : z = x /\ d = c /\ y = Send(z, d)
  OBVIOUS
<1>5. /\ Acting /\ Typed(z)
      /\ bus.owner # 0 => News(z.shell) /\ Intents(z.shell, z.widgets, Queue(z))
  BY <1>1, <1>4, WorldTyped
<1> HIDE DEF x, c
<1>6. d.kind \in {"GetAll", "StepPage"} /\ d.name = z.shell.name /\ d.lifetime = z.shell.lifetime
  BY <1>3, <1>4
<1>0. y = Send(z, d)
  BY <1>4
<1>7. /\ Typed(y)
      /\ bus.owner # 0 =>
           /\ y.shell = z.shell /\ y.widgets = z.widgets
           /\ \A u \in Widget :
                /\ Fine(z.shell, z.widgets[u], Queue(z), u) => Fine(y.shell, y.widgets[u], Queue(y), u)
                /\ Wanted(z.shell, z.widgets[u], Queue(z), u) => Wanted(y.shell, y.widgets[u], Queue(y), u)
  BY <1>0, <1>5, <1>6, AsideKeeps
<1>8. bus.owner # 0 => News(y.shell) /\ Intents(y.shell, y.widgets, Queue(y))
  BY <1>5, <1>7 DEF Intents
<1>9. Happens(y)
  BY <1>2, <1>4 DEF c
<1> QED BY <1>1, <1>5, <1>7, <1>8, <1>9, ReactionHolds

(* The shell is changed, not what it calls with.                              *)
LEMMA ShellTyped ==
  ASSUME NEW x, Typed(x), NEW t, Knows(t), ShellOK(t),
         t.name = x.shell.name, t.lifetime = x.shell.lifetime
  PROVE  LET y == [x EXCEPT !.shell = t]
         IN  Typed(y) /\ y.shell = t /\ y.widgets = x.widgets /\ Queue(y) = Queue(x)
<1> DEFINE y == [x EXCEPT !.shell = t]
<1>1. /\ y.shell = t /\ y.widgets = x.widgets /\ y.connections = x.connections
      /\ {"shell", "widgets", "connections"} \subseteq DOMAIN y
  BY DEF Typed, Wired
<1> HIDE DEF y
<1>2. Wired(y) /\ Queue(y) = Queue(x)
  BY <1>1 DEF Typed, Wired, Queue
<1>3. Rooted(y)
  BY <1>1, <1>2 DEF Typed, Rooted
<1> QED BY <1>1, <1>2, <1>3 DEF Typed, y

(* A widget is toggled: it is drained, or waits for its reply.                *)
LEMMA ToggleHolds ==
  ASSUME IInv, ViewInv, LeaseInv, NEW w \in Widget, Toggle(w)
  PROVE  LeaseInv'
<1>1. /\ shell.name # 0 /\ widgets[w].alive /\ UNCHANGED <<bus, events, daemon>>
  BY DEF Toggle
<1>2. PICK z : z = World
  OBVIOUS
<1>3. /\ Acting /\ Typed(z) /\ z.shell = shell /\ z.widgets = widgets
      /\ bus.owner # 0 => News(z.shell) /\ Intents(z.shell, z.widgets, Queue(z))
  BY <1>1, <1>2, WorldTyped
<1>4. PICK v : v = z.widgets[w]
  OBVIOUS
<1>5. PICK f, n : n = [v EXCEPT !.presented = ~v.presented] /\ f = [z.widgets EXCEPT ![w] = n]
  OBVIOUS
<1>6. PICK t, r, x, y : /\ t = [shell EXCEPT !.overtaken = Overtaken(w)] /\ r = [z EXCEPT !.shell = t]
                        /\ x = [r EXCEPT !.widgets = f] /\ y = DrainLease(x, w)
  OBVIOUS
<1>7. Happens(y)
  <2>1. Happens(DrainLease([World EXCEPT !.shell.overtaken = Overtaken(w), !.widgets[w].presented = ~@], w))
    BY DEF Toggle
  <2>2. x = [World EXCEPT !.shell.overtaken = Overtaken(w), !.widgets[w].presented = ~@]
    BY <1>2, <1>4, <1>5, <1>6 DEF World
  <2> QED BY <1>6, <2>1, <2>2
<1>8. v \in Flags /\ v.alive /\ WidgetsOK(z.widgets)
  BY <1>1, <1>3, <1>4 DEF Typed, WidgetsOK
<1>9. /\ n \in Flags /\ n.alive /\ n.running = v.running /\ n.active = v.active /\ n.known = v.known
      /\ n.presented = ~v.presented
  BY <1>5, <1>8 DEF Flags
<1>10. WidgetsOK(f) /\ f[w] = n /\ \A u \in Widget \ {w} : f[u] = z.widgets[u]
  <2>1. f = [z.widgets EXCEPT ![w] = n] /\ (n.presented => n.alive) /\ n \in Flags
    BY <1>5, <1>9
  <2> QED BY <1>8, <2>1, WidgetSet
<1>11. /\ Knows(t) /\ ShellOK(t) /\ t.name = shell.name /\ t.inbox = shell.inbox
       /\ t.lifetime = shell.lifetime /\ t.registered = shell.registered /\ t.overtaken = Overtaken(w)
  <2>1. Knows(shell) /\ ShellOK(shell)
    BY <1>3 DEF Typed, Wired
  <2>2. /\ Knows(t) /\ t.name = shell.name /\ t.inbox = shell.inbox
        /\ t.lifetime = shell.lifetime /\ t.registered = shell.registered /\ t.overtaken = Overtaken(w)
    BY <1>6, <2>1, OvertakenKnows
  <2>3. ShellOK(t)
    BY <2>1, <2>2, OvertakenFrame
  <2> QED BY <2>2, <2>3
<1>12. Typed(r) /\ r.shell = t /\ r.widgets = z.widgets /\ Queue(r) = Queue(z)
  <2>1. r = [z EXCEPT !.shell = t] /\ t.name = z.shell.name /\ t.lifetime = z.shell.lifetime
    BY <1>3, <1>6, <1>11
  <2> QED BY <1>3, <1>11, <2>1, ShellTyped
<1>13. Typed(x) /\ x.widgets = f /\ x.shell = t /\ Queue(x) = Queue(z)
  <2>1. x = [r EXCEPT !.widgets = f]
    BY <1>6
  <2>2. WidgetsOK(f) /\ Typed(r)
    BY <1>10, <1>12
  <2>3. Typed(x) /\ x.widgets = f /\ x.shell = r.shell /\ Queue(x) = Queue(r)
    BY <2>1, <2>2, WidgetTyped
  <2> QED BY <1>12, <2>3
<1>14. Typed(y)
  BY <1>3, <1>6, <1>13, DrainTyped
<1>15. ASSUME bus.owner # 0
       PROVE  News(y.shell) /\ Intents(y.shell, y.widgets, Queue(y))
  <2>1. y = DrainLease(x, w)
    BY <1>6
  <2>2. /\ y.shell = t
        /\ \A u \in Widget \ {w} :
             Fine(t, f[u], Queue(z), u) => Fine(y.shell, y.widgets[u], Queue(y), u)
        /\ \A u \in Widget :
             Wanted(t, f[u], Queue(z), u) => Wanted(y.shell, y.widgets[u], Queue(y), u)
        /\ t.registered /\ Ready(t, f[w], Queue(z), w)
             => Fine(y.shell, y.widgets[w], Queue(y), w)
    <3>1. /\ y.shell = x.shell
          /\ \A u \in Widget \ {w} :
               Fine(x.shell, x.widgets[u], Queue(x), u) => Fine(y.shell, y.widgets[u], Queue(y), u)
          /\ \A u \in Widget :
               Wanted(x.shell, x.widgets[u], Queue(x), u) => Wanted(y.shell, y.widgets[u], Queue(y), u)
          /\ x.shell.registered /\ Ready(x.shell, x.widgets[w], Queue(x), w)
               => Fine(y.shell, y.widgets[w], Queue(y), w)
      BY <1>3, <1>13, <1>15, <2>1, DrainKeeps
    <3> QED BY <1>13, <3>1
  <2>3. News(t) /\ News(shell) /\ Intents(shell, widgets, Queue(z))
    <3>1. News(shell) /\ Intents(shell, widgets, Queue(z))
      BY <1>3, <1>15
    <3> QED BY <1>11, <3>1, OvertakenFrame
  <2>4. CASE Noticed(shell.inbox)
    <3>1. \A u \in Widget : Wanted(shell, widgets[u], Queue(z), u)
      BY <2>3, <2>4 DEF Intents
    <3>2. t.overtaken = shell.overtaken \cup {w}
      BY <1>11, <2>4 DEF Overtaken
    <3>3. \A u \in Widget \ {w} : Wanted(t, f[u], Queue(z), u)
      BY <1>3, <1>10, <1>11, <3>1, <3>2, OvertakenFrame
    <3>4. Wanted(t, f[w], Queue(z), w)
      BY <1>9, <1>10, <3>2 DEF Wanted
    <3>5. \A u \in Widget : Wanted(y.shell, y.widgets[u], Queue(y), u)
      BY <2>2, <3>3, <3>4
    <3> QED BY <1>11, <2>2, <2>3, <2>4, <3>5 DEF Intents
  <2>5. CASE ~Noticed(shell.inbox)
    <3>1. shell.registered /\ Confirmed(shell) /\ \A u \in Widget : Fine(shell, widgets[u], Queue(z), u)
      BY <2>3, <2>5 DEF Intents
    <3>2. t.overtaken = shell.overtaken \ {w}
      BY <1>11, <2>5 DEF Overtaken
    <3>3. ~Noticed(t.inbox) /\ t.registered /\ Confirmed(t)
      BY <1>11, <2>5, <3>1, OvertakenFrame
    <3>4. \A u \in Widget \ {w} : Fine(t, f[u], Queue(z), u)
      BY <1>3, <1>10, <1>11, <3>1, <3>2, OvertakenFrame
    <3>5. \A u \in Widget \ {w} : Fine(y.shell, y.widgets[u], Queue(y), u)
      BY <2>2, <3>4
    <3>6. Fine(shell, v, Queue(z), w)
      BY <1>3, <1>4, <3>1
    <3>7. /\ Unasked(t, Queue(z), w) <=> Unasked(shell, Queue(z), w)
          /\ \A kind : Awaits(t, Queue(z), w, kind) <=> Awaits(shell, Queue(z), w, kind)
      BY <1>11 DEF Unasked, Awaits
    <3>8. CASE v.running
      <4>1. Fine(t, n, Queue(z), w)
        BY <1>8, <1>9, <1>11, <3>6, <3>7, <3>8 DEF Fine
      <4>2. y = x
        <5>1. x.widgets[w].running
          BY <1>9, <1>10, <1>13, <3>8
        <5> QED BY <1>6, <5>1, DrainCases
      <4>3. Fine(y.shell, y.widgets[w], Queue(y), w)
        BY <1>10, <1>13, <4>1, <4>2
      <4> QED BY <2>2, <2>3, <3>3, <3>5, <4>3, FineIntents
    <3>9. CASE ~v.running
      <4>1. Ready(t, n, Queue(z), w)
        BY <1>8, <1>9, <3>6, <3>7, <3>9 DEF Fine, Ready, Flags
      <4>2. Fine(y.shell, y.widgets[w], Queue(y), w)
        BY <1>10, <2>2, <3>3, <4>1
      <4> QED BY <2>2, <2>3, <3>3, <3>5, <4>2, FineIntents
    <3> QED BY <3>8, <3>9
  <2> QED BY <2>4, <2>5
<1> QED BY <1>1, <1>3, <1>7, <1>14, <1>15, ReactionHolds

(* A widget is removed: its lease will not be held.                           *)
LEMMA DestroyHolds ==
  ASSUME IInv, ViewInv, LeaseInv, NEW w \in Widget, Destroy(w)
  PROVE  LeaseInv'
<1>1. /\ shell.name # 0 /\ widgets[w].alive /\ UNCHANGED <<bus, events, daemon>>
  BY DEF Destroy
<1>2. PICK z : z = World
  OBVIOUS
<1>3. /\ Acting /\ Typed(z) /\ z.shell = shell /\ z.widgets = widgets
      /\ bus.owner # 0 => News(z.shell) /\ Intents(z.shell, z.widgets, Queue(z))
  BY <1>1, <1>2, WorldTyped
<1>4. PICK v : v = z.widgets[w]
  OBVIOUS
<1>5. PICK f, n : n = [v EXCEPT !.alive = FALSE, !.presented = FALSE] /\ f = [z.widgets EXCEPT ![w] = n]
  OBVIOUS
<1>6. PICK t, r, x, c, y : /\ t = [shell EXCEPT !.overtaken = shell.overtaken \ {w}]
                           /\ r = [z EXCEPT !.shell = t] /\ x = [r EXCEPT !.widgets = f]
                           /\ c = [Call(z, "Dismiss", w) EXCEPT !.lifetime = 0] /\ y = Send(x, c)
  OBVIOUS
<1>7. Happens(y)
  <2>1. Happens(Send([World EXCEPT !.shell.overtaken = @ \ {w},
                                   !.widgets[w] = [@ EXCEPT !.alive = FALSE, !.presented = FALSE]],
                     [Call(World, "Dismiss", w) EXCEPT !.lifetime = 0]))
    BY DEF Destroy
  <2>2. x = [World EXCEPT !.shell.overtaken = @ \ {w},
                          !.widgets[w] = [@ EXCEPT !.alive = FALSE, !.presented = FALSE]]
    BY <1>2, <1>4, <1>5, <1>6 DEF World
  <2> QED BY <1>2, <1>6, <2>1, <2>2
<1>8. v \in Flags /\ WidgetsOK(z.widgets)
  BY <1>1, <1>3, <1>4 DEF Typed, WidgetsOK
<1>9. n \in Flags /\ ~n.alive /\ ~n.presented
  BY <1>5, <1>8 DEF Flags
<1>10. WidgetsOK(f) /\ f[w] = n /\ \A u \in Widget \ {w} : f[u] = z.widgets[u]
  <2>1. f = [z.widgets EXCEPT ![w] = n] /\ (n.presented => n.alive) /\ n \in Flags
    BY <1>5, <1>9
  <2> QED BY <1>8, <2>1, WidgetSet
<1>11. /\ Knows(t) /\ ShellOK(t) /\ t.name = shell.name /\ t.inbox = shell.inbox
       /\ t.lifetime = shell.lifetime /\ t.registered = shell.registered
       /\ t.overtaken = shell.overtaken \ {w}
  <2>1. Knows(shell) /\ ShellOK(shell)
    BY <1>3 DEF Typed, Wired
  <2>2. /\ Knows(t) /\ t.name = shell.name /\ t.inbox = shell.inbox
        /\ t.lifetime = shell.lifetime /\ t.registered = shell.registered
        /\ t.overtaken = shell.overtaken \ {w}
    BY <1>6, <2>1, OvertakenKnows
  <2>3. ShellOK(t)
    BY <2>1, <2>2, OvertakenFrame
  <2> QED BY <2>2, <2>3
<1>12. Typed(r) /\ r.shell = t /\ r.widgets = z.widgets /\ Queue(r) = Queue(z)
  <2>1. r = [z EXCEPT !.shell = t] /\ t.name = z.shell.name /\ t.lifetime = z.shell.lifetime
    BY <1>3, <1>6, <1>11
  <2> QED BY <1>3, <1>11, <2>1, ShellTyped
<1>13. Typed(x) /\ x.widgets = f /\ x.shell = t /\ Queue(x) = Queue(z)
  <2>1. x = [r EXCEPT !.widgets = f]
    BY <1>6
  <2>2. WidgetsOK(f) /\ Typed(r)
    BY <1>10, <1>12
  <2>3. Typed(x) /\ x.widgets = f /\ x.shell = r.shell /\ Queue(x) = Queue(r)
    BY <2>1, <2>2, WidgetTyped
  <2> QED BY <1>12, <2>3
<1>14. /\ c.kind = "Dismiss" /\ c.name = z.shell.name /\ c.widget = w /\ c.lifetime = 0
       /\ 0 <= t.lifetime /\ c.name = t.name
  BY <1>3, <1>6, <1>11 DEF Call, ShellOK
<1>15. Typed(y)
  <2>1. CallOK(c)
    BY <1>14 DEF CallOK
  <2> QED BY <1>3, <1>6, <1>13, <1>14, <2>1, SendTyped
<1>16. ASSUME bus.owner # 0
       PROVE  News(y.shell) /\ Intents(y.shell, y.widgets, Queue(y))
  <2>1. /\ y = Send([r EXCEPT !.widgets = f], c) /\ c.kind \in {"Present", "Dismiss"}
        /\ c.name = r.shell.name /\ c.lifetime \in Nat /\ c.lifetime <= r.shell.lifetime
    <3>1. y = Send([r EXCEPT !.widgets = f], c)
      BY <1>6
    <3>2. /\ c.kind \in {"Present", "Dismiss"} /\ c.name = r.shell.name
          /\ c.lifetime \in Nat /\ c.lifetime <= r.shell.lifetime
      BY <1>14, <1>12
    <3> QED BY <3>1, <3>2
  <2>2. /\ y.shell = t /\ y.widgets = f
        /\ \A u \in Widget \ {w} :
             /\ Fine(t, widgets[u], Queue(z), u) => Fine(y.shell, y.widgets[u], Queue(y), u)
             /\ Wanted(t, widgets[u], Queue(z), u) => Wanted(y.shell, y.widgets[u], Queue(y), u)
        /\ ~Predict(y.shell.name, Queue(y), w)
    <3>1. \A u \in Widget \ {w} : f[u] = r.widgets[u]
      BY <1>10, <1>12
    <3>2. /\ y.shell = r.shell /\ y.widgets = f
          /\ \A u \in Widget \ {w} :
               /\ Fine(r.shell, r.widgets[u], Queue(r), u) <=> Fine(y.shell, y.widgets[u], Queue(y), u)
               /\ Wanted(r.shell, r.widgets[u], Queue(r), u) <=> Wanted(y.shell, y.widgets[u], Queue(y), u)
          /\ Predict(y.shell.name, Queue(y), w) <=> c.kind = "Present"
      BY <1>3, <1>10, <1>14, <1>16, <1>12, <2>1, <3>1, CallEffect
    <3> QED BY <1>3, <1>14, <1>12, <3>2
  <2>3. News(t) /\ Intents(shell, widgets, Queue(z))
    <3>1. News(shell) /\ Intents(shell, widgets, Queue(z))
      BY <1>3, <1>16
    <3> QED BY <1>11, <3>1, OvertakenFrame
  <2>4. CASE Noticed(shell.inbox)
    <3>1. \A u \in Widget : Wanted(shell, widgets[u], Queue(z), u)
      BY <2>3, <2>4 DEF Intents
    <3>2. \A u \in Widget \ {w} : Wanted(t, widgets[u], Queue(z), u)
      BY <1>11, <3>1, OvertakenFrame
    <3>3. \A u \in Widget : Wanted(y.shell, y.widgets[u], Queue(y), u)
      BY <2>2, <3>2 DEF Wanted
    <3> QED BY <1>11, <2>2, <2>3, <2>4, <3>3 DEF Intents
  <2>5. CASE ~Noticed(shell.inbox)
    <3>1. shell.registered /\ Confirmed(shell) /\ \A u \in Widget : Fine(shell, widgets[u], Queue(z), u)
      BY <2>3, <2>5 DEF Intents
    <3>2. ~Noticed(t.inbox) /\ t.registered /\ Confirmed(t)
      BY <1>11, <2>5, <3>1, OvertakenFrame
    <3>3. \A u \in Widget \ {w} : Fine(t, widgets[u], Queue(z), u)
      BY <1>11, <3>1, OvertakenFrame
    <3>4. Fine(y.shell, y.widgets[w], Queue(y), w)
      BY <1>9, <1>10, <2>2 DEF Fine
    <3>5. \A u \in Widget : Fine(y.shell, y.widgets[u], Queue(y), u)
      BY <2>2, <3>3, <3>4
    <3> QED BY <2>2, <2>3, <3>2, <3>5, FineIntents
  <2> QED BY <2>4, <2>5
<1> QED BY <1>1, <1>3, <1>7, <1>15, <1>16, ReactionHolds

(* The first message is read: what remains to be read.                        *)
Remains(sh, t) ==
  /\ t.inbox = Tail(sh.inbox) /\ t.name = sh.name /\ t.lifetime = sh.lifetime
  /\ t.overtaken = sh.overtaken
  /\ Knows(t) /\ ShellOK(t)

(* What remains is a shell as before.                                         *)
LEMMA RestKept ==
  ASSUME NEW sh, Knows(sh), ShellOK(sh), sh.inbox # <<>>
  PROVE  LET t == [sh EXCEPT !.inbox = Tail(sh.inbox)]
         IN  Remains(sh, t) /\ t.registered = sh.registered
<1> DEFINE q == sh.inbox
           r == Tail(q)
           t == [sh EXCEPT !.inbox = r]
<1>1. Sequenced(r) /\ \A i \in DOMAIN r : i + 1 \in DOMAIN q /\ r[i] = q[i + 1]
  BY Taken DEF Knows
<1>2. sh.name # 0
  BY DEF ShellOK
<1> HIDE DEF r
<1>3. /\ t.inbox = r /\ t.name = sh.name /\ t.lifetime = sh.lifetime /\ t.registered = sh.registered
      /\ t.view = sh.view /\ t.overtaken = sh.overtaken
      /\ {"name", "inbox", "registered", "lifetime", "view", "overtaken"} \subseteq DOMAIN t
  BY DEF Knows
<1> HIDE DEF t
<1>4. Knows(t)
  BY <1>1, <1>3 DEF Knows
<1>5. ShellOK(t)
  <2>1. ASSUME NEW i \in DOMAIN r, r[i].kind = "Reply"
        PROVE  ReplyOK(r[i], t)
    <3>1. ReplyOK(q[i + 1], sh) /\ r[i] = q[i + 1]
      BY <1>1, <2>1 DEF ShellOK
    <3> QED BY <1>3, <3>1 DEF ReplyOK
  <2> QED BY <1>2, <1>3, <2>1 DEF ShellOK
<1> QED BY <1>3, <1>4, <1>5 DEF Remains, t, r

(* What the first message was matters to the rest.                            *)
LEMMA RestOfNews ==
  ASSUME NEW sh, Knows(sh), sh.inbox # <<>>, News(sh), NEW t, t.inbox = Tail(sh.inbox), t.lifetime = sh.lifetime
  PROVE  /\ News(t) /\ Head(sh.inbox) = sh.inbox[1] /\ 1 \in DOMAIN sh.inbox
         /\ Head(sh.inbox).kind \in Kinds
         /\ Confirmed(sh) => Confirmed(t)
         /\ Head(sh.inbox).kind = "Registered" => Noticed(sh.inbox)
         /\ Head(sh.inbox).kind # "Registered" => (Noticed(sh.inbox) <=> Noticed(t.inbox))
         /\ Head(sh.inbox).kind = "Lost" => Noticed(t.inbox)
<1> DEFINE q == sh.inbox
           r == t.inbox
<1>1. /\ Len(q) \in Nat \ {0} /\ DOMAIN q = 1..Len(q) /\ DOMAIN r = 1..(Len(q) - 1)
      /\ 1 \in DOMAIN q /\ Head(q) = q[1]
      /\ \A i \in DOMAIN r : i + 1 \in DOMAIN q /\ r[i] = q[i + 1]
      /\ \A i \in DOMAIN q : i = 1 \/ (i - 1 \in DOMAIN r /\ q[i] = r[i - 1])
  BY Taken DEF Knows
<1> HIDE DEF q, r
<1>2. \A i \in DOMAIN q : q[i].kind = "Lost" => \E j \in DOMAIN q : j > i /\ q[j].kind = "Registered"
  BY DEF News, q
<1>3. ASSUME NEW i \in DOMAIN r, r[i].kind = "Lost"
      PROVE  \E j \in DOMAIN r : j > i /\ r[j].kind = "Registered"
  <2>1. PICK j \in DOMAIN q : j > i + 1 /\ q[j].kind = "Registered"
    BY <1>1, <1>2, <1>3
  <2>2. j - 1 \in DOMAIN r /\ r[j - 1] = q[j] /\ j - 1 > i
    BY <1>1, <1>3, <2>1
  <2> QED BY <2>1, <2>2
<1>4. News(t)
  BY <1>3 DEF News, r
<1>5. q[1].kind = "Lost" => Noticed(r)
  <2> SUFFICES ASSUME q[1].kind = "Lost" PROVE Noticed(r)
    OBVIOUS
  <2>1. PICK j \in DOMAIN q : j > 1 /\ q[j].kind = "Registered"
    BY <1>1, <1>2
  <2>2. j - 1 \in DOMAIN r /\ r[j - 1] = q[j]
    BY <1>1, <2>1
  <2> QED BY <2>1, <2>2 DEF Noticed
<1>6. q[1].kind # "Registered" => (Noticed(q) <=> Noticed(r))
  BY <1>1 DEF Noticed
<1>7. q[1].kind = "Registered" => Noticed(q)
  BY <1>1 DEF Noticed
<1>8. Confirmed(sh) => Confirmed(t)
  BY <1>1 DEF Confirmed, q, r
<1>9. q[1].kind \in Kinds
  BY <1>1 DEF Knows, q
<1> QED BY <1>1, <1>4, <1>5, <1>6, <1>7, <1>8, <1>9 DEF q, r

(* Widgets that the first message is not about stay as they are.              *)
LEMMA RestFine ==
  ASSUME NEW sh, Knows(sh), sh.inbox # <<>>, NEW t, Remains(sh, t),
         NEW w, ~About(Head(sh.inbox), sh.name, w, sh.lifetime), NEW v, NEW q, Fine(sh, v, q, w)
  PROVE  Fine(t, v, q, w)
<1>0. PICK inbox, n, lifetime : inbox = sh.inbox /\ n = sh.name /\ lifetime = sh.lifetime
  OBVIOUS
<1>1. /\ None(Tail(inbox), n, w, lifetime) <=> None(inbox, n, w, lifetime)
      /\ \A kind : One(Tail(inbox), kind, n, w, lifetime) <=> One(inbox, kind, n, w, lifetime)
  <2>1. Sequenced(inbox) /\ inbox # <<>> /\ ~About(Head(inbox), n, w, lifetime)
    BY <1>0 DEF Knows
  <2> QED BY <2>1, AboutTail
<1>3. t.name = n /\ t.lifetime = lifetime /\ t.inbox = Tail(inbox) /\ t.overtaken = sh.overtaken
  BY <1>0 DEF Remains
<1>2. /\ Unasked(sh, q, w) => Unasked(t, q, w)
      /\ \A kind : Awaits(sh, q, w, kind) => Awaits(t, q, w, kind)
  BY <1>0, <1>1, <1>3 DEF Unasked, Awaits
<1> QED BY <1>0, <1>2, <1>3 DEF Fine, Granted

(* The reply that a widget waits for.                                         *)
LEMMA AwaitedReply ==
  ASSUME NEW sh, Knows(sh), sh.inbox # <<>>, NEW t, Remains(sh, t), NEW m, m = Head(sh.inbox),
         m.kind = "Reply", ReplyOK(m, sh), m.call.lifetime = sh.lifetime,
         NEW w, w = m.call.widget, NEW v, NEW q, Fine(sh, v, q, w)
  PROVE  /\ ~v.alive => ~Predict(t.name, q, w)
         /\ v.alive => (Predict(t.name, q, w) <=> m.call.kind = "Present") /\ Unasked(t, q, w)
<1>1. About(m, sh.name, w, sh.lifetime) /\ Subject(m).kind = m.call.kind
  BY DEF About, Subject, ReplyOK
<1>2. /\ ~None(sh.inbox, sh.name, w, sh.lifetime)
      /\ \A kind : One(sh.inbox, kind, sh.name, w, sh.lifetime)
                    => Subject(m).kind = kind /\ None(t.inbox, sh.name, w, sh.lifetime)
  BY <1>1, AboutTail DEF Knows, Remains
<1>3. t.name = sh.name /\ t.lifetime = sh.lifetime
  BY DEF Remains
<1>4. ASSUME v.alive
      PROVE  (Predict(t.name, q, w) <=> m.call.kind = "Present") /\ Unasked(t, q, w)
  <2>1. PICK kind \in {"Present", "Dismiss"} :
          (Predict(sh.name, q, w) <=> kind = "Present") /\ Awaits(sh, q, w, kind)
    BY <1>2, <1>4 DEF Fine, Unasked
  <2>2. One(sh.inbox, kind, sh.name, w, sh.lifetime) /\ None(q, sh.name, w, sh.lifetime)
    BY <1>2, <2>1 DEF Awaits
  <2>3. m.call.kind = kind /\ None(t.inbox, sh.name, w, sh.lifetime)
    BY <1>1, <1>2, <2>2
  <2> QED BY <1>3, <2>1, <2>2, <2>3 DEF Unasked
<1> QED BY <1>3, <1>4 DEF Fine

(* The intents, where a message of the inbox was read that is about no widget. *)
LEMMA RestIntents ==
  ASSUME NEW sh, Knows(sh), sh.inbox # <<>>, NEW t, Remains(sh, t), t.registered = sh.registered,
         News(sh), Head(sh.inbox).kind # "Registered",
         NEW ws, NEW q, Intents(sh, ws, q),
         \A w \in Widget : ~About(Head(sh.inbox), sh.name, w, sh.lifetime)
  PROVE  News(t) /\ Intents(t, ws, q)
<1>1. /\ News(t) /\ (Confirmed(sh) => Confirmed(t)) /\ (Noticed(sh.inbox) <=> Noticed(t.inbox))
      /\ t.name = sh.name /\ t.overtaken = sh.overtaken
  BY RestOfNews DEF Remains
<1>2. CASE Noticed(sh.inbox)
  BY <1>1, <1>2 DEF Intents, Wanted
<1>3. CASE ~Noticed(sh.inbox)
  <2>1. \A w \in Widget : Fine(sh, ws[w], q, w)
    BY <1>3 DEF Intents
  <2>2. \A w \in Widget : Fine(t, ws[w], q, w)
    BY <2>1, RestFine
  <2> QED BY <1>1, <1>3, <2>2 DEF Intents
<1> QED BY <1>1, <1>2, <1>3

(* A reply is read: the widget that waits for it is fine afterwards.          *)
LEMMA ReplyRead ==
  ASSUME Acting, bus.owner # 0, NEW z, Typed(z), z.shell.inbox # <<>>, News(z.shell),
         Intents(z.shell, z.widgets, Queue(z)),
         NEW m, m = Head(z.shell.inbox), m.kind = "Reply", ReplyOK(m, z.shell),
         NEW x, Typed(x), Remains(z.shell, x.shell), x.shell.registered = z.shell.registered,
         x.widgets = z.widgets, Queue(x) = Queue(z), NEW y, y = Settled(x, m)
  PROVE  News(y.shell) /\ Intents(y.shell, y.widgets, Queue(y))
<1> DEFINE sh == z.shell
           t  == x.shell
           ws == x.widgets
           q  == Queue(x)
<1>1. sh = z.shell /\ t = x.shell /\ ws = x.widgets /\ q = Queue(x)
  OBVIOUS
<1>2. /\ Knows(sh) /\ sh.inbox # <<>> /\ Remains(sh, t) /\ News(sh) /\ Intents(sh, ws, q)
      /\ t.registered = sh.registered /\ m = Head(sh.inbox) /\ ReplyOK(m, sh)
      /\ t.name = sh.name /\ t.lifetime = sh.lifetime /\ t.overtaken = sh.overtaken
  BY <1>1 DEF Typed, Wired, Remains
<1>3. ReplyOK(m, x.shell)
  BY <1>1, <1>2 DEF ReplyOK
<1>4. /\ News(t) /\ (Confirmed(sh) => Confirmed(t)) /\ (Noticed(sh.inbox) <=> Noticed(t.inbox))
      /\ Head(sh.inbox) = sh.inbox[1] /\ 1 \in DOMAIN sh.inbox
  BY <1>2, RestOfNews DEF Remains
<1>5. /\ y.shell = t
      /\ m.call.lifetime # t.lifetime => y = x
      /\ \A u \in Widget : Wanted(t, ws[u], q, u) => Wanted(y.shell, y.widgets[u], Queue(y), u)
      /\ m.ok /\ m.call.lifetime = t.lifetime =>
           \A u \in Widget \ {m.call.widget} :
             Fine(t, ws[u], q, u) => Fine(y.shell, y.widgets[u], Queue(y), u)
      /\ LET w == m.call.widget
             h == Predict(t.name, q, w)
         IN  /\ m.ok /\ m.call.lifetime = t.lifetime /\ t.registered
             /\ ~ws[w].alive => ~h
             /\ ws[w].alive => (h <=> m.call.kind = "Present") /\ Unasked(t, q, w)
             => Fine(y.shell, y.widgets[w], Queue(y), w)
  <2>1. Replied(x, m, y)
    BY <1>3, SettledKeeps
  <2> QED BY <2>1 DEF Replied
<1> HIDE DEF sh, t, ws, q
<1>6. CASE Noticed(sh.inbox)
  <2>1. \A u \in Widget : Wanted(t, ws[u], q, u)
    BY <1>2, <1>6 DEF Intents, Wanted
  <2> QED BY <1>4, <1>5, <1>6, <2>1 DEF Intents
<1>7. CASE ~Noticed(sh.inbox)
  <2>1. Confirmed(sh) /\ sh.registered /\ \A u \in Widget : Fine(sh, ws[u], q, u)
    BY <1>2, <1>7 DEF Intents
  <2>2. CASE m.call.lifetime # t.lifetime
    <3>1. \A w \in Widget : ~About(m, sh.name, w, sh.lifetime)
      BY <1>2, <2>2 DEF About, Subject
    <3>2. Intents(t, ws, q)
      BY <1>2, <3>1, RestIntents
    <3> QED BY <1>1, <1>4, <1>5, <2>2, <3>2
  <2>3. CASE m.call.lifetime = t.lifetime
    <3>1. m.ok
      BY <1>2, <1>4, <2>1, <2>3 DEF Confirmed
    <3>2. PICK w : w = m.call.widget
      OBVIOUS
    <3>3. w \in Widget
      BY <1>2, <3>2 DEF ReplyOK
    <3>4. \A u \in Widget \ {w} : Fine(t, ws[u], q, u)
      <4>1. \A u \in Widget \ {w} : ~About(m, sh.name, u, sh.lifetime)
        BY <3>2 DEF About, Subject
      <4> QED BY <1>2, <2>1, <4>1, RestFine
    <3>5. PICK v : v = ws[w]
      OBVIOUS
    <3>6. /\ ~v.alive => ~Predict(t.name, q, w)
          /\ v.alive => (Predict(t.name, q, w) <=> m.call.kind = "Present") /\ Unasked(t, q, w)
      <4>1. Fine(sh, v, q, w) /\ m.call.lifetime = sh.lifetime
        BY <1>2, <2>1, <2>3, <3>3, <3>5
      <4>2. /\ Knows(sh) /\ sh.inbox # <<>> /\ Remains(sh, t) /\ m = Head(sh.inbox) /\ m.kind = "Reply"
            /\ ReplyOK(m, sh) /\ w = m.call.widget
        BY <1>2, <3>2
      <4> QED BY <4>1, <4>2, AwaitedReply
    <3>7. Fine(y.shell, y.widgets[w], Queue(y), w)
      BY <1>2, <1>5, <2>1, <2>3, <3>1, <3>2, <3>5, <3>6
    <3>8. \A u \in Widget : Fine(y.shell, y.widgets[u], Queue(y), u)
      BY <1>5, <2>3, <3>1, <3>2, <3>4, <3>7
    <3>9. ~Noticed(y.shell.inbox) /\ y.shell.registered /\ Confirmed(y.shell)
      BY <1>2, <1>4, <1>5, <1>7, <2>1
    <3> QED BY <1>4, <1>5, <3>8, <3>9, FineIntents
  <2> QED BY <2>2, <2>3
<1> QED BY <1>6, <1>7

(* The shell reads its news: of a loss, of a registration, of a value.        *)
LEMMA ReadHolds ==
  ASSUME AppletAssumption, IInv, ViewInv, LeaseInv, ShellReads
  PROVE  LeaseInv'
<1>1. shell.inbox # <<>> /\ UNCHANGED <<bus, events, daemon>>
  BY DEF ShellReads
<1>2. shell.name # 0
  BY <1>1 DEF LeaseInv, Desk, ShellOK
<1>3. PICK z, sh : z = World /\ sh = shell
  OBVIOUS
<1>4. /\ Acting /\ Typed(z) /\ z.shell = sh
      /\ bus.owner # 0 => News(sh) /\ Intents(sh, z.widgets, Queue(z))
  BY <1>2, <1>3, WorldTyped
<1>5. PICK m, t, x : /\ m = Head(sh.inbox) /\ t = [sh EXCEPT !.inbox = Tail(sh.inbox)]
                     /\ x = [z EXCEPT !.shell = t]
  OBVIOUS
<1>6. /\ Knows(sh) /\ ShellOK(sh) /\ sh.inbox # <<>> /\ Knows(t) /\ ShellOK(t)
      /\ Remains(sh, t) /\ t.registered = sh.registered /\ t.name = sh.name /\ t.lifetime = sh.lifetime
      /\ t.overtaken = sh.overtaken
  <2>1. Knows(sh) /\ ShellOK(sh) /\ sh.inbox # <<>>
    BY <1>1, <1>3, <1>4 DEF Typed, Wired
  <2> QED BY <1>5, <2>1, RestKept DEF Remains
<1>7. Typed(x) /\ x.shell = t /\ x.widgets = z.widgets /\ Queue(x) = Queue(z)
  <2>1. x = [z EXCEPT !.shell = t] /\ Typed(z) /\ t.name = z.shell.name /\ t.lifetime = z.shell.lifetime
    BY <1>4, <1>5, <1>6
  <2> QED BY <1>6, <2>1, ShellTyped
<1>8. PICK y : y = Read(x, m)
  OBVIOUS
<1>9. Happens(y)
  <2>1. Happens(Read([World EXCEPT !.shell.inbox = Tail(@)], Head(shell.inbox)))
    BY DEF ShellReads
  <2>2. x = [World EXCEPT !.shell.inbox = Tail(@)]
    BY <1>3, <1>4, <1>5
  <2> QED BY <1>3, <1>5, <1>8, <2>1, <2>2
<1>10. m.kind \in Kinds /\ m = sh.inbox[1] /\ 1 \in DOMAIN sh.inbox
  BY <1>5, <1>6, Taken DEF Knows
<1>11. bus.owner # 0 => News(t)
  BY <1>4, <1>6, RestOfNews DEF Remains
<1>12. CASE m.kind = "Lost"
  <2>1. PICK u : u = [t EXCEPT !.registered = FALSE]
    OBVIOUS
  <2>2. /\ u.name = t.name /\ u.inbox = t.inbox /\ u.lifetime = t.lifetime /\ u.view = t.view
        /\ u.overtaken = t.overtaken
        /\ {"name", "inbox", "registered", "lifetime", "view", "overtaken"} \subseteq DOMAIN u
    BY <1>6, <2>1 DEF Knows
  <2>3. Knows(u) /\ ShellOK(u)
    BY <1>6, <2>2 DEF Knows, ShellOK, ReplyOK
  <2>4. y = [x EXCEPT !.shell = u]
    BY <1>7, <1>8, <1>12, <2>1 DEF Read
  <2>5. Typed(y) /\ y.shell = u /\ y.widgets = x.widgets /\ Queue(y) = Queue(x)
    BY <1>7, <2>2, <2>3, <2>4, ShellTyped
  <2>6. ASSUME bus.owner # 0
        PROVE  News(u) /\ Intents(u, x.widgets, Queue(x))
    <3>1. Noticed(t.inbox) /\ Noticed(sh.inbox)
      <4>1. Head(sh.inbox).kind = "Lost" /\ News(sh) /\ t.inbox = Tail(sh.inbox)
        BY <1>4, <1>5, <1>6, <1>12, <2>6 DEF Remains
      <4>2. Head(sh.inbox).kind # "Registered"
        BY <4>1
      <4> QED BY <1>6, <4>1, <4>2, RestOfNews
    <3>2. \A w \in Widget : Wanted(u, x.widgets[w], Queue(x), w)
      BY <1>4, <1>6, <1>7, <2>2, <2>6, <3>1 DEF Intents, Wanted
    <3> QED BY <1>11, <2>2, <2>6, <3>1, <3>2 DEF Intents, News
  <2> QED BY <1>1, <1>4, <1>9, <2>5, <2>6, ReactionHolds
<1>13. CASE m.kind = "Changed"
  <2>1. PICK u : u = [t EXCEPT !.view = [p \in DOMAIN t.view
                              |-> IF p \in DOMAIN m.values THEN m.values[p] ELSE t.view[p]]]
    OBVIOUS
  <2>2. /\ u.name = t.name /\ u.inbox = t.inbox /\ u.lifetime = t.lifetime /\ u.overtaken = t.overtaken
        /\ u.registered = t.registered /\ u.view = [p \in Props |-> u.view[p]]
        /\ {"name", "inbox", "registered", "lifetime", "view", "overtaken"} \subseteq DOMAIN u
    BY <1>6, <2>1 DEF Knows
  <2>3. Knows(u) /\ ShellOK(u)
    BY <1>6, <2>2 DEF Knows, ShellOK, ReplyOK
  <2>4. y = [x EXCEPT !.shell = u]
    BY <1>7, <1>8, <1>13, <2>1 DEF Read
  <2>5. Typed(y) /\ y.shell = u /\ y.widgets = x.widgets /\ Queue(y) = Queue(x)
    BY <1>7, <2>2, <2>3, <2>4, ShellTyped
  <2>6. ASSUME bus.owner # 0
        PROVE  News(u) /\ Intents(u, x.widgets, Queue(x))
    <3>1. Remains(sh, u) /\ u.registered = sh.registered
      BY <1>6, <2>2, <2>3 DEF Remains
    <3>2. Head(sh.inbox).kind # "Registered" /\ \A w \in Widget : ~About(Head(sh.inbox), sh.name, w, sh.lifetime)
      BY <1>5, <1>13 DEF About
    <3> QED BY <1>4, <1>6, <1>7, <2>6, <3>1, <3>2, RestIntents
  <2> QED BY <1>1, <1>4, <1>9, <2>5, <2>6, ReactionHolds
<1>14. CASE m.kind = "Reply"
  <2>1. ReplyOK(m, sh)
    BY <1>6, <1>10, <1>14 DEF ShellOK
  <2>2. y = Settled(x, m) /\ ReplyOK(m, x.shell)
    BY <1>6, <1>7, <1>8, <1>14, <2>1 DEF Read, ReplyOK
  <2>3. Typed(y)
    BY <1>4, <1>7, <2>2, SettledTyped
  <2>4. bus.owner # 0 => News(y.shell) /\ Intents(y.shell, y.widgets, Queue(y))
    BY <1>4, <1>5, <1>6, <1>7, <1>14, <2>1, <2>2, ReplyRead
  <2> QED BY <1>1, <1>4, <1>9, <2>3, <2>4, ReactionHolds
<1>15. CASE m.kind = "Registered"
  <2>1. y = DaemonRegistered(x)
    BY <1>8, <1>15 DEF Read
  <2>2. /\ Typed(y)
        /\ bus.owner # 0 /\ (\A u \in Widget : Wanted(x.shell, x.widgets[u], Queue(x), u)) =>
             /\ y.shell.registered /\ y.shell.inbox = x.shell.inbox /\ Confirmed(y.shell)
             /\ \A u \in Widget : /\ Wanted(y.shell, y.widgets[u], Queue(y), u)
                                  /\ Fine(y.shell, y.widgets[u], Queue(y), u)
    BY <1>4, <1>7, <2>1, RegisteredKeeps
  <2>3. ASSUME bus.owner # 0
        PROVE  News(y.shell) /\ Intents(y.shell, y.widgets, Queue(y))
    <3>1. Noticed(sh.inbox)
      BY <1>10, <1>15 DEF Noticed
    <3>2. \A u \in Widget : Wanted(x.shell, x.widgets[u], Queue(x), u)
      BY <1>4, <1>6, <1>7, <2>3, <3>1 DEF Intents, Wanted
    <3> QED BY <1>7, <1>11, <2>2, <2>3, <3>2 DEF Intents, News
  <2> QED BY <1>1, <1>4, <1>9, <2>2, <2>3, ReactionHolds
<1> QED BY <1>10, <1>12, <1>13, <1>14, <1>15 DEF Kinds

-----------------------------------------------------------------------------
(* The steps at a distance from the connection that owns the name.            *)

(* Clients are tracked as they were.                                          *)
LEMMA TracksKept ==
  ASSUME NEW k, Tracks(k), SameShell, \A n : Departed(n)' <=> Departed(n),
         \A n, w : Lease(n, w)' => Lease(n, w)
  PROVE  Tracks(k)'
<1>1. Signed(k)'
  BY DEF Tracks, Signed, Given, SameShell
<1>2. Leaving(k)'
  BY DEF Tracks, Leaving, Reported, Leaves, Waits, SameShell
<1> QED BY <1>1, <1>2 DEF Tracks

(* What is held stays held, for the shell at least.                           *)
LEMMA BoundKept ==
  ASSUME NEW k, Bound(k), UNCHANGED <<bus, shell, widgets>>, \A n : Departed(n)' <=> Departed(n),
         \A n, w : Lease(n, w)' => Lease(n, w),
         \A n, w : Lease(n, w) /\ ~Departed(n) => Lease(n, w)'
  PROVE  Bound(k)'
<1>1. Tracks(k)'
  BY TracksKept DEF Bound, SameShell
<1>2. ASSUME shell.name # 0
      PROVE  Intents(shell, widgets, k.calls)'
  <2>1. PICK sh, ws, q : sh = shell /\ ws = widgets /\ q = k.calls
    OBVIOUS
  <2>2. ~Departed(sh.name)
    BY <1>2, <2>1 DEF Bound, Tracks, Leaving, Reported
  <2>3. \A w \in Widget : Predict(sh.name, q, w)' <=> Predict(sh.name, q, w)
    BY <2>2, PredictAnew
  <2>4. Intents(sh, ws, q)
    BY <1>2, <2>1 DEF Bound
  <2>5. Intents(sh, ws, q)'
    BY <2>3, <2>4, IntentsAnew
  <2>6. sh = shell' /\ ws = widgets'
    BY <2>1
  <2> QED BY <2>1, <2>5, <2>6 DEF Intents, Noticed, Wanted, Confirmed, Fine, Granted, Predict, Awaits, Unasked
<1> QED BY <1>1, <1>2 DEF Bound, News

(* The other parts of the system: nothing of the protocol changes.            *)
LEMMA ElsewhereHolds ==
  ASSUME IInv, LeaseInv, UNCHANGED <<bus, shell, widgets, events, daemon>>,
         Links', Table', bus.owner # 0 => service'.connections[bus.owner] = service.connections[bus.owner]
  PROVE  LeaseInv'
<1>1. Desk'
  BY DEF LeaseInv, Desk, ShellOK, ReplyOK, WidgetsOK
<1>2. ASSUME bus.owner # 0
      PROVE  Bound(service.connections[bus.owner])'
  <2>1. PICK k : k = service.connections[bus.owner] /\ k = service'.connections[bus.owner]
    BY <1>2
  <2>2. Bound(k)
    BY <1>2, <2>1 DEF LeaseInv
  <2>3. Bound(k)'
    BY <2>2, EventsKept, BoundKept
  <2> QED BY <2>1, <2>3
<1> QED BY <1>1, <1>2 DEF LeaseInv

(* The panel is published, the emitter wakes: no lease is concerned.          *)
LEMMA QuietHolds ==
  ASSUME IInv, LeaseInv, UNCHANGED <<bus, shell, widgets, service, events, daemon>>
  PROVE  LeaseInv'
<1>1. Table' /\ Links'
  BY TableKept DEF LeaseInv, Links, LinkOK, CallOK, NewConnection, Sequenced
<1> QED BY <1>1, ElsewhereHolds

(* The daemon handles an event.                                               *)
LEMMA HandleHolds ==
  ASSUME IInv, LeaseInv, HandleEvent
  PROVE  LeaseInv'
<1>1. UNCHANGED <<bus, shell, widgets, service>>
  BY DEF HandleEvent
<1>2. /\ Table' /\ \A n : Departed(n)' <=> Departed(n)
      /\ \A n, w : Lease(n, w)' => Lease(n, w)
      /\ \A n, w : Lease(n, w) /\ ~Departed(n) => Lease(n, w)'
  BY EventTaken DEF LeaseInv
<1>3. Desk' /\ Links'
  BY <1>1 DEF LeaseInv, Links, LinkOK, CallOK, NewConnection, Sequenced, Desk, ShellOK, ReplyOK, WidgetsOK
<1>4. ASSUME bus.owner # 0
      PROVE  Bound(service.connections[bus.owner])'
  <2>1. PICK k : k = service.connections[bus.owner]
    OBVIOUS
  <2>2. Bound(k)
    BY <1>4, <2>1 DEF LeaseInv
  <2>3. Bound(k)'
    BY <1>1, <1>2, <2>2, BoundKept
  <2> QED BY <1>1, <2>1, <2>3
<1> QED BY <1>1, <1>2, <1>3, <1>4 DEF LeaseInv

(* The loss is the last event of its connection.                              *)
LEMMA RetireHolds ==
  ASSUME IInv, LeaseInv, Retire
  PROVE  LeaseInv'
<1>1. /\ events' = Append(events, Lost(service.epoch)) /\ UNCHANGED <<bus, shell, widgets, daemon>>
      /\ service.phase = "Retiring" /\ bus.owner = 0
      /\ service'.epoch = service.epoch /\ service'.connections = service.connections
  BY DEF Retire, IInv, TypeOK, Shape
<1>2. EventOK(Lost(service.epoch)) /\ Lost(service.epoch).kind = "ConnectionLost"
  BY DEF EventOK, Lost, Gone, Event
<1>3. Table'
  BY <1>1, <1>2, TablePut DEF LeaseInv
<1>4. Desk' /\ Links'
  BY <1>1 DEF LeaseInv, Links, LinkOK, CallOK, NewConnection, Sequenced, Desk, ShellOK, ReplyOK, WidgetsOK
<1> QED BY <1>1, <1>3, <1>4 DEF LeaseInv

(* A connection that is not the owner's.                                      *)
LEMMA OthersHold ==
  ASSUME IInv, ViewInv, LeaseInv, NEW e \in Epoch, e # bus.owner, Connection(e)
  PROVE  LeaseInv'
<1>1. /\ Table' /\ Links' /\ UNCHANGED <<bus, shell, widgets, daemon>>
      /\ \A f \in Epoch \ {e} : service'.connections[f] = service.connections[f]
      /\ bus.owner # 0 => UNCHANGED <<events, shell>>
  BY ConnectionLinks DEF LeaseInv
<1>2. CASE bus.owner = 0
  <2>1. Desk'
    BY <1>1 DEF LeaseInv, Desk, ShellOK, ReplyOK, WidgetsOK
  <2> QED BY <1>1, <1>2, <2>1 DEF LeaseInv
<1>3. CASE bus.owner # 0
  <2>1. service'.connections[bus.owner] = service.connections[bus.owner]
    BY <1>1, <1>3, OwnersLink DEF LeaseInv
  <2> QED BY <1>1, <1>3, <2>1, ElsewhereHolds
<1> QED BY <1>2, <1>3

-----------------------------------------------------------------------------
(* Shells that come and go.                                                   *)

(* A call of nobody the daemon knows ends no lease.                           *)
LEMMA StrangerHoldsNothing ==
  ASSUME NEW n, NEW k, Signed(k), ~Given(n), NEW w
  PROVE  ~Predict(n, k.calls, w)
<1>1. ~Lease(n, w)
  BY DEF Signed
<1>2. \A i \in DOMAIN k.calls : k.calls[i].kind = "Present" => ~Ends(k.calls[i], n, w)
  BY DEF Signed, Ends
<1> QED BY <1>1, <1>2 DEF Predict, Holds

(* A shell starts, with a name that no lease or call has.                     *)
LEMMA StartHolds ==
  ASSUME IInv, LeaseInv, StartShell
  PROVE  LeaseInv'
<1>1. /\ UNCHANGED <<widgets, service, events, daemon>> /\ shell.name = 0
      /\ bus' = [bus EXCEPT !.names = bus.names + 1]
  BY DEF StartShell
<1>2. PICK t : t = shell'
  OBVIOUS
<1>3. bus.names \in Nat /\ bus'.names = bus.names + 1 /\ bus'.owner = bus.owner
  BY <1>1 DEF LeaseInv, Desk, IInv, Shape
<1>4. /\ t.name = bus.names + 1 /\ t.lifetime = 1
      /\ t.inbox = IF bus.owner = 0 THEN <<>> ELSE <<[kind |-> "Registered"]>>
  BY <1>2 DEF StartShell, NoShell
<1>5. \A i \in DOMAIN t.inbox : t.inbox[i].kind = "Registered"
  BY <1>4
<1>6. Table' /\ Links'
  BY <1>1, TableKept DEF LeaseInv, Links, LinkOK, CallOK, NewConnection, Sequenced
<1>7. Desk'
  <2>1. ShellOK(t)
    BY <1>3, <1>4, <1>5 DEF ShellOK
  <2>2. ShellOK(shell)'
    BY <1>2, <2>1 DEF ShellOK, ReplyOK
  <2> QED BY <1>1, <1>2, <1>3, <1>4, <2>2 DEF LeaseInv, Desk, WidgetsOK
<1>8. ASSUME bus.owner # 0
      PROVE  Bound(service.connections[bus.owner])'
  <2>1. PICK k : k = service.connections[bus.owner]
    OBVIOUS
  <2>2. Tracks(k)
    BY <1>8, <2>1 DEF LeaseInv, Bound
  <2>3. (\A n : Departed(n)' <=> Departed(n)) /\ (\A n, w : Lease(n, w)' <=> Lease(n, w))
    BY <1>1, EventsKept
  <2>4. \A n : Given(n) => Given(n)' /\ n # t.name /\ n # shell.name
    BY <1>1, <1>3, <1>4 DEF Given
  <2>5. Signed(k)'
    BY <1>2, <2>2, <2>3, <2>4 DEF Tracks, Signed
  <2>6. Leaving(k)'
    <3> SUFFICES ASSUME NEW n
                 PROVE  /\ n = t.name /\ n # 0 => ~Reported(k, n)' /\ ~Leaves(k, n)'
                        /\ (\E w : Lease(n, w)') \/ Waits(k, n)' => n \in k.known \/ Reported(k, n)'
                        /\ n \in k.known /\ n # t.name =>
                             Leaves(k, n)' \/ Reported(k, n)' \/ n \in k.confirming \/ (k.first /\ Waits(k, n)')
      BY <1>2 DEF Leaving
    <3>1. /\ (Reported(k, n)' <=> Reported(k, n)) /\ (Leaves(k, n)' <=> Leaves(k, n))
          /\ (Waits(k, n)' <=> Waits(k, n))
      BY <2>3 DEF Reported, Leaves, Waits
    <3>2. (Reported(k, n) => Given(n)) /\ (Leaves(k, n) => Given(n)) /\ (n \in k.known => Given(n))
      BY <2>2 DEF Tracks, Signed, Reported, Leaves
    <3>3. n = t.name => ~Reported(k, n) /\ ~Leaves(k, n)
      BY <2>4, <3>2
    <3>4. n \in k.known => n # shell.name
      BY <2>4, <3>2
    <3> QED BY <2>2, <2>3, <3>1, <3>3, <3>4 DEF Tracks, Leaving
  <2>7. Intents(t, widgets, k.calls)'
    <3>1. Noticed(t.inbox)
      BY <1>4, <1>8 DEF Noticed
    <3>2. ~Given(t.name)
      BY <2>4
    <3>3. \A w \in Widget : ~Predict(t.name, k.calls, w)
      BY <2>2, <3>2, StrangerHoldsNothing DEF Tracks
    <3>4. \A w \in Widget : ~Predict(t.name, k.calls, w)'
      BY <2>3, <3>3, PredictAnew
    <3> QED BY <3>1, <3>4 DEF Intents, Wanted, Noticed
  <2>8. News(t)
    BY <1>5 DEF News
  <2>9. Bound(k)'
    BY <1>2, <2>5, <2>6, <2>7, <2>8 DEF Bound, Tracks, News, Intents, Noticed, Wanted, Predict
  <2> QED BY <1>1, <1>3, <2>1, <2>9
<1> QED BY <1>3, <1>6, <1>7, <1>8 DEF LeaseInv

(* A shell that is not there presents nothing.                                *)
LEMMA NobodyOK ==
  /\ ShellOK(NoShell) /\ WidgetsOK(NoWidgets) /\ NoShell.name = 0 /\ NoShell.inbox = <<>>
  /\ \A w \in Widget : ~NoWidgets[w].presented
<1>1. NoShell.name = 0 /\ NoShell.inbox = <<>> /\ NoShell.lifetime = 1 /\ DOMAIN NoShell.inbox = {}
  BY DEF NoShell
<1>2. NoWidgets \in [Widget -> Flags] /\ \A w \in Widget : ~NoWidgets[w].presented
  BY DEF NoWidgets, Flags
<1> QED BY <1>1, <1>2 DEF ShellOK, WidgetsOK

(* The shell is gone, and its widgets with it.                                *)
LEMMA NobodysDesk ==
  ASSUME LeaseInv, shell' = NoShell, widgets' = NoWidgets, bus'.names \in Nat
  PROVE  Desk' /\ shell'.name = 0 /\ shell'.inbox = <<>>
<1>1. PICK sh, ws : sh = NoShell /\ ws = NoWidgets
  OBVIOUS
<1>2. /\ ShellOK(sh) /\ WidgetsOK(ws) /\ sh.name = 0 /\ sh.inbox = <<>>
      /\ \A w \in Widget : ~ws[w].presented
  BY <1>1, NobodyOK
<1>3. sh = shell' /\ ws = widgets'
  BY <1>1
<1>4. ShellOK(shell)' /\ WidgetsOK(widgets)'
  BY <1>2, <1>3 DEF ShellOK, ReplyOK, WidgetsOK
<1> QED BY <1>2, <1>3, <1>4 DEF Desk

(* A shell crashes: the bus tells the owner of the name who left.             *)
LEMMA CrashHolds ==
  ASSUME IInv, ViewInv, LeaseInv, CrashShell
  PROVE  LeaseInv'
<1>1. /\ UNCHANGED <<bus, events, daemon>> /\ shell.name # 0
      /\ shell' = NoShell /\ widgets' = NoWidgets
      /\ service' = IF bus.owner = 0 THEN service
                    ELSE [service EXCEPT !.connections[bus.owner].departures = Append(@, shell.name)]
  BY DEF CrashShell
<1>2. Desk' /\ shell'.name = 0 /\ shell'.inbox = <<>>
  BY <1>1, NobodysDesk DEF LeaseInv, Desk
<1>3. CASE bus.owner = 0
  <2>1. Table' /\ Links'
    BY <1>1, <1>3, TableKept DEF LeaseInv, Links, LinkOK, CallOK, NewConnection, Sequenced
  <2> QED BY <1>1, <1>2, <1>3, <2>1 DEF LeaseInv
<1>4. CASE bus.owner # 0
  <2>1. PICK o, k : o = bus.owner /\ k = service.connections[o]
    OBVIOUS
  <2>2. /\ o \in Epoch /\ o <= service.epoch /\ LinkOK(k)
    BY <1>4, <2>1, OwnersLink DEF LeaseInv
  <2>3. PICK n, q, r : n = shell.name /\ q = Append(k.departures, n) /\ r = [k EXCEPT !.departures = q]
    OBVIOUS
  <2>4. service' = [service EXCEPT !.connections[o] = r]
    <3>1. service' = [service EXCEPT !.connections[bus.owner].departures = Append(@, shell.name)]
      BY <1>1, <1>4
    <3> QED BY <2>1, <2>3, <3>1
  <2>5. /\ Sequenced(q) /\ DOMAIN q = 1..(Len(k.departures) + 1) /\ DOMAIN k.departures = 1..Len(k.departures)
        /\ Len(k.departures) \in Nat
        /\ \A i \in DOMAIN k.departures : q[i] = k.departures[i]
        /\ q[Len(k.departures) + 1] = n
    BY <2>2, <2>3, Appended DEF LinkOK
  <2>6. /\ IsLink(r) /\ r.calls = k.calls /\ r.begun = k.begun /\ r.first = k.first /\ r.known = k.known
        /\ r.forwarding = k.forwarding /\ r.confirming = k.confirming /\ r.reporting = k.reporting
        /\ r.departures = q
    <3>1. IsLink(k)
      BY <2>2 DEF LinkOK
    <3> QED BY <2>3, <3>1 DEF IsLink, Fields
  <2>7. LinkOK(r)
    BY <2>2, <2>5, <2>6 DEF LinkOK
  <2>8. /\ Links' /\ service'.connections[o] = r /\ service'.phase = service.phase
    BY <2>2, <2>4, <2>7, Linking DEF LeaseInv
  <2>9. Table'
    BY <1>1, <2>8, TableKept DEF LeaseInv
  <2>10. Tracks(k) /\ Given(n)
    BY <1>1, <1>4, <2>1, <2>3 DEF LeaseInv, Bound, Desk, Given
  <2>11. (\A m : Departed(m)' <=> Departed(m)) /\ (\A m, w : Lease(m, w)' <=> Lease(m, w))
    BY <1>1, EventsKept
  <2>12. \A m : (Given(m)' <=> Given(m)) /\ (Given(m) => m # 0)
    BY <1>1 DEF Given
  <2>13. \A i \in DOMAIN q : Given(q[i])
    BY <2>5, <2>10 DEF Tracks, Signed
  <2>14. Signed(r)'
    BY <1>2, <2>6, <2>10, <2>11, <2>12, <2>13 DEF Tracks, Signed
  <2>15. \A m : Leaves(k, m) \/ m = n => Leaves(r, m)
    BY <2>5, <2>6 DEF Leaves
  <2>16. Leaving(r)'
    <3> SUFFICES ASSUME NEW m
                 PROVE  /\ (\E w : Lease(m, w)') \/ Waits(r, m)' => m \in r.known \/ Reported(r, m)'
                        /\ m \in r.known =>
                             Leaves(r, m)' \/ Reported(r, m)' \/ m \in r.confirming \/ (r.first /\ Waits(r, m)')
      BY <1>2 DEF Leaving
    <3>1. /\ (Reported(r, m)' <=> Reported(k, m)) /\ (Leaves(r, m)' <=> Leaves(r, m))
          /\ (Waits(r, m)' <=> Waits(k, m))
      BY <2>6, <2>11 DEF Reported, Leaves, Waits
    <3> QED BY <2>3, <2>6, <2>10, <2>11, <2>15, <3>1 DEF Tracks, Leaving
  <2>17. Bound(r)'
    BY <1>2, <2>14, <2>16 DEF Bound, Tracks, News
  <2> QED BY <1>1, <1>2, <2>1, <2>8, <2>9, <2>17 DEF LeaseInv
<1> QED BY <1>3, <1>4

(* A new connection: it has no clients yet, and the shell will learn of it.   *)
LEMMA AcquireHolds ==
  ASSUME AppletAssumption, IInv, ViewInv, LeaseInv, Acquire
  PROVE  LeaseInv'
<1>1. PICK o, k, m, u, t : /\ o = service.epoch + 1 /\ k = NewConnection /\ m = [kind |-> "Registered"]
                           /\ u = Tell(shell, m) /\ t = [u EXCEPT !.overtaken = {}]
  OBVIOUS
<1>2. /\ UNCHANGED <<widgets, events, daemon>> /\ shell' = t /\ service.phase = "Acquiring"
      /\ service' = [service EXCEPT !.phase = "Serving", !.epoch = o, !.connections[o] = k]
      /\ bus' = [bus EXCEPT !.owner = o] /\ service.epoch < MaxEpoch
  BY <1>1 DEF Acquire
<1>3. bus'.owner = o /\ bus'.names = bus.names /\ o \in Int /\ service'.phase = "Serving" /\ service'.epoch = o
  BY <1>1, <1>2 DEF IInv, Shape, TypeOK
<1>4. \A e \in Epoch : service'.connections[e] = IF e = o THEN k ELSE service.connections[e]
  BY <1>2 DEF IInv, Shape, ViewInv, Linked
<1>5. LinkOK(k) /\ k.calls = <<>> /\ k.departures = <<>> /\ ~k.begun
      /\ k.known = {} /\ k.forwarding = {} /\ k.confirming = {} /\ k.reporting = {}
  <2>1. Sequenced(<<>>)
    BY DEF Sequenced
  <2> QED BY <1>1, <2>1 DEF LinkOK, NewConnection, IsLink, Fields
<1>6. Table'
  BY <1>2, <1>3, TableKept DEF LeaseInv
<1>7. Links'
  <2> SUFFICES ASSUME NEW e \in Epoch
               PROVE  /\ LinkOK(service.connections[e])'
                      /\ e > o => service'.connections[e] = NewConnection
    BY <1>3 DEF Links, NewConnection
  <2>1. CASE e = o
    <3>1. service'.connections[e] = k
      BY <1>4, <2>1
    <3>2. LinkOK(k)'
      BY <1>5 DEF LinkOK, CallOK, IsLink, Sequenced
    <3>3. ~(e > o)
      BY <1>3, <2>1
    <3> QED BY <3>1, <3>2, <3>3
  <2>2. CASE e # o
    <3>1. service'.connections[e] = service.connections[e] /\ LinkOK(service.connections[e])
      BY <1>4, <2>2 DEF LeaseInv, Links
    <3>2. e > o => service'.connections[e] = NewConnection
      BY <1>1, <2>2, <3>1 DEF LeaseInv, Links, IInv, TypeOK, Epoch
    <3> QED BY <3>1, <3>2 DEF LinkOK, CallOK, IsLink, Sequenced
  <2> QED BY <2>1, <2>2
<1>8. /\ ShellOK(u) /\ u.name = shell.name /\ News(u) /\ (u.name # 0 => Noticed(u.inbox))
  <2>1. CASE shell.name = 0
    <3>1. u = shell /\ u.inbox = <<>> /\ ShellOK(u)
      BY <1>1, <2>1 DEF Tell, LeaseInv, Desk, ShellOK
    <3> QED BY <2>1, <3>1 DEF News
  <2>2. CASE shell.name # 0
    <3>1. PICK sh : sh = shell
      OBVIOUS
    <3>2. Knows(sh) /\ ShellOK(sh) /\ sh.name # 0 /\ m.kind \in Kinds /\ m.kind # "Reply" /\ u = Tell(sh, m)
      BY <1>1, <2>2, <3>1 DEF ViewInv, LeaseInv, Desk, Kinds
    <3>3. ShellOK(u) /\ u.name = sh.name /\ u.inbox = Append(sh.inbox, m)
      BY <3>2, ToldReply
    <3>4. /\ Len(sh.inbox) \in Nat /\ DOMAIN u.inbox = 1..(Len(sh.inbox) + 1)
          /\ u.inbox[Len(sh.inbox) + 1] = m
      BY <3>2, <3>3, Appended DEF Knows
    <3>5. Len(sh.inbox) + 1 \in DOMAIN u.inbox /\ u.inbox[Len(sh.inbox) + 1].kind = "Registered"
      BY <1>1, <3>4
    <3>6. Noticed(u.inbox)
      BY <3>5 DEF Noticed
    <3>7. News(u)
      <4> SUFFICES ASSUME NEW i \in DOMAIN u.inbox, u.inbox[i].kind = "Lost"
                   PROVE  \E j \in DOMAIN u.inbox : j > i /\ u.inbox[j].kind = "Registered"
        BY DEF News
      <4>1. i < Len(sh.inbox) + 1
        BY <3>4, <3>5
      <4> QED BY <3>4, <3>5, <4>1
    <3> QED BY <3>1, <3>3, <3>6, <3>7
  <2> QED BY <2>1, <2>2
<1>9. /\ ShellOK(t) /\ t.name = shell.name /\ News(t) /\ (t.name # 0 => Noticed(t.inbox))
  <2>1. Knows(u)
    BY <1>1, TellKnows DEF ViewInv, Kinds
  <2>2. t.name = u.name /\ t.inbox = u.inbox /\ t.lifetime = u.lifetime
    BY <1>1, <2>1, OvertakenKnows
  <2> QED BY <1>8, <2>2, OvertakenFrame
<1>10. Desk'
  <2>1. ShellOK(shell)'
    BY <1>2, <1>9 DEF ShellOK, ReplyOK
  <2> QED BY <1>2, <1>3, <1>9, <2>1 DEF LeaseInv, Desk, WidgetsOK
<1>11. \A n : ~Departed(n)' /\ \A w : ~Lease(n, w)'
  <2>1. (\A n : Departed(n)' <=> Departed(n)) /\ (\A n, w : Lease(n, w)' <=> Lease(n, w))
    BY <1>2, EventsKept
  <2> QED BY <1>2, <2>1 DEF LeaseInv, Table
<1>12. Bound(k)'
  <2>1. Tracks(k)'
    <3>1. DOMAIN k.calls = {} /\ DOMAIN k.departures = {}
      BY <1>5
    <3>2. Signed(k)'
      BY <1>5, <1>11, <3>1 DEF Signed
    <3>3. Leaving(k)'
      BY <1>5, <1>11, <3>1 DEF Leaving, Reported, Leaves, Waits
    <3> QED BY <3>2, <3>3 DEF Tracks
  <2>2. \A w \in Widget : ~Predict(t.name, k.calls, w)'
    <3>1. DOMAIN k.calls = {}
      BY <1>5
    <3> QED BY <1>11, <3>1 DEF Predict, Holds
  <2>3. t.name # 0 => Intents(t, widgets, k.calls)'
    BY <1>9, <2>2 DEF Intents, Wanted, Noticed
  <2>4. News(shell)'
    BY <1>2, <1>9 DEF News
  <2> QED BY <1>2, <2>1, <2>3, <2>4 DEF Bound, Intents, Wanted, Noticed, Predict
<1>13. Bound(service.connections[bus.owner])'
  <2>1. service'.connections[bus'.owner] = k
    <3>1. o \in Epoch
      BY <1>1, <1>2, <1>3 DEF AppletAssumption, Epoch, IInv, TypeOK
    <3> QED BY <1>3, <1>4, <3>1
  <2> QED BY <1>12, <2>1
<1> QED BY <1>6, <1>7, <1>10, <1>13 DEF LeaseInv

-----------------------------------------------------------------------------
(* A connection is lost.                                                      *)

(* What a shell is told of a loss: of the loss, and that its calls failed.    *)
LEMMA BereavedOK ==
  ASSUME NEW sh, Knows(sh), ShellOK(sh), NEW e, Sequenced(Calls(e)),
         \A i \in DOMAIN Calls(e) :
           /\ CallOK(Calls(e)[i])
           /\ Calls(e)[i].name = sh.name => Calls(e)[i].lifetime <= sh.lifetime
  PROVE  ShellOK(Bereaved(sh, e)) /\ Bereaved(sh, e).name = sh.name
<1> DEFINE chosen == CHOOSE f : Tellings(sh, e, f)
           N      == Len(Calls(e))
           Sound(u) == Knows(u) /\ ShellOK(u) /\ u.name = sh.name /\ u.lifetime = sh.lifetime
<1>0. N \in Nat /\ DOMAIN Calls(e) = 1..N
  BY Appended
<1>1. Bereaved(sh, e) = chosen[N]
  BY DEF Bereaved, Tellings
<1>2. Tellings(sh, e, chosen)
  BY <1>0, TellingsExist
<1> HIDE DEF chosen
<1>3. \A u, m : Sound(u) /\ m.kind \in Kinds /\ (m.kind = "Reply" => ReplyOK(m, u)) => Sound(Tell(u, m))
  <2> SUFFICES ASSUME NEW u, NEW m, Sound(u), m.kind \in Kinds, m.kind = "Reply" => ReplyOK(m, u)
               PROVE  Sound(Tell(u, m))
    OBVIOUS
  <2>1. CASE u.name = 0
    BY <2>1 DEF Tell
  <2>2. CASE u.name # 0
    BY <2>2, ToldReply
  <2> QED BY <2>1, <2>2
<1>4. Sound(chosen[0])
  <2> DEFINE m == [kind |-> "Lost"]
  <2>1. m.kind \in Kinds /\ m.kind # "Reply" /\ chosen[0] = Tell(sh, m)
    BY <1>0, <1>2 DEF Kinds, Tellings
  <2> HIDE DEF m
  <2> QED BY <1>3, <2>1
<1>5. ASSUME NEW n \in 1..N, Sound(chosen[n - 1])
      PROVE  Sound(chosen[n])
  <2>1. PICK c, u : c = Calls(e)[n] /\ u = chosen[n - 1]
    OBVIOUS
  <2>2. chosen[n] = IF Tracked(c) /\ c.name = sh.name THEN Tell(u, ErrorReply(c)) ELSE u
    BY <1>0, <1>2, <2>1 DEF Tellings
  <2>3. CASE Tracked(c) /\ c.name = sh.name
    <3>1. PICK m : m = ErrorReply(c)
      OBVIOUS
    <3>2. m.kind \in Kinds /\ m.ok = FALSE /\ m.call = c
      BY <3>1 DEF ErrorReply, Kinds
    <3>3. CallOK(c) /\ c.lifetime <= sh.lifetime
      BY <1>0, <2>1, <2>3
    <3>4. ReplyOK(m, u)
      BY <1>5, <2>1, <2>3, <3>2, <3>3 DEF ReplyOK, CallOK, Tracked
    <3> QED BY <1>3, <1>5, <2>1, <2>2, <2>3, <3>1, <3>2, <3>4
  <2>4. CASE ~(Tracked(c) /\ c.name = sh.name)
    BY <1>5, <2>1, <2>2, <2>4
  <2> QED BY <2>3, <2>4
<1> DEFINE A == {n \in 0..N : Sound(chosen[n])}
<1> HIDE DEF Sound
<1>6. 0 \in A /\ \A n \in 1..N : n - 1 \in A => n \in A
  BY <1>0, <1>4, <1>5
<1> HIDE DEF A
<1>7. N \in A
  BY <1>0, <1>6, EveryPosition
<1> QED BY <1>1, <1>7 DEF A, Sound

(* Whatever the shell is told: without an owner nothing is to be tracked.     *)
LEMMA LossHolds ==
  ASSUME IInv, ViewInv, LeaseInv, LoseConnection \/ RestartBus
  PROVE  LeaseInv'
<1>1. PICK e, k : e = service.epoch /\ k = service.connections[e]
  OBVIOUS
<1>2. /\ service' = Abandoned(e) /\ service.phase = "Serving" /\ bus'.owner = 0
      /\ UNCHANGED <<events, daemon>>
  BY <1>1 DEF LoseConnection, RestartBus, IInv, Shape
<1>3. /\ bus.owner = e /\ e \in Epoch /\ bus.owner # 0 /\ e <= service.epoch
  BY <1>1, <1>2 DEF IInv, TypeOK, Epoch
<1>4. LinkOK(k) /\ Sequenced(k.calls) /\ Tracks(k)
  BY <1>1, <1>3, OwnersLink DEF LeaseInv, Bound
<1>5. PICK r : r = [k EXCEPT !.departures = <<>>, !.forwarding = {}]
  OBVIOUS
<1>6. /\ IsLink(r) /\ r.calls = k.calls /\ r.begun = k.begun /\ r.first = k.first
      /\ r.departures = <<>> /\ r.forwarding = {}
  <2>1. IsLink(k)
    BY <1>4 DEF LinkOK
  <2> QED BY <1>5, <2>1 DEF IsLink, Fields
<1>7. LinkOK(r)
  <2>1. Sequenced(<<>>)
    BY DEF Sequenced
  <2> QED BY <1>4, <1>6, <2>1 DEF LinkOK
<1>8. /\ service'.phase = "Retiring" /\ service'.epoch = service.epoch
      /\ \A f \in Epoch : service'.connections[f] = IF f = e THEN r ELSE service.connections[f]
  BY <1>1, <1>2, <1>3, <1>5 DEF Abandoned, IInv, Shape, ViewInv, Linked
<1>9. Table'
  BY <1>2, <1>8, TableKept DEF LeaseInv
<1>10. Links'
  <2> SUFFICES ASSUME NEW f \in Epoch
               PROVE  /\ LinkOK(service.connections[f])'
                      /\ f > service.epoch => service'.connections[f] = NewConnection
    BY <1>8 DEF Links, NewConnection
  <2>1. CASE f = e
    <3>1. service'.connections[f] = r
      BY <1>8, <2>1
    <3>2. LinkOK(r)'
      BY <1>7 DEF LinkOK, CallOK, IsLink, Sequenced
    <3>3. ~(f > service.epoch)
      BY <1>1, <1>3, <2>1 DEF Epoch
    <3> QED BY <3>1, <3>2, <3>3
  <2>2. CASE f # e
    <3>1. service'.connections[f] = service.connections[f]
      BY <1>8, <2>2
    <3> QED BY <3>1 DEF LeaseInv, Links, LinkOK, CallOK, IsLink, Sequenced
  <2> QED BY <2>1, <2>2
<1>11. Desk'
  <2>1. CASE LoseConnection
    <3>1. shell' = Bereaved(shell, e) /\ UNCHANGED widgets /\ bus'.names = bus.names
      BY <1>1, <2>1 DEF LoseConnection, IInv, Shape
    <3>2. PICK sh, t : sh = shell /\ t = Bereaved(sh, e)
      OBVIOUS
    <3>3. ShellOK(t) /\ t.name = sh.name
      <4>1. Calls(e) = k.calls
        BY <1>1 DEF Calls
      <4>2. \A i \in DOMAIN Calls(e) :
              /\ CallOK(Calls(e)[i])
              /\ Calls(e)[i].name = sh.name => Calls(e)[i].lifetime <= sh.lifetime
        BY <1>4, <3>2, <4>1 DEF LinkOK, Tracks, Signed
      <4>3. Knows(sh) /\ ShellOK(sh) /\ Sequenced(Calls(e))
        BY <1>4, <3>2, <4>1 DEF ViewInv, LeaseInv, Desk
      <4> QED BY <3>2, <4>2, <4>3, BereavedOK
    <3>4. t = shell'
      BY <3>1, <3>2
    <3>5. ShellOK(shell)'
      BY <3>3, <3>4 DEF ShellOK, ReplyOK
    <3> QED BY <3>1, <3>2, <3>3, <3>4, <3>5 DEF LeaseInv, Desk, WidgetsOK
  <2>2. CASE RestartBus
    <3>1. shell' = NoShell /\ widgets' = NoWidgets /\ bus'.names = 0
      BY <2>2 DEF RestartBus
    <3> QED BY <3>1, NobodysDesk
  <2> QED BY <2>1, <2>2
<1> QED BY <1>2, <1>9, <1>10, <1>11 DEF LeaseInv

(* Nothing is held, nothing is under way.                                     *)
LEMMA InitHolds == ASSUME Init PROVE LeaseInv
<1>1. /\ bus.owner = 0 /\ bus.names = 0 /\ events = <<>> /\ shell = NoShell /\ widgets = NoWidgets
      /\ service.epoch = 0 /\ \A e \in Epoch : service.connections[e] = NewConnection
      /\ daemon.leases.live = {} /\ daemon.leases.gone = {}
      /\ daemon.leases = [live |-> {}, gone |-> {}]
  BY DEF Init
<1>2. Table
  BY <1>1 DEF Table, Departed, Lease, Since, Holds
<1>3. Links
  <2>1. LinkOK(NewConnection)
    <3>1. Sequenced(<<>>)
      BY DEF Sequenced
    <3> QED BY <3>1 DEF LinkOK, NewConnection, IsLink, Fields
  <2> QED BY <1>1, <2>1 DEF Links
<1>4. Desk
  <2>1. PICK sh, ws : sh = shell /\ ws = widgets
    OBVIOUS
  <2>2. ShellOK(sh) /\ WidgetsOK(ws) /\ sh.name = 0 /\ \A w \in Widget : ~ws[w].presented
    BY <1>1, <2>1, NobodyOK
  <2> QED BY <1>1, <2>1, <2>2 DEF Desk
<1> QED BY <1>1, <1>2, <1>3, <1>4 DEF LeaseInv

-----------------------------------------------------------------------------
(* The connection that owns the name.                                         *)

(* The shell is told something that is no news of a connection.               *)
LEMMA ToldNoNews ==
  ASSUME NEW sh, Knows(sh), sh.name # 0, NEW m, m.kind \in {"Changed", "Reply"},
         m.kind = "Reply" => m.ok, NEW t, t = Tell(sh, m)
  PROVE  /\ t.name = sh.name /\ t.lifetime = sh.lifetime /\ t.registered = sh.registered
         /\ t.inbox = Append(sh.inbox, m) /\ t.overtaken = sh.overtaken
         /\ Noticed(t.inbox) <=> Noticed(sh.inbox)
         /\ Confirmed(sh) => Confirmed(t)
         /\ News(sh) => News(t)
<1>1. /\ t.name = sh.name /\ t.lifetime = sh.lifetime /\ t.registered = sh.registered
      /\ t.inbox = Append(sh.inbox, m) /\ t.overtaken = sh.overtaken
  BY DEF Tell, Knows
<1>2. /\ Len(sh.inbox) \in Nat /\ DOMAIN sh.inbox = 1..Len(sh.inbox)
      /\ DOMAIN t.inbox = 1..(Len(sh.inbox) + 1)
      /\ \A i \in DOMAIN sh.inbox : t.inbox[i] = sh.inbox[i]
      /\ t.inbox[Len(sh.inbox) + 1] = m
  BY <1>1, Appended DEF Knows
<1>3. \A i \in DOMAIN t.inbox : i \in DOMAIN sh.inbox \/ t.inbox[i] = m
  BY <1>2
<1>4. \A i \in DOMAIN sh.inbox : i \in DOMAIN t.inbox /\ t.inbox[i] = sh.inbox[i]
  BY <1>2
<1>5. Noticed(t.inbox) <=> Noticed(sh.inbox)
  BY <1>3, <1>4 DEF Noticed
<1>6. Confirmed(sh) => Confirmed(t)
  BY <1>1, <1>3, <1>4 DEF Confirmed
<1>7. ASSUME News(sh), NEW i \in DOMAIN t.inbox, t.inbox[i].kind = "Lost"
      PROVE  \E j \in DOMAIN t.inbox : j > i /\ t.inbox[j].kind = "Registered"
  <2>1. i \in DOMAIN sh.inbox /\ sh.inbox[i].kind = "Lost"
    BY <1>3, <1>4, <1>7
  <2>2. PICK j \in DOMAIN sh.inbox : j > i /\ sh.inbox[j].kind = "Registered"
    BY <1>7, <2>1 DEF News
  <2> QED BY <1>4, <2>2
<1> QED BY <1>1, <1>5, <1>6, <1>7 DEF News

(* A value concerns no widget.                                                *)
LEMMA ToldValue ==
  ASSUME NEW sh, Knows(sh), sh.name # 0, NEW m, m.kind = "Changed", NEW t, t = Tell(sh, m),
         NEW q, NEW w
  PROVE  /\ Unasked(sh, q, w) => Unasked(t, q, w)
         /\ \A kind : Awaits(sh, q, w, kind) => Awaits(t, q, w, kind)
<1>1. PICK inbox, n, lifetime : inbox = sh.inbox /\ n = sh.name /\ lifetime = sh.lifetime
  OBVIOUS
<1>2. t.name = n /\ t.lifetime = lifetime /\ t.inbox = Append(inbox, m)
  BY <1>1, ToldNoNews
<1>3. /\ None(Append(inbox, m), n, w, lifetime) <=> None(inbox, n, w, lifetime)
      /\ \A kind : One(Append(inbox, m), kind, n, w, lifetime) <=> One(inbox, kind, n, w, lifetime)
  <2>1. Sequenced(inbox) /\ ~About(m, n, w, lifetime)
    BY <1>1 DEF Knows, About
  <2> QED BY <2>1, AboutAppend
<1> QED BY <1>1, <1>2, <1>3 DEF Unasked, Awaits

(* A call of the queue moves into the table, and its reply to the shell.      *)
LEMMA ServedWidget ==
  ASSUME NEW sh, Knows(sh), sh.name # 0, sh.lifetime # 0, NEW q, Sequenced(q), q # <<>>,
         NEW c, c = Head(q), CallOK(c), NEW m,
         m.kind = "Changed" \/ (m.kind = "Reply" /\ m.call = c /\ m.ok /\ c.kind \in {"Present", "Dismiss"}),
         NEW t, t = sh \/ t = Tell(sh, m),
         Tracked(c) /\ c.name = sh.name => t = Tell(sh, m) /\ m.kind = "Reply", NEW w
  PROVE  /\ Unasked(sh, q, w) => Unasked(t, Tail(q), w)
         /\ \A kind : Awaits(sh, q, w, kind) => Awaits(t, Tail(q), w, kind)
<1>1. PICK inbox, n, L, r : inbox = sh.inbox /\ n = sh.name /\ L = sh.lifetime /\ r = Tail(q)
  OBVIOUS
<1>2. /\ t.name = n /\ t.lifetime = L
      /\ t = Tell(sh, m) => t.inbox = Append(inbox, m)
      /\ t # Tell(sh, m) => t.inbox = inbox
  BY <1>1, ToldNoNews
<1>3. Sequenced(inbox)
  BY <1>1 DEF Knows
<1>4. /\ ~About(c, n, w, L) =>
           /\ None(r, n, w, L) <=> None(q, n, w, L)
           /\ \A kind : One(r, kind, n, w, L) <=> One(q, kind, n, w, L)
      /\ About(c, n, w, L) =>
           /\ ~None(q, n, w, L)
           /\ \A kind : One(q, kind, n, w, L) => Subject(c).kind = kind /\ None(r, n, w, L)
  BY <1>1, AboutTail
<1>5. LET s == Append(inbox, m)
      IN  /\ ~About(m, n, w, L) =>
               /\ None(s, n, w, L) <=> None(inbox, n, w, L)
               /\ \A kind : One(s, kind, n, w, L) <=> One(inbox, kind, n, w, L)
          /\ About(m, n, w, L) /\ None(inbox, n, w, L) => One(s, Subject(m).kind, n, w, L)
  BY <1>3, AboutAppend
<1>6. CASE About(c, n, w, L)
  <2>1. c.kind \in {"Present", "Dismiss"} /\ c.name = n /\ c.widget = w /\ c.lifetime = L /\ Subject(c) = c
    BY <1>6 DEF About, Subject, CallOK
  <2>2. t = Tell(sh, m) /\ m.kind = "Reply" /\ m.call = c
    BY <1>1, <2>1 DEF Tracked
  <2>3. About(m, n, w, L) /\ Subject(m).kind = c.kind
    BY <2>1, <2>2 DEF About, Subject
  <2>4. ASSUME NEW kind, Awaits(sh, q, w, kind)
        PROVE  Awaits(t, r, w, kind)
    <3>1. None(inbox, n, w, L) /\ One(q, kind, n, w, L)
      BY <1>1, <1>4, <1>6, <2>4 DEF Awaits
    <3>2. c.kind = kind /\ None(r, n, w, L)
      BY <1>4, <1>6, <2>1, <3>1
    <3>3. One(t.inbox, kind, n, w, L)
      BY <1>2, <1>5, <2>2, <2>3, <3>1, <3>2
    <3> QED BY <1>2, <3>2, <3>3 DEF Awaits
  <2> QED BY <1>1, <1>4, <1>6, <2>4 DEF Unasked
<1>7. CASE ~About(c, n, w, L)
  <2>1. ~About(m, n, w, L)
    BY <1>7 DEF About, Subject
  <2>2. /\ None(t.inbox, n, w, L) <=> None(inbox, n, w, L)
        /\ \A kind : One(t.inbox, kind, n, w, L) <=> One(inbox, kind, n, w, L)
    BY <1>2, <1>5, <2>1
  <2> QED BY <1>1, <1>2, <1>4, <1>7, <2>2 DEF Unasked, Awaits
<1> QED BY <1>6, <1>7

(* The intents are on their way as they were.                                 *)
LEMMA ServedIntents ==
  ASSUME NEW sh, Knows(sh), sh.name # 0, sh.lifetime # 0, NEW ws, NEW q, Sequenced(q), q # <<>>,
         Intents(sh, ws, q), NEW c, c = Head(q), CallOK(c), NEW m,
         m.kind = "Changed" \/ (m.kind = "Reply" /\ m.call = c /\ m.ok /\ c.kind \in {"Present", "Dismiss"}),
         NEW t, t = sh \/ t = Tell(sh, m),
         Tracked(c) /\ c.name = sh.name => t = Tell(sh, m) /\ m.kind = "Reply",
         \A w : Lease(sh.name, w)' <=> IF Ends(c, sh.name, w) THEN c.kind = "Present" ELSE Lease(sh.name, w)
  PROVE  Intents(t, ws, Tail(q))'
<1>1. PICK r, n : r = Tail(q) /\ n = sh.name
  OBVIOUS
<1>2. \A w : Predict(n, r, w)' <=> Predict(n, q, w)
  <2> SUFFICES ASSUME NEW w PROVE Predict(n, r, w)' <=> Predict(n, q, w)
    OBVIOUS
  <2>1. PICK a, b \in BOOLEAN : (a <=> Lease(n, w)) /\ (b <=> Lease(n, w)')
    OBVIOUS
  <2>2. b <=> IF Ends(Head(q), n, w) THEN Head(q).kind = "Present" ELSE a
    BY <1>1, <2>1
  <2>3. Holds(q, a, n, w) <=> Holds(r, b, n, w)
    BY <1>1, <2>2, HoldsTail
  <2> QED BY <2>1, <2>3 DEF Predict, Holds
<1>3. /\ t.name = sh.name /\ t.registered = sh.registered /\ t.overtaken = sh.overtaken
      /\ Noticed(t.inbox) <=> Noticed(sh.inbox)
      /\ Confirmed(sh) => Confirmed(t)
  BY ToldNoNews
<1>4. \A w : /\ Unasked(sh, q, w) => Unasked(t, r, w)
             /\ \A kind : Awaits(sh, q, w, kind) => Awaits(t, r, w, kind)
  BY <1>1, ServedWidget
<1>5. Intents(t, ws, r)'
  BY <1>1, <1>2, <1>3, <1>4, IntentsAnew
<1> QED BY <1>1, <1>5

(* What the connection becomes, and what the shell is told.                   *)
LEMMA OwnerMoves ==
  ASSUME LeaseInv, bus.owner # 0, Table', Links', UNCHANGED <<bus, widgets>>,
         NEW r, service'.connections[bus.owner] = r, Tracks(r)',
         NEW t, t = shell', ShellOK(t), t.name = shell.name, News(t), NEW ws, ws = widgets,
         t.name # 0 => Intents(t, ws, r.calls)'
  PROVE  LeaseInv'
<1>1. ShellOK(shell)'
  BY DEF ShellOK, ReplyOK
<1>2. Desk'
  BY <1>1 DEF LeaseInv, Desk, WidgetsOK
<1>3. (bus.owner # 0 => Bound(service.connections[bus.owner]))'
  BY BoundAnew
<1> QED BY <1>2, <1>3 DEF LeaseInv

(* The calls stay, and the shell hears nothing.                               *)
LEMMA OwnerQuiet ==
  ASSUME LeaseInv, bus.owner # 0, Table', Links', UNCHANGED <<bus, widgets, shell>>,
         NEW k, k = service.connections[bus.owner], NEW r, service'.connections[bus.owner] = r, Tracks(r)',
         r.calls = k.calls, \A n, w : Lease(n, w)' <=> Lease(n, w)
  PROVE  LeaseInv'
<1>1. PICK sh, ws, q : sh = shell /\ ws = widgets /\ q = k.calls
  OBVIOUS
<1>2. /\ ShellOK(sh) /\ News(sh) /\ sh = shell' /\ r.calls = q
      /\ sh.name # 0 => Intents(sh, ws, q)
  BY <1>1 DEF LeaseInv, Bound, Desk
<1>3. sh.name # 0 => Intents(sh, ws, q)'
  BY <1>2, PredictAnew, IntentsAnew
<1> QED BY <1>1, <1>2, <1>3, OwnerMoves

(* Begin, Depart, Confirm, Forward and Report.                                *)
LEMMA OwnerKeepsCalls ==
  ASSUME IInv, ViewInv, LeaseInv, bus.owner # 0, NEW e, e = bus.owner,
         \/ Begin(e) \/ Depart(e)
         \/ \E n \in service.connections[e].forwarding : Forward(e, n)
         \/ \E n \in service.connections[e].confirming : Confirm(e, n)
         \/ \E n \in service.connections[e].reporting : Report(e, n)
  PROVE  LeaseInv'
<1>1. e \in Epoch /\ e <= service.epoch
  BY OwnersLink DEF LeaseInv
<1>2. Connection(e)
  BY DEF Connection
<1>3. Table' /\ Links' /\ UNCHANGED <<bus, widgets, daemon>>
  BY <1>1, <1>2, ConnectionLinks DEF LeaseInv
<1>4. PICK k : k = service.connections[e]
  OBVIOUS
<1>5. LinkOK(k) /\ Sequenced(k.calls) /\ Tracks(k) /\ IsLink(k)
  BY <1>4, OwnersLink DEF LeaseInv, Bound, LinkOK
<1>6. UNCHANGED <<bus, shell, widgets, daemon>> => SameShell
  BY DEF SameShell
<1>7. ASSUME Begin(e) PROVE LeaseInv'
  <2>1. PICK c, r : /\ c = Head(k.calls)
                    /\ r = [k EXCEPT !.begun = TRUE, !.first = c.name \notin k.known,
                                     !.known = k.known \cup {c.name}]
    OBVIOUS
  <2>2. LinkOK(r) /\ service' = [service EXCEPT !.connections[e] = r] /\ k.calls # <<>> /\ ~k.begun
    BY <1>1, <1>4, <1>7, <2>1, BeginLink DEF LeaseInv
  <2>3. UNCHANGED <<events, shell>>
    BY <1>7 DEF Begin
  <2>4. Tracks(r)'
    BY <1>3, <1>5, <1>6, <2>1, <2>2, <2>3, BeginTracks
  <2>5. service'.connections[e] = r
    BY <1>1, <2>2, Linking DEF LeaseInv
  <2>6. r.calls = k.calls
    BY <1>5, <2>1 DEF IsLink, Fields
  <2> QED BY <1>3, <1>4, <2>3, <2>4, <2>5, <2>6, EventsKept, OwnerQuiet
<1>8. ASSUME Depart(e) PROVE LeaseInv'
  <2>1. PICK n, r : /\ n = Head(k.departures)
                    /\ r = [k EXCEPT !.departures = Tail(k.departures), !.known = k.known \ {n},
                                     !.forwarding = k.known \cap {n}]
    OBVIOUS
  <2>2. /\ LinkOK(r) /\ service' = [service EXCEPT !.connections[e] = r]
        /\ k.departures # <<>> /\ k.forwarding = {}
    BY <1>1, <1>4, <1>8, <2>1, DepartLink DEF LeaseInv
  <2>3. UNCHANGED <<events, shell>>
    BY <1>8 DEF Depart
  <2>4. Tracks(r)'
    BY <1>3, <1>5, <1>6, <2>1, <2>2, <2>3, DepartTracks
  <2>5. service'.connections[e] = r
    BY <1>1, <2>2, Linking DEF LeaseInv
  <2>6. r.calls = k.calls
    BY <1>5, <2>1 DEF IsLink, Fields
  <2> QED BY <1>3, <1>4, <2>3, <2>4, <2>5, <2>6, EventsKept, OwnerQuiet
<1>9. ASSUME NEW n \in service.connections[e].forwarding, Forward(e, n) PROVE LeaseInv'
  <2>1. PICK r : r = [k EXCEPT !.forwarding = {}]
    OBVIOUS
  <2>2. LinkOK(r) /\ service' = [service EXCEPT !.connections[e] = r]
    BY <1>1, <1>4, <1>9, <2>1, ReportLinks DEF LeaseInv
  <2>3. UNCHANGED shell /\ events' = Append(events, Gone(e, n))
    BY <1>1, <1>9, Putting DEF Forward
  <2>4. Tracks(r)'
    BY <1>3, <1>4, <1>5, <1>6, <1>9, <2>1, <2>3, ForwardTracks
  <2>5. service'.connections[e] = r
    BY <1>1, <2>2, Linking DEF LeaseInv
  <2>6. r.calls = k.calls
    BY <1>5, <2>1 DEF IsLink, Fields
  <2>7. \A m, w : Lease(m, w)' <=> Lease(m, w)
    BY <1>3, <2>3, EventPut, GoneEvent
  <2> QED BY <1>3, <1>4, <2>3, <2>4, <2>5, <2>6, <2>7, OwnerQuiet
<1>10. ASSUME NEW n \in service.connections[e].reporting, Report(e, n) PROVE LeaseInv'
  <2>1. PICK r : r = [k EXCEPT !.reporting = k.reporting \ {n}]
    OBVIOUS
  <2>2. LinkOK(r) /\ service' = [service EXCEPT !.connections[e] = r]
    BY <1>1, <1>4, <1>10, <2>1, ReportLinks DEF LeaseInv
  <2>3. UNCHANGED shell /\ events' = Append(events, Gone(e, n))
    BY <1>1, <1>10, Putting DEF Report
  <2>4. Tracks(r)'
    BY <1>3, <1>4, <1>5, <1>6, <1>10, <2>1, <2>3, ReportTracks
  <2>5. service'.connections[e] = r
    BY <1>1, <2>2, Linking DEF LeaseInv
  <2>6. r.calls = k.calls
    BY <1>5, <2>1 DEF IsLink, Fields
  <2>7. \A m, w : Lease(m, w)' <=> Lease(m, w)
    BY <1>3, <2>3, EventPut, GoneEvent
  <2> QED BY <1>3, <1>4, <2>3, <2>4, <2>5, <2>6, <2>7, OwnerQuiet
<1>11. ASSUME NEW n \in service.connections[e].confirming, Confirm(e, n) PROVE LeaseInv'
  <2>1. PICK gone, r : /\ gone = IF shell.name # n /\ n \in k.known THEN {n} ELSE {}
                       /\ r = [k EXCEPT !.confirming = k.confirming \ {n}, !.known = k.known \ gone,
                                        !.reporting = k.reporting \cup gone]
    OBVIOUS
  <2>2. LinkOK(r) /\ service' = [service EXCEPT !.connections[e] = r]
    <3>1. Open(e)
      BY DEF Open
    <3>2. service' = [service EXCEPT !.connections[e] = r]
      BY <1>4, <1>11, <2>1, <3>1 DEF Confirm
    <3>3. /\ IsLink(r) /\ r.calls = k.calls /\ r.begun = k.begun /\ r.first = k.first
          /\ r.departures = k.departures /\ r.forwarding = k.forwarding
      BY <1>5, <2>1 DEF IsLink, Fields
    <3>4. LinkOK(r)
      BY <1>5, <3>3 DEF LinkOK
    <3> QED BY <3>2, <3>4
  <2>3. UNCHANGED <<events, shell>>
    BY <1>11 DEF Confirm
  <2>4. Tracks(r)'
    BY <1>3, <1>5, <1>6, <2>1, <2>3, ConfirmTracks
  <2>5. service'.connections[e] = r
    BY <1>1, <2>2, Linking DEF LeaseInv
  <2>6. r.calls = k.calls
    BY <1>5, <2>1 DEF IsLink, Fields
  <2> QED BY <1>3, <1>4, <2>3, <2>4, <2>5, <2>6, EventsKept, OwnerQuiet
<1> QED BY <1>7, <1>8, <1>9, <1>10, <1>11

(* deliver: the call becomes an event, its caller is answered.                *)
LEMMA DeliverHolds ==
  ASSUME IInv, ViewInv, LeaseInv, bus.owner # 0, NEW e, e = bus.owner, Deliver(e)
  PROVE  LeaseInv'
<1>1. e \in Epoch /\ e <= service.epoch /\ e \notin service.retired
  BY OwnersLink DEF LeaseInv
<1>2. Connection(e)
  BY DEF Connection
<1>3. Table' /\ Links' /\ UNCHANGED <<bus, widgets, daemon>>
  BY <1>1, <1>2, ConnectionLinks DEF LeaseInv
<1>4. PICK k, c, sh, ws : k = service.connections[e] /\ c = Head(k.calls) /\ sh = shell /\ ws = widgets
  OBVIOUS
<1>5. /\ LinkOK(k) /\ Sequenced(k.calls) /\ Tracks(k) /\ IsLink(k) /\ News(sh)
      /\ sh.name # 0 => Intents(sh, ws, k.calls)
  BY <1>4, OwnersLink DEF LeaseInv, Bound, LinkOK
<1>6. PICK m, t : /\ m = [kind |-> "Reply", call |-> c, ok |-> TRUE]
                  /\ t = IF Tracked(c) /\ c.name = sh.name THEN Tell(sh, m) ELSE sh
  OBVIOUS
<1>7. t = shell'
  <2>1. /\ e \notin service.retired /\ Open(e)
        /\ shell' = IF Tracked(c) THEN Answered(e, c,
                                                [kind |-> "Reply", call |-> c, ok |-> e \notin service.retired])
                    ELSE shell
    BY <1>1, <1>4 DEF Deliver, Calls, Open
  <2>2. [kind |-> "Reply", call |-> c, ok |-> e \notin service.retired] = m
    BY <1>6, <2>1
  <2> QED BY <1>4, <1>6, <2>1, <2>2 DEF Answered
<1>8. PICK confirming, r :
        /\ confirming = IF k.first THEN k.confirming \cup {c.name} ELSE k.confirming
        /\ r = [k EXCEPT !.calls = Tail(k.calls), !.begun = FALSE, !.first = FALSE, !.confirming = confirming]
  OBVIOUS
<1>9. /\ k.calls # <<>> /\ CallOK(c) /\ c.kind # "GetAll" /\ (c.kind = "Present" => k.begun)
      /\ service' = [service EXCEPT !.connections[e] = r]
  <2>1. /\ k.calls # <<>> /\ CallOK(c) /\ c.kind # "GetAll" /\ (c.kind = "Present" => k.begun)
    BY <1>1, <1>4, DeliverLink DEF LeaseInv
  <2>2. confirming = IF k.first /\ e \notin service.retired THEN k.confirming \cup {c.name} ELSE k.confirming
    BY <1>1, <1>8
  <2>3. service' = [service EXCEPT !.connections[e] =
                      [k EXCEPT !.calls = Tail(k.calls), !.begun = FALSE, !.first = FALSE,
                                !.confirming = confirming]]
    BY <1>4, <2>2 DEF Deliver, Calls
  <2> QED BY <1>8, <2>1, <2>3
<1>10. r.calls = Tail(k.calls) /\ service'.connections[e] = r
  <2>1. r.calls = Tail(k.calls)
    BY <1>5, <1>8 DEF IsLink, Fields
  <2>2. service'.connections[e] = r
    BY <1>1, <1>9 DEF IInv, Shape, ViewInv, Linked
  <2> QED BY <2>1, <2>2
<1>11. events' = Append(events, Event(e, c.kind, c))
  BY <1>1, <1>4, Putting DEF Deliver, Calls
<1>12. /\ Given(c.name) /\ c.name # 0
       /\ c.name = sh.name => c.lifetime <= sh.lifetime
  <2>1. \E j \in DOMAIN k.calls : c = k.calls[j]
    BY <1>4, <1>5, <1>9, CallTaken
  <2> QED BY <1>4, <1>5, <2>1 DEF Tracks, Signed, Given
<1>13. Knows(sh) /\ ShellOK(sh) /\ sh.lifetime # 0
  BY <1>4 DEF ViewInv, LeaseInv, Desk, ShellOK
<1>14. /\ m.kind = "Reply" /\ m.ok /\ m.ok \in BOOLEAN /\ m.call = c
       /\ Tracked(c) => c.kind \in {"Present", "Dismiss"}
  BY <1>6 DEF Tracked
<1>15. ShellOK(t) /\ t.name = sh.name /\ t.lifetime = sh.lifetime /\ News(t)
  <2>1. CASE Tracked(c) /\ c.name = sh.name
    <3>1. ReplyOK(m, sh)
      BY <1>9, <1>12, <1>14, <2>1 DEF ReplyOK, CallOK, Tracked
    <3>2. t = Tell(sh, m) /\ sh.name # 0 /\ m.kind \in {"Changed", "Reply"} /\ m.kind \in Kinds
      BY <1>6, <1>12, <1>14, <2>1 DEF Kinds
    <3> QED BY <1>5, <1>13, <1>14, <3>1, <3>2, ToldReply, ToldNoNews
  <2>2. CASE ~(Tracked(c) /\ c.name = sh.name)
    BY <1>5, <1>6, <1>13, <2>2
  <2> QED BY <2>1, <2>2
<1>16. Tracks(r)'
  <2>1. SameShell
    BY <1>3, <1>4, <1>7, <1>15 DEF SameShell
  <2>2. c.kind \in {"Present", "Dismiss", "StepPage"}
    BY <1>9 DEF CallOK
  <2> QED BY <1>3, <1>4, <1>5, <1>8, <1>9, <1>11, <2>1, <2>2, DeliverTracks
<1>17. ASSUME t.name # 0
       PROVE  Intents(t, ws, r.calls)'
  <2>1. \A w : Lease(sh.name, w)' <=> IF Ends(c, sh.name, w) THEN c.kind = "Present" ELSE Lease(sh.name, w)
    <3>1. PICK ev : ev = Event(e, c.kind, c)
      OBVIOUS
    <3>2. ev.kind = c.kind /\ ev.name = c.name /\ ev.widget = c.widget
      BY <3>1 DEF Event
    <3>3. \A w : Ends(ev, sh.name, w) <=> Ends(c, sh.name, w)
      BY <3>2 DEF Ends
    <3>4. \A n, w : Lease(n, w)' <=> IF Ends(ev, n, w) THEN ev.kind = "Present" ELSE Lease(n, w)
      BY <1>3, <1>11, <3>1, EventPut
    <3> QED BY <3>2, <3>3, <3>4
  <2>2. sh.name # 0 /\ Intents(sh, ws, k.calls)
    BY <1>5, <1>15, <1>17
  <2>3. CASE c.kind \in {"Present", "Dismiss"}
    <3>1. /\ t = sh \/ t = Tell(sh, m)
          /\ Tracked(c) /\ c.name = sh.name => t = Tell(sh, m) /\ m.kind = "Reply"
      BY <1>6, <1>14
    <3>2. Intents(t, ws, Tail(k.calls))'
      BY <1>4, <1>5, <1>9, <1>13, <1>14, <2>1, <2>2, <2>3, <3>1, ServedIntents
    <3> QED BY <1>10, <3>2
  <2>4. CASE c.kind \notin {"Present", "Dismiss"}
    <3>1. PICK u : u = [kind |-> "Changed"]
      OBVIOUS
    <3>2. u.kind = "Changed" /\ t = sh /\ ~Tracked(c)
      BY <1>6, <2>4, <3>1 DEF Tracked
    <3>3. Intents(t, ws, Tail(k.calls))'
      BY <1>4, <1>5, <1>9, <1>13, <2>1, <2>2, <3>2, ServedIntents
    <3> QED BY <1>10, <3>3
  <2> QED BY <2>3, <2>4
<1> QED BY <1>3, <1>4, <1>7, <1>10, <1>15, <1>16, <1>17, OwnerMoves

(* The answer to GetAll concerns no widget.                                   *)
LEMMA AnswerHolds ==
  ASSUME IInv, ViewInv, LeaseInv, bus.owner # 0, NEW e, e = bus.owner, AnswerProperties(e)
  PROVE  LeaseInv'
<1>1. e \in Epoch /\ e <= service.epoch
  BY OwnersLink DEF LeaseInv
<1>2. Connection(e)
  BY DEF Connection
<1>3. Table' /\ Links' /\ UNCHANGED <<bus, widgets, daemon, events>>
  BY <1>1, <1>2, ConnectionLinks DEF LeaseInv, AnswerProperties
<1>4. PICK k, c, sh, ws : k = service.connections[e] /\ c = Head(k.calls) /\ sh = shell /\ ws = widgets
  OBVIOUS
<1>5. /\ LinkOK(k) /\ Sequenced(k.calls) /\ Tracks(k) /\ IsLink(k) /\ News(sh)
      /\ sh.name # 0 => Intents(sh, ws, k.calls)
  BY <1>4, OwnersLink DEF LeaseInv, Bound, LinkOK
<1>6. PICK m, t : /\ m = [kind |-> "Changed", values |-> published.values]
                  /\ t = IF c.name = sh.name THEN Tell(sh, m) ELSE sh
  OBVIOUS
<1>7. t = shell'
  BY <1>4, <1>6 DEF AnswerProperties, Answered, Open, Calls
<1>8. PICK r : r = [k EXCEPT !.calls = Tail(k.calls)]
  OBVIOUS
<1>9. /\ k.calls # <<>> /\ c.kind = "GetAll" /\ ~k.begun /\ service' = [service EXCEPT !.connections[e] = r]
  BY <1>1, <1>4, <1>8, AnswerLink DEF LeaseInv
<1>10. r.calls = Tail(k.calls) /\ service'.connections[e] = r
  <2>1. r.calls = Tail(k.calls)
    BY <1>5, <1>8 DEF IsLink, Fields
  <2>2. service'.connections[e] = r
    BY <1>1, <1>9 DEF IInv, Shape, ViewInv, Linked
  <2> QED BY <2>1, <2>2
<1>11. CallOK(c) /\ Given(c.name) /\ c.name # 0
  <2>1. CallOK(c) /\ \E j \in DOMAIN k.calls : c = k.calls[j]
    BY <1>4, <1>5, <1>9, CallTaken
  <2> QED BY <1>4, <1>5, <2>1 DEF Tracks, Signed, Given
<1>12. Knows(sh) /\ ShellOK(sh) /\ sh.lifetime # 0
  BY <1>4 DEF ViewInv, LeaseInv, Desk, ShellOK
<1>13. m.kind = "Changed" /\ m.kind \in Kinds /\ m.kind # "Reply" /\ m.kind \in {"Changed", "Reply"} /\ ~Tracked(c)
  BY <1>6, <1>9 DEF Kinds, Tracked
<1>14. ShellOK(t) /\ t.name = sh.name /\ t.lifetime = sh.lifetime /\ News(t)
  <2>1. CASE c.name = sh.name
    <3>1. t = Tell(sh, m) /\ sh.name # 0
      BY <1>6, <1>11, <2>1
    <3> QED BY <1>5, <1>12, <1>13, <3>1, ToldReply, ToldNoNews
  <2>2. CASE c.name # sh.name
    BY <1>5, <1>6, <1>12, <2>2
  <2> QED BY <2>1, <2>2
<1>15. Tracks(r)'
  <2>1. SameShell
    BY <1>3, <1>4, <1>7, <1>14 DEF SameShell
  <2> QED BY <1>3, <1>5, <1>8, <1>9, <2>1, AnswerTracks
<1>16. ASSUME t.name # 0
       PROVE  Intents(t, ws, r.calls)'
  <2>1. \A w : Lease(sh.name, w)' <=> IF Ends(c, sh.name, w) THEN c.kind = "Present" ELSE Lease(sh.name, w)
    <3>1. \A w : ~Ends(c, sh.name, w)
      BY <1>9 DEF Ends
    <3> QED BY <1>3, <3>1, EventsKept
  <2>2. sh.name # 0 /\ Intents(sh, ws, k.calls) /\ (t = sh \/ t = Tell(sh, m))
    BY <1>5, <1>6, <1>14, <1>16
  <2>3. Intents(t, ws, Tail(k.calls))'
    BY <1>4, <1>5, <1>9, <1>11, <1>12, <1>13, <2>1, <2>2, ServedIntents
  <2> QED BY <1>10, <2>3
<1> QED BY <1>3, <1>4, <1>7, <1>10, <1>14, <1>15, <1>16, OwnerMoves

(* Every step of a connection.                                                *)
LEMMA ConnectionHolds ==
  ASSUME IInv, ViewInv, LeaseInv, NEW e \in Epoch, Connection(e)
  PROVE  LeaseInv'
<1>1. CASE e # bus.owner
  BY <1>1, OthersHold
<1>2. CASE e = bus.owner
  <2>1. bus.owner # 0
    BY <1>2 DEF Epoch
  <2>2. CASE Deliver(e)
    BY <1>2, <2>1, <2>2, DeliverHolds
  <2>3. CASE AnswerProperties(e)
    BY <1>2, <2>1, <2>3, AnswerHolds
  <2>4. CASE ~Deliver(e) /\ ~AnswerProperties(e)
    <3>1. \/ Begin(e) \/ Depart(e)
          \/ \E n \in service.connections[e].forwarding : Forward(e, n)
          \/ \E n \in service.connections[e].confirming : Confirm(e, n)
          \/ \E n \in service.connections[e].reporting : Report(e, n)
      BY <2>4 DEF Connection
    <3> QED BY <1>2, <2>1, <3>1, OwnerKeepsCalls
  <2> QED BY <2>2, <2>3, <2>4
<1> QED BY <1>1, <1>2

(* The emitter's signal concerns no widget.                                   *)
LEMMA SignalHolds ==
  ASSUME IInv, ViewInv, LeaseInv, EmitterSends
  PROVE  LeaseInv'
<1>1. /\ UNCHANGED <<bus, widgets, service, events, daemon>>
      /\ shell' = Tell(shell, [kind |-> "Changed", values |-> Head(published.batch)])
  BY DEF EmitterSends
<1>2. PICK sh, m, t, ws : /\ sh = shell /\ m = [kind |-> "Changed", values |-> Head(published.batch)]
                          /\ t = Tell(sh, m) /\ ws = widgets
  OBVIOUS
<1>3. t = shell'
  BY <1>1, <1>2
<1>4. CASE shell.name = 0
  <2>1. UNCHANGED <<bus, shell, widgets, service, events, daemon>>
    BY <1>1, <1>4 DEF Tell
  <2> QED BY <2>1, QuietHolds
<1>5. CASE shell.name # 0
  <2>1. Knows(sh) /\ ShellOK(sh) /\ sh.name # 0
    BY <1>2, <1>5 DEF ViewInv, LeaseInv, Desk
  <2>2. m.kind = "Changed" /\ m.kind # "Reply" /\ m.kind \in Kinds /\ m.kind \in {"Changed", "Reply"}
    BY <1>2 DEF Kinds
  <2>3. t = Tell(sh, m)
    BY <1>2
  <2>4. ShellOK(t)
    BY <2>1, <2>2, <2>3, ToldReply
  <2>5. /\ t.name = sh.name /\ t.lifetime = sh.lifetime /\ t.registered = sh.registered
        /\ t.overtaken = sh.overtaken
        /\ Noticed(t.inbox) <=> Noticed(sh.inbox)
        /\ Confirmed(sh) => Confirmed(t)
        /\ News(sh) => News(t)
    BY <2>1, <2>2, <2>3, ToldNoNews
  <2>6. Table' /\ Links'
    BY <1>1, TableKept DEF LeaseInv, Links, LinkOK, CallOK, NewConnection, Sequenced
  <2>7. CASE bus.owner = 0
    <3>1. ShellOK(shell)'
      BY <1>3, <2>4 DEF ShellOK, ReplyOK
    <3>2. Desk'
      BY <1>1, <1>2, <1>3, <2>5, <3>1 DEF LeaseInv, Desk, WidgetsOK
    <3> QED BY <1>1, <2>6, <2>7, <3>2 DEF LeaseInv
  <2>8. CASE bus.owner # 0
    <3>1. PICK k : k = service.connections[bus.owner]
      OBVIOUS
    <3>2. Tracks(k) /\ News(sh) /\ Intents(sh, ws, k.calls)
      BY <1>2, <1>5, <2>8, <3>1 DEF LeaseInv, Bound
    <3>3. SameShell
      BY <1>1, <1>2, <1>3, <2>5 DEF SameShell
    <3>4. Tracks(k)'
      BY <1>1, <3>2, <3>3, EventsKept, TracksKept
    <3>5. \A w \in Widget : /\ Unasked(sh, k.calls, w) => Unasked(t, k.calls, w)
                            /\ \A kind : Awaits(sh, k.calls, w, kind) => Awaits(t, k.calls, w, kind)
      BY <2>1, <2>2, <2>3, ToldValue
    <3>6. \A w \in Widget : Predict(sh.name, k.calls, w)' <=> Predict(sh.name, k.calls, w)
      BY <1>1, EventsKept, PredictAnew
    <3>7. Intents(t, ws, k.calls)'
      BY <2>5, <3>2, <3>5, <3>6, IntentsAnew
    <3>8. service'.connections[bus.owner] = k /\ News(t) /\ t.name = shell.name
      BY <1>1, <1>2, <2>5, <3>1, <3>2
    <3> QED BY <1>1, <1>2, <1>3, <2>4, <2>6, <2>8, <3>4, <3>7, <3>8, OwnerMoves
  <2> QED BY <2>7, <2>8
<1> QED BY <1>4, <1>5

(* Every step.                                                                *)
LEMMA LeaseStep ==
  ASSUME AppletAssumption, IInv, ViewInv, LeaseInv, [Next]_vars
  PROVE  LeaseInv'
<1>1. CASE User
  BY <1>1, WheelHolds, ToggleHolds, DestroyHolds DEF User
<1>2. CASE Disturbance
  BY <1>2, LossHolds, CrashHolds DEF Disturbance
<1>3. CASE PublishPanel \/ EmitterTakes \/ UNCHANGED vars
  <2>1. UNCHANGED <<bus, shell, widgets, service, events, daemon>>
    BY <1>3 DEF PublishPanel, EmitterTakes, vars
  <2> QED BY <2>1, QuietHolds
<1>4. CASE System /\ ~EmitterTakes
  BY <1>4, StartHolds, ReadHolds, AcquireHolds, RetireHolds, ConnectionHolds, HandleHolds, SignalHolds
     DEF System
<1> QED BY <1>1, <1>2, <1>3, <1>4 DEF Next

(* With nothing under way, the table holds what is intended, and of what was  *)
(* used too early.                                                            *)
LEMMA LeasesSettle ==
  ASSUME IInv, ViewInv, LeaseInv
  PROVE  LeasesFollowIntent
<1> SUFFICES ASSUME Idle
             PROVE  /\ Intended \subseteq daemon.leases.live
                    /\ daemon.leases.live \subseteq Intended \cup {<<shell.name, w>> : w \in shell.overtaken}
  BY DEF LeasesFollowIntent
<1>1. bus.owner # 0 /\ bus.owner \in Epoch /\ events = <<>> /\ shell.inbox = <<>>
  BY DEF Idle, IInv, TypeOK, Epoch
<1>2. PICK k : k = service.connections[bus.owner]
  OBVIOUS
<1>3. /\ k.calls = <<>> /\ k.departures = <<>> /\ k.forwarding = {} /\ k.confirming = {} /\ k.reporting = {}
  BY <1>1, <1>2 DEF Idle
<1>4. LinkOK(k) /\ Signed(k) /\ Leaving(k) /\ (shell.name # 0 => Intents(shell, widgets, k.calls))
  BY <1>1, <1>2, OwnersLink DEF LeaseInv, Bound, Tracks
<1>5. /\ DOMAIN events = {} /\ DOMAIN shell.inbox = {} /\ DOMAIN k.calls = {} /\ DOMAIN k.departures = {}
  BY <1>1, <1>3
<1>6. \A n, w : /\ Lease(n, w) <=> <<n, w>> \in daemon.leases.live
                /\ Departed(n) <=> n \in daemon.leases.gone
                /\ Predict(n, k.calls, w) <=> Lease(n, w)
  BY <1>5 DEF Lease, Departed, Predict, Holds, Since
<1>7. ASSUME NEW n, NEW w, Lease(n, w)
      PROVE  n = shell.name /\ n # 0 /\ w \in Widget
  <2>1. n \notin daemon.leases.gone /\ w \in Widget
    <3>1. <<n, w>> \in daemon.leases.live
      BY <1>6, <1>7
    <3> QED BY <3>1 DEF LeaseInv, Table
  <2>2. ~Reported(k, n) /\ ~Leaves(k, n) /\ ~Waits(k, n)
    BY <1>3, <1>4, <1>5, <1>6, <2>1 DEF Reported, Leaves, Waits, LinkOK
  <2>3. n \in k.known
    BY <1>4, <1>7, <2>2 DEF Leaving
  <2>4. n = shell.name
    BY <1>3, <1>4, <2>2, <2>3 DEF Leaving
  <2>5. n # 0
    BY <1>4, <1>7 DEF Signed, Given
  <2> QED BY <2>1, <2>4, <2>5
<1>8. ASSUME NEW w \in Widget, shell.name # 0
      PROVE  /\ widgets[w].presented => Lease(shell.name, w)
             /\ Lease(shell.name, w) => widgets[w].presented \/ w \in shell.overtaken
  <2>1. ~Noticed(shell.inbox)
    BY <1>5 DEF Noticed
  <2>2. Fine(shell, widgets[w], k.calls, w)
    BY <1>4, <1>8, <2>1 DEF Intents
  <2>3. \A kind : ~Awaits(shell, k.calls, w, kind)
    BY <1>5 DEF Awaits, One
  <2>4. widgets[w] \in Flags /\ (widgets[w].presented => widgets[w].alive)
    BY DEF LeaseInv, Desk, WidgetsOK
  <2> QED BY <1>6, <2>2, <2>3, <2>4 DEF Fine, Granted, Flags
<1>9. ASSUME NEW l \in daemon.leases.live
      PROVE  l \in Intended \cup {<<shell.name, w>> : w \in shell.overtaken}
  <2>1. l = <<l[1], l[2]>>
    BY DEF LeaseInv, Table
  <2>2. Lease(l[1], l[2])
    BY <1>6, <2>1
  <2>3. l[1] = shell.name /\ l[1] # 0 /\ l[2] \in Widget
    BY <1>7, <2>2
  <2>4. widgets[l[2]].presented \/ l[2] \in shell.overtaken
    BY <1>8, <2>2, <2>3
  <2> QED BY <2>1, <2>3, <2>4 DEF Intended
<1>10. ASSUME NEW w \in Widget, widgets[w].presented
       PROVE  <<shell.name, w>> \in daemon.leases.live
  <2>1. shell.name # 0
    BY <1>10 DEF LeaseInv, Desk
  <2> QED BY <1>6, <1>8, <1>10, <2>1
<1> QED BY <1>9, <1>10 DEF Intended

(* Once everything is delivered the daemon holds the lease of every widget    *)
(* of the connected shell that presents, and no other, whatever was lost,     *)
(* crashed or restarted before, for any widgets, capacities and number of     *)
(* connections.  Excepted are the widgets that the shell last used on this    *)
(* connection before it had read of the registration: their lease may be left *)
(* over (Leases, Outbox, forward_disconnects, confirm_connected and           *)
(* PresentationLease.qml).                                                    *)
THEOREM LeasesAreIntended == Spec => []LeasesFollowIntent
<1>1. Init => IInv /\ ViewInv /\ LeaseInv
  BY AppletAssumption, InitInvariant, InitCurrent, InitHolds
<1>2. (IInv /\ ViewInv /\ LeaseInv) /\ [Next]_vars => (IInv /\ ViewInv /\ LeaseInv)'
  BY AppletAssumption, StepInvariant, StepCurrent, LeaseStep
<1>3. IInv /\ ViewInv /\ LeaseInv => LeasesFollowIntent
  BY LeasesSettle
<1> QED BY <1>1, <1>2, <1>3, PTL DEF Spec
=============================================================================
