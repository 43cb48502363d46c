----------------------------- MODULE ServiceProofs -----------------------------
(* What the services keep up: a bus service its connection, the file watch    *)
(* its attention, the notifications their episodes, and the shell that stops  *)
(* leaves nothing behind.                                                     *)
EXTENDS BusService, FileWatch, Notify, CommandService, TLAPS

-----------------------------------------------------------------------------
(* A bus service gives up a connection only when it is lost, for any clients, *)
(* capacities and backoff.  LiveConnectionKept is not inductive by itself: a  *)
(* late report of a call must be known to speak of a connection that is gone, *)
(* and must go on doing so when the service has connected anew.               *)

Links ==
  [connection: Nat, generation: Nat, connecting: BOOLEAN,
   signals: {"none", "listening", "ended"}, delay: Nat, wait: Nat,
   ready: {"pending", "connected", "unavailable"}, phase: {"serving", "ended"}]

Peers == [kind: {"System", "Session"}, up: BOOLEAN, live: Nat, left: Nat]

(* Connections are numbered up to the generation, and a call that reports a   *)
(* disconnect was made on one that does not live any more.                    *)
Dated ==
  /\ link \in Links /\ peer \in Peers
  /\ inflight \in [Client -> Nat]
  /\ link.connection <= link.generation /\ peer.live <= link.generation
  /\ \A c \in Client : inflight[c] <= link.generation
  /\ \A e \in completed :
       /\ e.connection \in 1..link.generation
       /\ e.disconnected => e.connection # peer.live

(* The backoff keeps the shape of the link.                                   *)
LEMMA BackoffTypes ==
  ASSUME NEW l \in Links
  PROVE  /\ Failed(l) \in Links /\ Dropped(l) \in Links /\ Connected(l) \in Links
         /\ Dropped(l).generation = l.generation /\ Dropped(l).connection = NoConnection
         /\ Failed(l).generation = l.generation /\ Failed(l).connection = l.connection
<1>1. BACKOFF_MAX \in Nat /\ BACKOFF_MIN \in Nat
  BY BusAssumption
<1>2. \A d \in Nat : Lower(2 * d, BACKOFF_MAX) \in Nat
  BY <1>1 DEF Lower
<1> QED BY <1>1, <1>2 DEF Links, Failed, Dropped, Connected, NoConnection

(* Nothing is connected at the start.                                         *)
LEMMA InitDated == BusInit => Dated
<1>1. MaxTrouble \in Nat /\ BACKOFF_MIN \in Nat
  BY BusAssumption
<1> QED BY <1>1 DEF BusInit, Dated, Links, Peers, NoConnection

(* Every step keeps the dates.                                                *)
LEMMA StepDated == Dated /\ [BusNext]_busVars => Dated'
<1> SUFFICES ASSUME Dated, [BusNext]_busVars PROVE Dated'
  OBVIOUS
<1>0. link \in Links /\ peer \in Peers /\ link.generation \in Nat
  BY DEF Dated, Links
<1> USE DEF Dated
<1>1. ASSUME NEW c \in Client, Submit(c) \/ SubmitFails(c) \/ Ask(c)
      PROVE  Dated'
  BY <1>1 DEF Submit, SubmitFails, Ask
<1>2. ASSUME NEW c \in Client, CallEnds(c)
      PROVE  Dated'
  <2>1. PICK disconnected \in BOOLEAN :
          /\ disconnected => inflight[c] # peer.live
          /\ completed' = completed \cup
               {[connection |-> inflight[c], disconnected |-> disconnected]}
    BY <1>2 DEF CallEnds
  <2>2. inflight[c] \in 1..link.generation
    BY <1>2 DEF CallEnds, NoConnection, Links
  <2>3. inflight' = [inflight EXCEPT ![c] = NoConnection] /\ UNCHANGED <<peer, link>>
    BY <1>2 DEF CallEnds
  <2> QED BY <2>1, <2>2, <2>3 DEF NoConnection, Links
<1>3. CASE AcceptCall
  <2>1. UNCHANGED <<peer, link, completed>>
    BY <1>3 DEF AcceptCall
  <2>2. \/ inflight' = inflight
        \/ inflight' = [inflight EXCEPT ![Head(backlog)] = link.connection]
    BY <1>3 DEF AcceptCall
  <2> QED BY <2>1, <2>2 DEF Links
<1>4. ASSUME NEW e \in completed, JoinCall(e)
      PROVE  Dated'
  <2>1. /\ completed' \subseteq completed /\ UNCHANGED <<peer, inflight>>
        /\ link' \in {link, Dropped(link)}
    BY <1>4 DEF JoinCall
  <2> QED BY <2>1, BackoffTypes DEF NoConnection, Links
<1>5. CASE SignalsEnded
  <2>1. link' = Dropped(link) /\ UNCHANGED <<peer, inflight, completed>>
    BY <1>5 DEF SignalsEnded
  <2> QED BY <2>1, BackoffTypes DEF NoConnection, Links
<1>6. CASE SignalsClose \/ StartConnecting \/ BusTick
  <2>1. /\ link' \in Links /\ link'.generation = link.generation
        /\ link'.connection = link.connection
    <3> HIDE DEF Dated
    <3>1. link.wait > 0 => link.wait - 1 \in Nat
      BY <1>0 DEF Links
    <3>2. CASE SignalsClose
      BY <1>0, <3>2 DEF SignalsClose, Links
    <3>3. CASE StartConnecting
      BY <1>0, <3>3 DEF StartConnecting, Links
    <3>4. CASE BusTick
      BY <1>0, <3>1, <3>4 DEF BusTick, Links
    <3> QED BY <1>6, <3>2, <3>3, <3>4
  <2>2. UNCHANGED <<peer, inflight, completed>>
    BY <1>6 DEF SignalsClose, StartConnecting, BusTick
  <2> QED BY <2>1, <2>2
<1>7. CASE ConnectFails
  <2>1. Failed(link) \in Links /\ Failed(link).generation = link.generation
        /\ Failed(link).connection = link.connection
    BY BackoffTypes
  <2>2. /\ link' = [Failed(link) EXCEPT !.connecting = FALSE,
                                        !.ready = IF @ = "pending" THEN "unavailable" ELSE @]
        /\ UNCHANGED <<peer, inflight, completed>>
    BY <1>7 DEF ConnectFails
  <2> QED BY <2>1, <2>2 DEF Links
<1>8. CASE ConnectSucceeds
  <2>1. Connected(link) \in Links
    BY BackoffTypes
  <2>2. /\ link' \in Links /\ link'.generation = link.generation + 1
        /\ link'.connection = link.generation + 1
    <3> HIDE DEF Dated
    <3> DEFINE c == Connected(link)
               signals == IF System THEN "listening" ELSE c.signals
               ready == IF c.ready = "pending" THEN "connected" ELSE c.ready
               n == link.generation + 1
               l == [c EXCEPT !.connecting = FALSE, !.generation = n, !.connection = n,
                              !.signals = signals, !.ready = ready]
    <3>1. link' = l
      BY <1>0, <1>8 DEF ConnectSucceeds, Connected, Links
    <3>2. signals \in {"none", "listening", "ended"} /\ n \in Nat
          /\ ready \in {"pending", "connected", "unavailable"}
      BY <1>0, <2>1 DEF Links
    <3> HIDE DEF c, signals, ready, n
    <3>3. l \in Links /\ l.generation = n /\ l.connection = n
      BY <2>1, <3>2 DEF Links, c
    <3> QED BY <3>1, <3>3 DEF n
  <2>3. /\ peer' \in Peers /\ peer'.live = link.generation + 1
        /\ UNCHANGED <<inflight, completed>>
    BY <1>8 DEF ConnectSucceeds, Peers, Links
  <2>4. link.generation \in Nat
    BY DEF Links
  <2>5. \A e \in completed' : /\ e.connection \in 1..(link.generation + 1)
                              /\ e.connection # link.generation + 1
    BY <2>3, <2>4
  <2>6. \A c \in Client : inflight'[c] <= link.generation + 1
    BY <2>3, <2>4
  <2> QED BY <2>2, <2>3, <2>4, <2>5, <2>6
<1>9. CASE LoseLink \/ BusReturns
  <2>1. /\ peer' \in Peers /\ peer'.live \in {peer.live, 0}
        /\ UNCHANGED <<link, inflight, completed>>
    <3> HIDE DEF Dated
    <3>1. peer.left > 0 => peer.left - 1 \in Nat
      BY <1>0 DEF Peers
    <3>2. CASE LoseLink
      <4> DEFINE n == peer.left - 1
      <4>1. PICK up \in BOOLEAN : peer' = [peer EXCEPT !.left = n, !.live = 0, !.up = up]
        BY <3>2 DEF LoseLink, NoConnection
      <4>2. n \in Nat /\ peer \in Peers
        BY <1>0, <3>1, <3>2 DEF LoseLink
      <4>3. UNCHANGED <<link, inflight, completed>>
        BY <3>2 DEF LoseLink
      <4> HIDE DEF n
      <4>4. peer' \in Peers /\ peer'.live = 0
        BY <4>1, <4>2 DEF Peers
      <4> QED BY <4>3, <4>4
    <3>3. CASE BusReturns
      BY <1>0, <3>3 DEF BusReturns, Peers
    <3> QED BY <1>9, <3>2, <3>3
  <2>2. \A e \in completed : e.connection # 0
    BY <1>0
  <2>3. peer'.live <= link.generation
    BY <1>0, <2>1 DEF Peers
  <2> QED BY <1>0, <2>1, <2>2, <2>3
<1>10. CASE MonitorFails
  BY <1>10 DEF MonitorFails, Trouble, Peers, Links
<1>11. CASE StopBus
  <2>1. /\ link' \in Links /\ link'.generation = link.generation
        /\ link'.connection = link.connection
    BY <1>11 DEF StopBus, Links
  <2>2. inflight' = [c \in Client |-> 0] /\ completed' = {} /\ peer' = peer
    BY <1>11 DEF StopBus, NoConnection
  <2> QED BY <2>1, <2>2 DEF Links
<1>12. CASE UNCHANGED busVars
  BY <1>12 DEF busVars
<1> QED
  BY <1>1, <1>2, <1>3, <1>4, <1>5, <1>6, <1>7, <1>8, <1>9, <1>10, <1>11, <1>12
     DEF BusNext, BusRuntime, BusConnects, BusOutside

(* Only these two steps of the service give a connection up.                  *)
LEMMA GivenUp ==
  ASSUME Dated, BusNext, link'.connection = NoConnection, link.connection # NoConnection
  PROVE  SignalsEnded \/ \E e \in completed : JoinCall(e) /\ e.disconnected
                                              /\ e.connection = link.connection
<1>1. link \in Links
  BY DEF Dated
<1>2. CASE link' = link
  BY <1>2
<1>3. CASE \E e \in completed : JoinCall(e)
  BY <1>3 DEF JoinCall
<1>4. CASE SignalsClose \/ StartConnecting \/ BusTick \/ MonitorFails \/ StopBus
  BY <1>1, <1>4 DEF SignalsClose, StartConnecting, BusTick, MonitorFails, StopBus, Links
<1>5. CASE ConnectFails
  BY <1>1, <1>5, BackoffTypes DEF ConnectFails, Links
<1>6. CASE ConnectSucceeds
  <2>1. Connected(link) \in Links
    BY <1>1, BackoffTypes
  <2> QED BY <1>1, <1>6, <2>1 DEF ConnectSucceeds, Links, NoConnection
<1> QED BY <1>2, <1>3, <1>4, <1>5, <1>6
        DEF BusNext, BusRuntime, BusConnects, BusOutside, Submit, SubmitFails, Ask, CallEnds,
            AcceptCall, LoseLink, BusReturns

(* A connection the service gives up is lost, or its signals have ended: the  *)
(* late failure of a call of an earlier connection does not cost the current  *)
(* one.                                                                       *)
THEOREM ConnectionsAreKept == BusSpec => LiveConnectionKept
<1>1. Dated /\ [BusNext]_busVars =>
        [link.connection # NoConnection /\ link'.connection = NoConnection
           => link.connection # peer.live \/ link.signals = "ended"]_busVars
  <2> SUFFICES ASSUME Dated, BusNext, link.connection # NoConnection,
                      link'.connection = NoConnection
               PROVE  link.connection # peer.live \/ link.signals = "ended"
    BY DEF busVars
  <2>1. CASE SignalsEnded
    BY <2>1 DEF SignalsEnded
  <2>2. CASE \E e \in completed : e.disconnected /\ e.connection = link.connection
    BY <2>2 DEF Dated
  <2> QED BY <2>1, <2>2, GivenUp
<1> QED BY <1>1, InitDated, StepDated, PTL DEF BusSpec, LiveConnectionKept

-----------------------------------------------------------------------------
(* No change of a file is missed but what a mere move of the watches closes   *)
(* away, for any number of versions and moves and any size of the kernel's    *)
(* queue.  A change is always on its way to the daemon: read and pending,     *)
(* named by an event of the queue, covered by a recovery, which rescans       *)
(* everything, or it belongs to a source that a closed descriptor would have  *)
(* told of.                                                                   *)

(* The queue or the watcher holds a recovery.                                 *)
Recovering == watcher.recover \/ Recovers(inotify.queue)

(* A change of the source is read and pending, or will be read.               *)
Pended(s) == s \in watcher.pending \/ s \in Classified(inotify.queue)

(* The watch that would tell of the next change of f.                         *)
Nearest(f) == <<NearestDirectory(f), disk.inode[NearestDirectory(f)]>>

Watching(f) == Nearest(f) \in inotify.watches

(* A directory lies in one that exists.                                       *)
Tree ==
  /\ disk \in [content: [File -> Nat], last: [File -> Nat], inode: [Directory -> Nat], moves: Nat]
  /\ Exists("home") /\ (Exists("style") => Exists("conf"))
  /\ \A f \in File : disk.content[f] # 0 => Exists(Parent[f])

(* A future that reads has nothing pending.                                   *)
Stage ==
  /\ {"config", "css"} \subseteq watcher.targets /\ watcher.targets \subseteq File
  /\ applied \in [File -> Nat]
  /\ watcher.recover \in BOOLEAN
  /\ watcher.at = "reading" => watcher.pending = {} /\ ~watcher.recover
  /\ watcher = [at |-> watcher.at, targets |-> watcher.targets, changed |-> watcher.changed,
                pending |-> watcher.pending, recover |-> watcher.recover, attempt |-> watcher.attempt,
                unheard |-> watcher.unheard]
  /\ inotify = [watches |-> inotify.watches, queue |-> inotify.queue]

(* The watched directories exist, the style directory below the other.        *)
Watched ==
  /\ \A i \in inotify.watches : i = <<i[1], i[2]>> /\ i[1] \in Directory /\ i[2] # 0
  /\ (\E i \in inotify.watches : i[1] = "style") => \E i \in inotify.watches : i[1] = "conf"
  /\ Recovering \/ \A i \in inotify.watches : disk.inode[i[1]] = i[2]

(* A file whose next change would not be heard has been heard of; so has one  *)
(* whose last change is not applied, if that was not closed away.             *)
Attended ==
  \A f \in watcher.targets :
    /\ Watching(f) \/ Recovering \/ Pended(SourceOf(f))
    /\ \/ applied[f] = disk.content[f] \/ Recovering \/ Pended(SourceOf(f))
       \/ watcher.at = "processing" /\ SourceOf(f) \in watcher.changed
       \/ watcher.at = "failed"
       \/ SourceOf(f) \in watcher.unheard

WatchInv == Tree /\ Stage /\ Watched /\ Attended

-----------------------------------------------------------------------------
(* The tree of the daemon's files.                                            *)

LEMMA Paths ==
  /\ Above("config") = {"config", "conf", "home"}
  /\ Above("css") = {"css", "style", "conf", "home"}
  /\ Above("overlay") = {"overlay", "style", "conf", "home"}
  /\ Above("style") = {"style", "conf", "home"}
  /\ Above("conf") = {"conf", "home"} /\ Above("home") = {"home"}
  /\ Parent["config"] = "conf" /\ Parent["css"] = "style" /\ Parent["overlay"] = "style"
  /\ Parent["style"] = "conf" /\ Parent["conf"] = "home" /\ Parent["home"] = "home"
  BY DEF Above, Parent

(* The nearest directory above a file is the one the watches should name.     *)
LEMMA NearestIs ==
  ASSUME Tree, NEW f \in File
  PROVE  /\ NearestDirectory(f) \in Directory /\ NearestDirectory(f) \in Above(f)
         /\ Exists(NearestDirectory(f))
         /\ Exists(Parent[f]) => NearestDirectory(f) = Parent[f]
         /\ NearestDirectory(f) = "style" => f # "config"
         /\ disk.inode[NearestDirectory(f)] \in Nat
<1>1. CASE f = "config"
  BY <1>1, Paths DEF Tree, NearestDirectory, Exists, Directory, File
<1>2. CASE f = "css"
  BY <1>2, Paths DEF Tree, NearestDirectory, Exists, Directory, File
<1>3. CASE f = "overlay"
  BY <1>3, Paths DEF Tree, NearestDirectory, Exists, Directory, File
<1> QED BY <1>1, <1>2, <1>3 DEF File

(* A file is related to itself and to the directories above it.               *)
LEMMA RelatedAbove ==
  ASSUME NEW f \in File
  PROVE  Related(f, f) /\ \A d \in Above(f) : Related(d, f)
  BY DEF Related, Above

-----------------------------------------------------------------------------
(* The world changes, and the kernel tells.                                   *)

(* What was on its way stays, and an event of a watched directory joins it.   *)
LEMMA Tells ==
  ASSUME Stage, NEW E, Notifies(E), UNCHANGED watcher
  PROVE  /\ inotify' = [inotify EXCEPT !.queue = inotify'.queue]
         /\ inotify'.watches = inotify.watches /\ inotify.queue \subseteq inotify'.queue
         /\ Recovering => Recovering'
         /\ \A s : Pended(s) => Pended(s)'
         /\ \A e \in E : e.inode \in inotify.watches =>
              /\ e.recovery => Recovering'
              /\ \A f \in watcher.targets :
                   Related(e.entry, f) => Recovering' \/ Pended(SourceOf(f))'
<1> DEFINE heard == {e \in E : e.inode \in inotify.watches}
<1>1. inotify'.watches = inotify.watches /\ inotify'.queue = Enqueued(E)
      /\ inotify' = [inotify EXCEPT !.queue = inotify'.queue]
  BY DEF Notifies, Stage
<1>2. \/ inotify'.queue = inotify.queue \cup heard
      \/ inotify'.queue = inotify.queue \cup {Overflow}
  BY <1>1 DEF Enqueued
<1>3. inotify.queue \subseteq inotify'.queue
  BY <1>2
<1>4. Recovering => Recovering'
  BY <1>3 DEF Recovering, Recovers
<1>5. \A s : Pended(s) => Pended(s)'
  BY <1>1, <1>3 DEF Pended, Classified
<1>6. ASSUME NEW e \in E, e.inode \in inotify.watches
      PROVE  /\ e.recovery => Recovering'
             /\ \A f \in watcher.targets :
                   Related(e.entry, f) => Recovering' \/ Pended(SourceOf(f))'
  <2>1. CASE Overflow \in inotify'.queue
    BY <2>1 DEF Recovering, Recovers, Overflow
  <2>2. CASE e \in inotify'.queue
    BY <1>1, <1>6, <2>2 DEF Recovering, Recovers, Pended, Classified, Sources
  <2> QED BY <1>2, <1>6, <2>1, <2>2
<1> QED BY <1>1, <1>3, <1>4, <1>5, <1>6

(* A file is written or deleted.                                              *)
LEMMA FileKeeps ==
  ASSUME WatchInv, NEW f \in File, Exists(Parent[f]), Tree', disk'.inode = disk.inode,
         \A g \in File \ {f} : disk'.content[g] = disk.content[g],
         Notifies({Event(Parent[f], f, FALSE)}), UNCHANGED <<watcher, applied>>
  PROVE  WatchInv'
<1> DEFINE e == Event(Parent[f], f, FALSE)
<1>1. /\ inotify'.watches = inotify.watches
      /\ inotify' = [inotify EXCEPT !.queue = inotify'.queue]
      /\ Recovering => Recovering'
      /\ \A s : Pended(s) => Pended(s)'
  BY Tells DEF WatchInv
<1>2. \A g \in watcher.targets : Nearest(g)' = Nearest(g) /\ Watching(g)' = Watching(g)
  BY <1>1 DEF Watching, Nearest, NearestDirectory, Exists
<1>3. Stage'
  BY <1>1 DEF WatchInv, Stage
<1>4. Watched'
  BY <1>1 DEF WatchInv, Watched
<1>5. f \in watcher.targets => Recovering' \/ Pended(SourceOf(f))'
  <2>1. e.inode = Nearest(f) /\ e.entry = f
    BY NearestIs DEF WatchInv, Nearest, Event
  <2>2. Nearest(f) \in inotify.watches /\ f \in watcher.targets
          => Recovering' \/ Pended(SourceOf(f))'
    <3> HIDE DEF e
    <3>1. \A x \in {e} : x.inode \in inotify.watches =>
            \A g \in watcher.targets : Related(x.entry, g) => Recovering' \/ Pended(SourceOf(g))'
      BY Tells DEF WatchInv, e
    <3> QED BY <2>1, <3>1, RelatedAbove
  <2> QED BY <1>1, <2>2 DEF WatchInv, Attended, Watching
<1>6. Attended'
  BY <1>1, <1>2, <1>5 DEF WatchInv, Stage, Attended
<1> QED BY <1>3, <1>4, <1>6 DEF WatchInv

(* A directory is made below one that exists: whoever waited for it watches   *)
(* that one.                                                                  *)
LEMMA MakeKeeps ==
  ASSUME WatchInv, NEW d \in Directory, MakeDirectory(d)
  PROVE  WatchInv'
<1> DEFINE e == Event(Parent[d], d, FALSE)
<1>0. Tree /\ Stage /\ Watched /\ Attended
  BY DEF WatchInv
<1>1. /\ ~Exists(d) /\ Exists(Parent[d]) /\ d \in {"conf", "style"}
      /\ disk' = [disk EXCEPT !.inode[d] = disk.moves + 1, !.moves = disk.moves + 1]
      /\ Notifies({e}) /\ UNCHANGED <<watcher, applied>>
  BY <1>0 DEF MakeDirectory, Tree, Directory
<1>2. /\ disk'.content = disk.content
      /\ disk'.inode[d] # 0 /\ \A p \in Directory \ {d} : disk'.inode[p] = disk.inode[p]
      /\ Tree'
  <2>1. disk.moves + 1 \in Nat \ {0}
    BY <1>0 DEF Tree
  <2>2. disk' \in [content: [File -> Nat], last: [File -> Nat], inode: [Directory -> Nat], moves: Nat]
        /\ disk'.inode = [disk.inode EXCEPT ![d] = disk.moves + 1] /\ disk'.content = disk.content
    BY <1>0, <1>1, <2>1 DEF Tree
  <2> QED BY <1>0, <1>1, <2>1, <2>2, Paths DEF Tree, Exists, Directory
<1> HIDE DEF e
<1>3. /\ inotify'.watches = inotify.watches
      /\ inotify' = [inotify EXCEPT !.queue = inotify'.queue]
      /\ Recovering => Recovering'
      /\ \A s : Pended(s) => Pended(s)'
      /\ \A x \in {e} : x.inode \in inotify.watches =>
           \A f \in watcher.targets : Related(x.entry, f) => Recovering' \/ Pended(SourceOf(f))'
  BY <1>0, <1>1, Tells
<1>4. Stage'
  BY <1>0, <1>1, <1>3 DEF Stage
<1>5. Watched'
  <2>1. \A i \in inotify.watches : i[1] = d => Recovering
    BY <1>0, <1>1 DEF Watched, Exists
  <2> QED BY <1>0, <1>2, <1>3, <2>1 DEF Watched
<1>6. ASSUME NEW f \in watcher.targets
      PROVE  Watching(f)' \/ Recovering' \/ Pended(SourceOf(f))'
  <2>1. f \in File
    BY <1>0 DEF Stage
  <2>2. CASE d \in Above(f)
    <3>1. NearestDirectory(f) = Parent[d]
      BY <1>0, <1>1, <2>1, <2>2, Paths DEF Tree, NearestDirectory, Exists, File
    <3>2. e.inode = Nearest(f) /\ e.entry = d /\ Related(d, f)
      BY <2>1, <2>2, <3>1, RelatedAbove DEF Nearest, e, Event
    <3>3. Watching(f) => Recovering' \/ Pended(SourceOf(f))'
      BY <1>3, <3>2 DEF Watching
    <3> QED BY <1>0, <1>3, <3>3 DEF Attended
  <2>3. CASE d \notin Above(f)
    <3>1. NearestDirectory(f)' = NearestDirectory(f)
      BY <1>1, <1>2, <2>1, <2>3, Paths DEF NearestDirectory, Exists, File, Directory
    <3>2. NearestDirectory(f) \in Above(f) /\ NearestDirectory(f) \in Directory
      BY <1>0, <2>1, NearestIs
    <3>3. Watching(f)' = Watching(f)
      BY <1>2, <1>3, <2>3, <3>1, <3>2 DEF Watching, Nearest
    <3> QED BY <1>0, <1>3, <3>3 DEF Attended
  <2> QED BY <2>2, <2>3
<1>7. Attended'
  BY <1>0, <1>1, <1>2, <1>3, <1>6 DEF Attended
<1> QED BY <1>2, <1>4, <1>5, <1>7 DEF WatchInv

(* A directory goes with all in it.  If it was watched, or one in it, that is *)
(* a recovery; else it lay in a directory nobody had heard of yet.            *)
LEMMA RemoveKeeps ==
  ASSUME WatchInv, NEW d \in Directory, RemoveDirectory(d)
  PROVE  WatchInv'
<1> DEFINE out  == Event(Parent[d], d, FALSE)
           self == Event(d, d, TRUE)
           gone == {p \in Directory \cup File : d \in Above(p)}
<1>0. Tree /\ Stage /\ Watched /\ Attended
  BY DEF WatchInv
<1>1. /\ Exists(d) /\ d \in {"conf", "style"}
      /\ disk' = [disk EXCEPT
                    !.content = [f \in File |-> IF f \in gone THEN 0 ELSE @[f]],
                    !.inode = [p \in Directory |-> IF p \in gone THEN 0 ELSE @[p]],
                    !.moves = @ + 1]
      /\ Notifies({out, self}) /\ UNCHANGED <<watcher, applied>>
  BY <1>0 DEF RemoveDirectory, Directory
<1>2. /\ \A f \in File : disk'.content[f] = IF d \in Above(f) THEN 0 ELSE disk.content[f]
      /\ \A p \in Directory : disk'.inode[p] = IF d \in Above(p) THEN 0 ELSE disk.inode[p]
  BY <1>0, <1>1 DEF Tree
<1>3. Tree'
  <2> DEFINE content == [f \in File |-> IF f \in gone THEN 0 ELSE disk.content[f]]
             inode   == [p \in Directory |-> IF p \in gone THEN 0 ELSE disk.inode[p]]
  <2>1. content \in [File -> Nat] /\ inode \in [Directory -> Nat] /\ disk.moves + 1 \in Nat
    BY <1>0 DEF Tree
  <2>2. disk' = [disk EXCEPT !.content = content, !.inode = inode, !.moves = disk.moves + 1]
    BY <1>0, <1>1 DEF Tree
  <2> HIDE DEF content, inode
  <2>3. disk' \in [content: [File -> Nat], last: [File -> Nat], inode: [Directory -> Nat], moves: Nat]
    BY <1>0, <2>1, <2>2 DEF Tree
  <2>4. \A f \in File : disk'.content[f] # 0 => Exists(Parent[f])'
    <3> SUFFICES ASSUME NEW f \in File, disk'.content[f] # 0 PROVE Exists(Parent[f])'
      OBVIOUS
    <3>1. d \notin Above(f)
      BY <1>2
    <3> QED BY <1>0, <1>1, <1>2, <3>1, Paths DEF Tree, Exists, Directory, File
  <2> QED BY <1>0, <1>1, <1>2, <2>3, <2>4, Paths DEF Tree, Exists, Directory
<1> HIDE DEF out, self, gone
<1>4. /\ inotify'.watches = inotify.watches
      /\ inotify' = [inotify EXCEPT !.queue = inotify'.queue]
      /\ Recovering => Recovering'
      /\ \A s : Pended(s) => Pended(s)'
      /\ self.inode \in inotify.watches /\ self.recovery => Recovering'
  BY <1>0, <1>1, Tells
<1>5. Stage'
  BY <1>0, <1>1, <1>4 DEF Stage
<1>6. ASSUME NEW i \in inotify.watches, d \in Above(i[1])
      PROVE  Recovering'
  <2>1. self.inode = <<d, disk.inode[d]>> /\ self.recovery
    BY DEF self, Event
  <2>2. \E j \in inotify.watches : j[1] = d
    BY <1>0, <1>1, <1>6, Paths DEF Watched, Directory
  <2>3. ~Recovering => <<d, disk.inode[d]>> \in inotify.watches
    BY <1>0, <2>2 DEF Watched
  <2> QED BY <1>4, <2>1, <2>3
<1>7. Watched'
  BY <1>0, <1>2, <1>4, <1>6 DEF Watched
<1>8. ASSUME NEW f \in watcher.targets
      PROVE  /\ Watching(f)' \/ Recovering' \/ Pended(SourceOf(f))'
             /\ disk'.content[f] = disk.content[f] \/ Recovering' \/ Pended(SourceOf(f))'
  <2>1. f \in File
    BY <1>0 DEF Stage
  <2>2. CASE d \in Above(f)
    <3>1. d \in Above(NearestDirectory(f))
      BY <1>0, <1>1, <2>1, <2>2, Paths DEF Tree, NearestDirectory, Exists, File
    <3>2. Watching(f) => Recovering'
      BY <1>6, <3>1 DEF Watching, Nearest
    <3> QED BY <1>0, <1>4, <3>2 DEF Attended
  <2>3. CASE d \notin Above(f)
    <3>1. NearestDirectory(f)' = NearestDirectory(f) /\ d \notin Above(NearestDirectory(f))
      BY <1>1, <1>2, <2>1, <2>3, Paths DEF NearestDirectory, Exists, File, Directory
    <3>2. NearestDirectory(f) \in Directory
      BY <1>0, <2>1, NearestIs
    <3>3. Watching(f)' = Watching(f)
      BY <1>2, <1>4, <3>1, <3>2 DEF Watching, Nearest
    <3> QED BY <1>0, <1>2, <1>4, <2>1, <2>3, <3>3 DEF Attended
  <2> QED BY <2>2, <2>3
<1>9. Attended'
  BY <1>0, <1>1, <1>4, <1>8 DEF Attended
<1> QED BY <1>3, <1>5, <1>7, <1>9 DEF WatchInv

-----------------------------------------------------------------------------
(* The watcher and the daemon.                                                *)

(* A new descriptor watches the directories that exist, nearest to the        *)
(* targets.                                                                   *)
LEMMA ArmWatches ==
  ASSUME Tree, NEW targets, {"config", "css"} \subseteq targets, targets \subseteq File,
         Arm(targets), UNCHANGED disk
  PROVE  /\ inotify' = [watches |-> inotify'.watches, queue |-> {}]
         /\ \A f \in targets : Watching(f)'
         /\ Watched'
<1> DEFINE watches == {<<d, disk.inode[d]>> : d \in WatchedDirectories(targets)}
<1>1. inotify' = [watches |-> watches, queue |-> {}]
  BY DEF Arm
<1>2. \A d \in WatchedDirectories(targets) :
        d \in Directory /\ disk.inode[d] # 0 /\ \E f \in targets : d = NearestDirectory(f)
  BY NearestIs DEF WatchedDirectories, Exists
<1>3. \A f \in targets : Watching(f)'
  BY <1>1 DEF Watching, Nearest, NearestDirectory, Exists, WatchedDirectories
<1>4. "style" \in WatchedDirectories(targets) => "conf" \in WatchedDirectories(targets)
  <2> SUFFICES ASSUME "style" \in WatchedDirectories(targets)
               PROVE  NearestDirectory("config") = "conf"
    BY DEF WatchedDirectories
  <2>1. Exists("conf")
    BY <1>2 DEF Tree, Exists
  <2> QED BY <2>1, Paths DEF NearestDirectory
<1>5. Watched'
  <2>1. \A i \in watches : \E d \in WatchedDirectories(targets) : i = <<d, disk.inode[d]>>
    OBVIOUS
  <2>2. \A d \in WatchedDirectories(targets) : <<d, disk.inode[d]>> \in watches
    OBVIOUS
  <2>3. inotify'.watches = watches
    BY <1>1
  <2> HIDE DEF watches
  <2>4. \A i \in watches : i = <<i[1], i[2]>> /\ i[1] \in Directory /\ i[2] # 0
                          /\ disk.inode[i[1]] = i[2] /\ i[1] \in WatchedDirectories(targets)
    BY <1>2, <2>1
  <2>5. (\E i \in watches : i[1] = "style") => \E i \in watches : i[1] = "conf"
    BY <1>4, <2>2, <2>4
  <2> QED BY <2>3, <2>4, <2>5 DEF Watched
<1> QED BY <1>1, <1>3, <1>5

(* Nothing changes but where the future stands and what it has read.          *)
LEMMA WatcherReads ==
  ASSUME WatchInv, UNCHANGED <<disk, applied>>,
         watcher' = [watcher EXCEPT !.at = watcher'.at, !.pending = watcher'.pending,
                                    !.recover = watcher'.recover],
         inotify' = [inotify EXCEPT !.queue = {}], watcher'.recover \in BOOLEAN,
         watcher'.at \in {"reading", "debouncing", "drained"},
         watcher'.at = "reading" => watcher'.pending = {} /\ ~watcher'.recover,
         Recovering => watcher'.recover,
         watcher.pending \cup Classified(inotify.queue) \subseteq watcher'.pending,
         watcher.at # "processing", watcher.at # "failed"
  PROVE  WatchInv'
<1>0. Tree /\ Stage /\ Watched /\ Attended
  BY DEF WatchInv
<1>1. /\ inotify'.watches = inotify.watches /\ inotify'.queue = {}
      /\ watcher'.targets = watcher.targets /\ watcher'.unheard = watcher.unheard
  BY <1>0 DEF Stage
<1>2. Recovering => Recovering'
  BY DEF Recovering
<1>3. \A s : Pended(s) => Pended(s)'
  BY DEF Pended
<1>4. \A f \in watcher.targets : Watching(f)' = Watching(f)
  BY <1>1 DEF Watching, Nearest, NearestDirectory, Exists
<1>5. Stage'
  <2>1. watcher' = [at |-> watcher'.at, targets |-> watcher'.targets, changed |-> watcher'.changed,
                    pending |-> watcher'.pending, recover |-> watcher'.recover,
                    attempt |-> watcher'.attempt, unheard |-> watcher'.unheard]
    BY <1>0 DEF Stage
  <2>2. inotify' = [watches |-> inotify'.watches, queue |-> inotify'.queue]
    BY <1>0 DEF Stage
  <2> QED BY <1>0, <1>1, <2>1, <2>2 DEF Stage
<1>6. Tree' /\ Watched'
  BY <1>0, <1>1, <1>2 DEF Tree, Exists, Watched
<1>7. Attended'
  BY <1>0, <1>1, <1>2, <1>3, <1>4 DEF Attended
<1> QED BY <1>5, <1>6, <1>7 DEF WatchInv

LEMMA ReadEventsKeeps == WatchInv /\ ReadEvents => WatchInv'
<1> SUFFICES ASSUME WatchInv, ReadEvents PROVE WatchInv'
  OBVIOUS
<1>1. watcher.pending = {} /\ ~watcher.recover /\ Stage
  BY DEF WatchInv, Stage, ReadEvents
<1>2. /\ watcher'.pending = Classified(inotify.queue) /\ watcher'.recover = Recovers(inotify.queue)
      /\ watcher' = [watcher EXCEPT !.at = watcher'.at, !.pending = watcher'.pending,
                                     !.recover = watcher'.recover]
      /\ watcher'.at = IF watcher'.pending # {} \/ watcher'.recover THEN "debouncing" ELSE "reading"
      /\ UNCHANGED <<disk, applied>> /\ inotify' = [inotify EXCEPT !.queue = {}]
  BY <1>1 DEF ReadEvents, Stage
<1>3. Recovers(inotify.queue) \in BOOLEAN /\ (Recovering => watcher'.recover)
  BY <1>1, <1>2 DEF Recovers, Recovering
<1> QED BY <1>1, <1>2, <1>3, WatcherReads DEF ReadEvents

LEMMA DrainKeeps == WatchInv /\ Drain => WatchInv'
<1> SUFFICES ASSUME WatchInv, Drain PROVE WatchInv'
  OBVIOUS
<1>1. watcher.recover \in BOOLEAN /\ Stage
  BY DEF WatchInv, Stage
<1>2. /\ watcher'.pending = watcher.pending \cup Classified(inotify.queue)
      /\ watcher'.recover = (watcher.recover \/ Recovers(inotify.queue))
      /\ watcher' = [watcher EXCEPT !.at = watcher'.at, !.pending = watcher'.pending,
                                     !.recover = watcher'.recover]
      /\ watcher'.at = "drained"
      /\ UNCHANGED <<disk, applied>> /\ inotify' = [inotify EXCEPT !.queue = {}]
  BY <1>1 DEF Drain, Stage
<1>3. watcher'.recover \in BOOLEAN /\ (Recovering => watcher'.recover)
  BY <1>2 DEF Recovers, Recovering
<1> QED BY <1>2, <1>3, WatcherReads DEF Drain

(* The future starts, goes on or is dropped: what it has read stays with the  *)
(* watcher.                                                                   *)
LEMMA FutureKeeps == WatchInv /\ (Poll \/ DropFuture) => WatchInv'
<1> SUFFICES ASSUME WatchInv, Poll \/ DropFuture PROVE WatchInv'
  OBVIOUS
<1>1. /\ watcher' = [watcher EXCEPT !.at = watcher'.at] /\ UNCHANGED <<disk, inotify, applied>>
      /\ watcher'.at \in {"idle", "reading", "debouncing"}
      /\ watcher.at \in {"idle", "reading", "debouncing"}
      /\ watcher'.at = "reading" => watcher.pending = {} /\ ~watcher.recover
  BY DEF WatchInv, Stage, Poll, DropFuture
<1>2. /\ watcher'.targets = watcher.targets /\ watcher'.pending = watcher.pending
      /\ watcher'.recover = watcher.recover /\ watcher'.unheard = watcher.unheard
  BY <1>1 DEF WatchInv, Stage
<1>3. /\ Recovering' = Recovering /\ \A s : Pended(s)' = Pended(s)
      /\ \A f : Watching(f)' = Watching(f)
  BY <1>1, <1>2 DEF Recovering, Pended, Classified, Watching, Nearest, NearestDirectory, Exists
<1>4. Tree' /\ Stage'
  BY <1>1, <1>2 DEF WatchInv, Tree, Exists, Stage
<1>5. Watched' /\ Attended'
  BY <1>1, <1>2, <1>3 DEF WatchInv, Watched, Attended
<1> QED BY <1>4, <1>5 DEF WatchInv

(* What changed is handed to the daemon, with watches on what exists by now.  *)
LEMMA ReturnKeeps == WatchInv /\ ReturnChanged => WatchInv'
<1> SUFFICES ASSUME WatchInv, ReturnChanged PROVE WatchInv'
  OBVIOUS
<1>0. Tree /\ Stage /\ Watched /\ Attended /\ watcher.at = "drained"
  BY DEF WatchInv, ReturnChanged
<1>1. /\ UNCHANGED <<disk, applied>>
      /\ \E sources, untold : Changed(sources, untold)
  BY DEF ReturnChanged
<1>2. /\ watcher'.at = "processing" /\ watcher'.targets = watcher.targets
      /\ watcher'.pending = {} /\ watcher'.recover = FALSE
      /\ watcher' = [at |-> watcher'.at, targets |-> watcher'.targets, changed |-> watcher'.changed,
                     pending |-> watcher'.pending, recover |-> watcher'.recover,
                     attempt |-> watcher'.attempt, unheard |-> watcher'.unheard]
      /\ watcher.unheard \subseteq watcher'.unheard
  BY <1>0, <1>1 DEF Changed, Stage
<1>3. \A f \in watcher.targets : SourceOf(f) \in Sources(watcher.targets)
  BY DEF Sources
<1>4. inotify' = [watches |-> inotify'.watches, queue |-> inotify'.queue]
  BY <1>0 DEF ReturnChanged, Arm, Stage
<1>5. Tree' /\ Stage'
  BY <1>0, <1>1, <1>2, <1>4 DEF Tree, Exists, Stage
<1>6. CASE Arm(watcher.targets)
  <2>1. (\A f \in watcher.targets : Watching(f)') /\ Watched'
    BY <1>0, <1>1, <1>6, ArmWatches DEF Stage
  <2>2. ASSUME NEW f \in watcher.targets, Recovering \/ Pended(SourceOf(f))
        PROVE  SourceOf(f) \in watcher'.changed \/ SourceOf(f) \in watcher'.unheard
    <3>1. CASE watcher.recover
      BY <1>0, <1>3, <3>1 DEF ReturnChanged, Changed, Stage
    <3>2. CASE ~watcher.recover /\ NeedsRearm
      <4>1. watcher'.changed = watcher.pending /\ Untold \subseteq watcher'.unheard
        BY <1>0, <3>2 DEF ReturnChanged, Changed, Stage
      <4>2. SourceOf(f) \in watcher.pending \/ SourceOf(f) \in Untold
        BY <1>3, <2>2, <3>2 DEF Recovering, Pended, Untold
      <4> QED BY <4>1, <4>2
    <3>3. CASE ~watcher.recover /\ ~NeedsRearm
      <4>1. watcher'.changed = watcher.pending /\ inotify' = inotify
        BY <1>0, <3>3 DEF ReturnChanged, Changed, Stage
      <4>2. inotify.queue = {}
        BY <1>6, <4>1 DEF Arm
      <4> QED BY <2>2, <3>3, <4>1, <4>2 DEF Recovering, Recovers, Pended, Classified
    <3> QED BY <3>1, <3>2, <3>3
  <2>3. Attended'
    BY <1>0, <1>1, <1>2, <2>1, <2>2 DEF Attended
  <2> QED BY <1>5, <2>1, <2>3 DEF WatchInv
<1>7. CASE ~watcher.recover /\ ~NeedsRearm /\ UNCHANGED inotify
  <2>1. watcher'.changed = watcher.pending
    BY <1>0, <1>7 DEF ReturnChanged, Changed, Stage
  <2>2. Recovering' = Recovering
    BY <1>2, <1>7 DEF Recovering
  <2>3. Classified(inotify.queue)' = Classified(inotify.queue)
    BY <1>2, <1>7 DEF Classified
  <2>4. Watched'
    BY <1>0, <1>1, <1>7, <2>2 DEF Watched
  <2>5. ASSUME NEW f \in watcher.targets
        PROVE  Watching(f)' \/ Recovering'
    <3>1. PICK i \in inotify.watches : i[1] = NearestDirectory(f)
      BY <1>7 DEF NeedsRearm, WatchedDirectories
    <3>2. ~Recovering => Nearest(f) = i
      BY <1>0, <3>1 DEF Watched, Nearest
    <3> QED BY <1>1, <1>7, <2>2, <3>2 DEF Watching, Nearest, NearestDirectory, Exists
  <2>6. ASSUME NEW f \in watcher.targets, Recovering \/ Pended(SourceOf(f))
        PROVE  SourceOf(f) \in watcher'.changed \/ Recovering' \/ Pended(SourceOf(f))'
    BY <2>1, <2>2, <2>3, <2>6 DEF Pended
  <2>7. Attended'
    BY <1>0, <1>1, <1>2, <2>5, <2>6 DEF Attended
  <2> QED BY <1>5, <2>4, <2>7 DEF WatchInv
<1> QED BY <1>6, <1>7 DEF ReturnChanged

(* The daemon reads the sources that changed.                                 *)
LEMMA ProcessKeeps == WatchInv /\ ProcessChanges => WatchInv'
<1> SUFFICES ASSUME WatchInv, ProcessChanges PROVE WatchInv'
  OBVIOUS
<1>0. Tree /\ Stage /\ Watched /\ Attended /\ watcher.at = "processing"
  BY DEF WatchInv, ProcessChanges
<1>1. /\ UNCHANGED <<disk, inotify>>
      /\ watcher' = [watcher EXCEPT !.at = "retargeting", !.unheard = watcher'.unheard]
      /\ watcher'.at = "retargeting" /\ watcher'.targets = watcher.targets
      /\ watcher'.pending = watcher.pending /\ watcher'.recover = watcher.recover
  BY <1>0 DEF ProcessChanges, Stage
<1> DEFINE config == IF "Config" \in watcher.changed THEN disk.content["config"] ELSE applied["config"]
           styles == "Style" \in watcher.changed \/ config # applied["config"]
           read   == watcher.changed \cup IF styles THEN {"Style"} ELSE {}
<1>2. /\ applied' \in [File -> Nat] /\ watcher'.unheard = watcher.unheard \ read
      /\ \A f \in File : SourceOf(f) \in read => applied'[f] = disk.content[f]
      /\ \A f \in File : applied'[f] \in {applied[f], disk.content[f]}
  <2>1. watcher'.unheard = watcher.unheard \ read
    BY <1>0 DEF ProcessChanges, Stage
  <2>2. applied' = [f \in File |-> IF f = "config" THEN config
                                   ELSE IF styles THEN disk.content[f] ELSE applied[f]]
    BY DEF ProcessChanges
  <2>3. "Style" \in read <=> styles
    OBVIOUS
  <2>4. "Config" \in read <=> "Config" \in watcher.changed
    OBVIOUS
  <2>5. disk.content \in [File -> Nat] /\ applied \in [File -> Nat]
    BY <1>0 DEF Tree, Stage
  <2> QED BY <2>1, <2>2, <2>3, <2>4, <2>5 DEF File, SourceOf
<1> HIDE DEF config, styles
<1>3. /\ Recovering' = Recovering /\ \A s : Pended(s)' = Pended(s)
      /\ \A f : Watching(f)' = Watching(f)
  BY <1>1 DEF Recovering, Pended, Classified, Watching, Nearest, NearestDirectory, Exists
<1>4. Tree' /\ Stage'
  BY <1>0, <1>1, <1>2 DEF Tree, Exists, Stage
<1>5. Watched'
  BY <1>0, <1>1, <1>3 DEF Watched
<1>6. Attended'
  <2> SUFFICES ASSUME NEW f \in watcher.targets
               PROVE  /\ Watching(f) \/ Recovering \/ Pended(SourceOf(f))
                      /\ \/ applied'[f] = disk.content[f] \/ Recovering \/ Pended(SourceOf(f))
                         \/ SourceOf(f) \in watcher'.unheard
    BY <1>1, <1>3 DEF Attended
  <2>1. f \in File
    BY <1>0 DEF Stage
  <2> QED BY <1>0, <1>2, <2>1 DEF Attended
<1> QED BY <1>4, <1>5, <1>6 DEF WatchInv

(* Other targets are armed and read again, all of them.                       *)
LEMMA SetTargetsKeeps == WatchInv /\ SetTargets => WatchInv'
<1> SUFFICES ASSUME WatchInv, SetTargets PROVE WatchInv'
  OBVIOUS
<1>0. Tree /\ Stage /\ Watched /\ Attended /\ watcher.at = "retargeting"
      /\ UNCHANGED <<disk, applied>>
  BY DEF WatchInv, SetTargets
<1> DEFINE targets == Targets(applied["config"])
<1>1. {"config", "css"} \subseteq targets /\ targets \subseteq File
  BY DEF Targets, File
<1>2. CASE targets = watcher.targets
  <2>1. /\ watcher' = [watcher EXCEPT !.at = "idle", !.changed = {}] /\ UNCHANGED inotify
        /\ watcher'.at = "idle" /\ watcher'.targets = watcher.targets
        /\ watcher'.pending = watcher.pending /\ watcher'.recover = watcher.recover
        /\ watcher'.unheard = watcher.unheard
    BY <1>0, <1>2 DEF SetTargets, Stage
  <2>2. /\ Recovering' = Recovering /\ \A s : Pended(s)' = Pended(s)
        /\ \A f : Watching(f)' = Watching(f)
    BY <1>0, <2>1 DEF Recovering, Pended, Classified, Watching, Nearest, NearestDirectory, Exists
  <2>3. Tree' /\ Stage'
    BY <1>0, <2>1 DEF Tree, Exists, Stage
  <2>4. Watched' /\ Attended'
    BY <1>0, <2>1, <2>2 DEF Watched, Attended
  <2> QED BY <2>3, <2>4 DEF WatchInv
<1>3. CASE targets # watcher.targets
  <2>1. /\ Arm(targets)
        /\ watcher' = [watcher EXCEPT !.targets = targets, !.changed = Sources(targets),
                                       !.at = watcher'.at, !.attempt = watcher'.attempt]
        /\ watcher'.at \in {"failed", "processing"} /\ watcher'.targets = targets
        /\ watcher'.changed = Sources(targets)
        /\ watcher'.pending = watcher.pending /\ watcher'.recover = watcher.recover
    BY <1>0, <1>3 DEF SetTargets, Stage
  <2> HIDE DEF targets
  <2>2. /\ inotify' = [watches |-> inotify'.watches, queue |-> {}]
        /\ \A f \in targets : Watching(f)'
        /\ Watched'
    BY <1>0, <1>1, <2>1, ArmWatches
  <2>3. Tree' /\ Stage'
    BY <1>0, <1>1, <2>1, <2>2 DEF Tree, Exists, Stage
  <2>4. \A f \in targets : SourceOf(f) \in watcher'.changed
    BY <2>1 DEF Sources
  <2>5. Attended'
    BY <2>1, <2>2, <2>4 DEF Attended
  <2> QED BY <2>2, <2>3, <2>5 DEF WatchInv
<1> QED BY <1>2, <1>3

-----------------------------------------------------------------------------
(* The behaviours of the watcher.                                             *)

LEMMA InitWatch == WatchInit => WatchInv
<1> SUFFICES ASSUME WatchInit PROVE WatchInv
  OBVIOUS
<1> DEFINE targets == Targets(0)
<1>1. targets = {"config", "css"}
  BY DEF Targets, Overlay
<1>2. \A p \in Directory : disk.inode[p] \in {0, 1}
  BY DEF WatchInit, Trees
<1>3. Tree
  BY DEF WatchInit, Trees, Tree, Exists, File, Directory
<1>4. Stage
  BY <1>1 DEF WatchInit, Stage, File
<1> DEFINE watches == {<<d, 1>> : d \in WatchedDirectories(targets)}
<1>5. inotify.watches = watches
  BY DEF WatchInit
<1>6. \A f \in targets : NearestDirectory(f) \in Directory /\ disk.inode[NearestDirectory(f)] = 1
  BY <1>1, <1>2, <1>3, NearestIs DEF File, Exists
<1>7. Watched
  <2>1. \A d \in WatchedDirectories(targets) : d \in Directory /\ disk.inode[d] = 1
    BY <1>6 DEF WatchedDirectories
  <2>2. "style" \in WatchedDirectories(targets) => "conf" \in WatchedDirectories(targets)
    <3> SUFFICES ASSUME "style" \in WatchedDirectories(targets)
                 PROVE  NearestDirectory("config") = "conf"
      BY <1>1 DEF WatchedDirectories
    <3>1. Exists("conf")
      BY <1>3, <2>1 DEF Tree, Exists
    <3> QED BY <3>1, Paths DEF NearestDirectory
  <2>3. \A d \in WatchedDirectories(targets) : <<d, 1>> \in watches
    OBVIOUS
  <2>4. \A i \in watches : i = <<i[1], i[2]>> /\ i[2] = 1 /\ i[1] \in WatchedDirectories(targets)
    OBVIOUS
  <2> HIDE DEF watches, targets
  <2>5. (\E i \in watches : i[1] = "style") => \E i \in watches : i[1] = "conf"
    BY <2>2, <2>3, <2>4
  <2> QED BY <1>5, <2>1, <2>4, <2>5 DEF Watched
<1>8. Attended
  <2>1. watcher.targets = targets /\ watcher.at = "processing" /\ watcher.changed = Sources(targets)
    BY DEF WatchInit
  <2>2. \A f \in targets : Watching(f)
    BY <1>5, <1>6 DEF Watching, Nearest, WatchedDirectories
  <2> QED BY <2>1, <2>2 DEF Attended, Sources
<1> QED BY <1>3, <1>4, <1>7, <1>8 DEF WatchInv

LEMMA StepWatch == WatchInv /\ [WatchNext]_watchVars => WatchInv'
<1> SUFFICES ASSUME WatchInv, [WatchNext]_watchVars PROVE WatchInv'
  OBVIOUS
<1>1. ASSUME NEW f \in File, WriteFile(f) \/ DeleteFile(f)
      PROVE  WatchInv'
  <2>1. UNCHANGED <<watcher, applied>> /\ Notifies({Event(Parent[f], f, FALSE)})
    BY <1>1 DEF WriteFile, DeleteFile
  <2>2. Tree
    BY DEF WatchInv
  <2>3. CASE WriteFile(f)
    <3>1. disk.last[f] + 1 \in Nat
      BY <2>2 DEF Tree
    <3>2. /\ disk'.inode = disk.inode /\ \A g \in File \ {f} : disk'.content[g] = disk.content[g]
          /\ Exists(Parent[f])
          /\ disk' \in [content: [File -> Nat], last: [File -> Nat], inode: [Directory -> Nat],
                         moves: Nat]
      BY <2>2, <2>3, <3>1 DEF WriteFile, Tree
    <3> QED BY <2>1, <2>2, <3>2, FileKeeps DEF Tree, Exists
  <2>4. CASE DeleteFile(f)
    <3>1. /\ disk'.inode = disk.inode /\ \A g \in File \ {f} : disk'.content[g] = disk.content[g]
          /\ disk' \in [content: [File -> Nat], last: [File -> Nat], inode: [Directory -> Nat],
                         moves: Nat]
      BY <2>2, <2>4 DEF DeleteFile, Tree
    <3> QED BY <2>1, <2>2, <2>4, <3>1, FileKeeps DEF Tree, Exists, DeleteFile
  <2> QED BY <1>1, <2>3, <2>4
<1>2. ASSUME NEW d \in Directory, MakeDirectory(d) \/ RemoveDirectory(d)
      PROVE  WatchInv'
  BY <1>2, MakeKeeps, RemoveKeeps
<1>3. CASE UNCHANGED watchVars
  <2>1. UNCHANGED <<disk, inotify, watcher, applied>>
    BY <1>3 DEF watchVars
  <2>2. Tree' /\ Stage'
    BY <2>1 DEF WatchInv, Tree, Exists, Stage
  <2>3. Watched' /\ Attended'
    BY <2>1 DEF WatchInv, Watched, Attended, Recovering, Pended, Classified, Watching, Nearest,
                NearestDirectory, Exists
  <2> QED BY <2>2, <2>3 DEF WatchInv
<1> QED BY <1>1, <1>2, <1>3, FutureKeeps, ReadEventsKeeps, DrainKeeps, ReturnKeeps, ProcessKeeps,
          SetTargetsKeeps DEF WatchNext, Follow, World

(* When nothing is left to read and nothing pending, the daemon has applied   *)
(* what its files contain, but for the sources a mere move of the watches     *)
(* closed away: whatever was made, moved, removed or overflowed, and wherever *)
(* the future of the watcher was dropped.                                     *)
THEOREM ChangesAreNoticed == WatchSpec => []NothingMissed
<1>1. WatchInv => NothingMissed
  BY DEF WatchInv, Attended, NothingMissed, Quiet, Recovering, Recovers, Pended, Classified
<1> QED BY <1>1, InitWatch, StepWatch, PTL DEF WatchSpec

-----------------------------------------------------------------------------
(* An alert is told for its reason, and no episode is missed, for any alerts, *)
(* thresholds, switches and clock.                                            *)

Latches == [active: BOOLEAN, since: Int]

(* What an untripped latch knows is what the readings amount to: a sustained  *)
(* one has held since they were over, and whatever it told was cleared.  An   *)
(* active one may have seen readings that dipped.                             *)
Remembered ==
  /\ time \in Nat /\ rules \in RuleSet
  /\ latch \in [Sustained -> Latches] /\ tripped \in [Edge -> BOOLEAN]
  /\ past.over \in [Sustained -> Int]
  /\ \A a \in Sustained :
       ~latch[a].active => latch[a].since = past.over[a] /\ past.armed[a]
  /\ \A e \in Edge : ~tripped[e] => past.armed[e]

(* Only a pass over readings moves the latches and the history.               *)
Rest ==
  /\ UNCHANGED <<latch, tripped>>
  /\ time' \in Nat /\ rules' \in RuleSet
  /\ past'.over = past.over /\ past'.armed = past.armed
  /\ past'.told = {} /\ past'.heard = {}

(* The rules of a configuration are numbers, and the hysteresis is not        *)
(* negative.                                                                  *)
LEMMA RulesAreNumbers ==
  ASSUME Remembered
  PROVE  rules.trip \in Int /\ rules.cool \in Nat /\ rules.hold \in Int
BY NotifyAssumption DEF Remembered

LEMMA Fresh ==
  ASSUME NEW x \in Int, NEW b \in BOOLEAN, NEW l, l = [active |-> b, since |-> x]
  PROVE  l \in Latches /\ (l.active <=> b) /\ l.since = x
BY DEF Latches

(* A reading under the trip point restarts the hold.                          *)
LEMMA Restarted ==
  ASSUME NEW l \in Latches, ~l.active
  PROVE  [l EXCEPT !.since = Never] = Calm
<1> DEFINE r == [l EXCEPT !.since = Never]
<1>1. r \in Latches /\ r.active = l.active /\ r.since = Never
  BY DEF Latches, Never
<1> HIDE DEF r
<1>2. PICK b \in BOOLEAN, x \in Int : r = [active |-> b, since |-> x]
  BY <1>1 DEF Latches
<1>3. r = [active |-> FALSE, since |-> Never]
  BY <1>1, <1>2
<1> QED BY <1>3 DEF r, Calm

(* A pass, alert by alert: a sustained one.                                   *)
LEMMA SustainedPass ==
  ASSUME Remembered, NEW sample \in [Alert -> Level \cup {Absent}],
         CheckAndNotify(sample), NEW a \in Sustained
  PROVE  /\ latch'[a] \in Latches
         /\ past'.over[a] \in Int
         /\ ~latch'[a].active => latch'[a].since = past'.over[a] /\ past'.armed[a]
         /\ a \in past'.told =>
              past.armed[a] /\ past'.over[a] # Never /\ time - past'.over[a] >= rules.hold
         /\ a \in past'.heard /\ past'.over[a] # Never /\ time - past'.over[a] >= rules.hold
              => latch'[a].active
<1> DEFINE v == sample[a]
           l == latch[a]
           o == past.over[a]
           h == Heard(sample, a)
<1>1. /\ a \in Alert /\ a \notin Edge
      /\ l \in Latches /\ l.active \in BOOLEAN /\ l.since \in Int /\ o \in Int
      /\ time \in Nat /\ Never = -1
      /\ ~l.active => l.since = o /\ past.armed[a]
  BY NotifyAssumption DEF Remembered, Latches, Alert, Never
<1>2. /\ latch'[a] = IF h THEN Advance(l, v) ELSE l
      /\ past'.over[a] = IF ~h THEN o ELSE IF v < rules.trip THEN Never
                         ELSE IF o = Never THEN time ELSE o
      /\ a \in past'.told <=> ~l.active /\ latch'[a].active
      /\ past'.armed[a] <=> a \notin past'.told /\ (past.armed[a] \/ (h /\ v < Clear))
      /\ a \in past'.heard <=> h
  BY <1>1 DEF CheckAndNotify, Record, Told, NextLatch
<1>3. v \in Int
  <2>1. sample[a] \in Level \cup {Absent}
    BY <1>1
  <2>2. Level \subseteq Int
    BY NotifyAssumption
  <2>3. Absent \in Int
    BY DEF Absent
  <2>4. sample[a] \in Int
    BY <2>1, <2>2, <2>3, Zenon
  <2> QED BY <2>4
<1>4. rules.trip \in Int /\ rules.cool \in Nat /\ rules.hold \in Int
  BY RulesAreNumbers
<1>5. Clear \in Int /\ (v \in Int /\ v < Clear => v < rules.trip)
  BY <1>4 DEF Clear
<1> HIDE DEF v, l, o, h
<1>6. CASE ~h
  BY <1>1, <1>2, <1>6
<1>7. CASE h /\ l.active /\ v < Clear
  <2>1. Advance(l, v) = Calm
    BY <1>7 DEF Advance
  <2> QED BY <1>1, <1>2, <1>3, <1>5, <1>7, <2>1 DEF Calm, Latches, Never
<1>8. CASE h /\ l.active /\ ~(v < Clear)
  <2>1. Advance(l, v) = l
    BY <1>8 DEF Advance
  <2> QED BY <1>1, <1>2, <1>8, <2>1
<1>9. CASE h /\ ~l.active /\ v < rules.trip
  <2>1. Advance(l, v) = Calm
    BY <1>1, <1>9, Restarted DEF Advance
  <2>2. latch'[a] \in Latches /\ ~latch'[a].active /\ latch'[a].since = Never
    BY <1>2, <1>9, <2>1 DEF Calm, Latches, Never
  <2> QED BY <1>1, <1>2, <1>9, <2>2
<1>10. CASE h /\ ~l.active /\ ~(v < rules.trip)
  <2> DEFINE since == IF o = Never THEN time ELSE o
  <2>1. Advance(l, v) = [active |-> time - since >= rules.hold, since |-> since]
    BY <1>1, <1>10 DEF Advance
  <2>2. since \in Int /\ since # Never
    BY <1>1
  <2>3. past'.over[a] = since
    BY <1>2, <1>10
  <2> HIDE DEF since
  <2>4. /\ latch'[a] \in Latches /\ latch'[a].since = since
        /\ latch'[a].active <=> time - since >= rules.hold
    <3> DEFINE b == time - since >= rules.hold
    <3>1. b \in BOOLEAN
      OBVIOUS
    <3>2. latch'[a] = [active |-> b, since |-> since]
      BY <1>2, <1>10, <2>1
    <3> HIDE DEF b
    <3>3. /\ latch'[a] \in Latches /\ latch'[a].since = since
          /\ latch'[a].active <=> b
      BY <2>2, <3>1, <3>2, Fresh
    <3> QED BY <3>3 DEF b
  <2> QED BY <1>1, <1>2, <1>10, <2>2, <2>3, <2>4
<1> QED BY <1>6, <1>7, <1>8, <1>9, <1>10

(* And one on the first reading over.                                         *)
LEMMA EdgePass ==
  ASSUME Remembered, NEW sample \in [Alert -> Level \cup {Absent}],
         CheckAndNotify(sample), NEW e \in Edge
  PROVE  /\ tripped'[e] \in BOOLEAN
         /\ ~tripped'[e] => past'.armed[e]
         /\ e \in past'.told => past.armed[e]
<1>1. e \in Alert /\ e \notin Sustained /\ tripped[e] \in BOOLEAN
      /\ (~tripped[e] => past.armed[e])
  BY NotifyAssumption DEF Remembered, Alert
<1>2. /\ tripped'[e] = IF Heard(sample, e) THEN Over(e, sample[e]) ELSE tripped[e]
      /\ e \in past'.told <=> ~tripped[e] /\ tripped'[e]
      /\ past'.armed[e] <=> /\ e \notin past'.told
                            /\ past.armed[e] \/ (Heard(sample, e) /\ ~Over(e, sample[e]))
  BY <1>1 DEF CheckAndNotify, Record, Told, NextTripped
<1>3. Over(e, sample[e]) \in BOOLEAN
  <2>1. CASE e \in Low
    BY <2>1 DEF Over
  <2>2. CASE e \notin Low
    BY <2>2 DEF Over
  <2> QED BY <2>1, <2>2
<1> QED BY <1>1, <1>2, <1>3

LEMMA PassKeeps ==
  ASSUME Remembered, NEW sample \in [Alert -> Level \cup {Absent}], CheckAndNotify(sample)
  PROVE  Remembered' /\ HeldAndCleared /\ NoneMissed
<1>1. past'.told \subseteq Sustained \cup Edge
  BY DEF CheckAndNotify, Record, Told
<1>2. Remembered'
  <2>1. latch' \in [Sustained -> Latches]
    BY SustainedPass DEF CheckAndNotify, NextLatch
  <2>2. tripped' \in [Edge -> BOOLEAN]
    BY EdgePass DEF CheckAndNotify, NextTripped
  <2>3. past'.over \in [Sustained -> Int]
    BY SustainedPass DEF CheckAndNotify, Record
  <2>4. time' \in Nat /\ rules' \in RuleSet
    BY DEF CheckAndNotify, Remembered
  <2> QED BY <2>1, <2>2, <2>3, <2>4, SustainedPass, EdgePass DEF Remembered
<1>3. HeldAndCleared
  BY <1>1, SustainedPass, EdgePass, NotifyAssumption DEF HeldAndCleared
<1>4. NoneMissed
  BY SustainedPass DEF NoneMissed
<1> QED BY <1>2, <1>3, <1>4

LEMMA RestKeeps ==
  ASSUME Remembered, Rest
  PROVE  Remembered' /\ HeldAndCleared /\ NoneMissed
BY DEF Remembered, Rest, HeldAndCleared, NoneMissed

LEMMA InitNotify == NotifyInit => Remembered
BY DEF NotifyInit, Remembered, Latches, Calm, Never, Alert

LEMMA StepNotify ==
  ASSUME Remembered, NotifyNext
  PROVE  Remembered' /\ HeldAndCleared /\ NoneMissed
<1>1. ASSUME TakePayload \/ Delivered \/ PassTime \/ \E r \in RuleSet : ReplaceRules(r)
      PROVE  Rest
  <2>1. /\ Silent /\ UNCHANGED <<latch, tripped>>
        /\ time' \in Nat /\ rules' \in RuleSet
    BY <1>1 DEF Remembered, TakePayload, Delivered, PassTime, ReplaceRules
  <2>2. past'.over = past.over /\ past'.armed = past.armed
        /\ past'.told = {} /\ past'.heard = {}
    BY <2>1 DEF Silent
  <2> QED BY <2>1, <2>2 DEF Rest
<1> QED BY <1>1, PassKeeps, RestKeeps DEF NotifyNext

(* A sustained alert is told when every reading of its hold time was over and *)
(* none before a reading cleared the last, an edge alert once per edge; and a *)
(* reading that has been over for the hold time leaves its alert told.        *)
THEOREM AlertsHaveReasons == NotifySpec => AlertsAreRight
<1>1. Remembered /\ [NotifyNext]_notifyVars => Remembered'
  <2>1. ASSUME Remembered, UNCHANGED notifyVars
        PROVE  Remembered'
    BY <2>1 DEF Remembered, notifyVars
  <2> QED BY <2>1, StepNotify
<1>2. Remembered /\ [NotifyNext]_notifyVars => [HeldAndCleared /\ NoneMissed]_notifyVars
  BY StepNotify
<1> QED BY <1>1, <1>2, InitNotify, PTL DEF NotifySpec, AlertsAreRight
-----------------------------------------------------------------------------
(* The end of the shell finds no process of a command's group, however many   *)
(* callers, commands and ticks.  What is dropped is not killed, so a command  *)
(* must have been killed before: a tick of the shutdown passes only when each *)
(* task waits for a process outside the group of its command.                 *)

Commands ==
  [phase : {"none", "starting", "running", "draining", "killed"}, age : Nat, alive : SUBSET Process]

(* Commands that, when none is run, run nothing of their group.               *)
Groupless == {k \in Commands : k.phase \in {"none", "starting", "killed"} => k.alive \subseteq {"escapee"}}

(* The tasks have been polled since the services were told to stop.           *)
Polled == shell.elapsed # 0 \/ shell.phase \in {"finishing", "ended"}

(* The queue holds callers that wait, each once and with no command.          *)
Queueing ==
  /\ requests \in Seq(Caller)
  /\ \A i \in DOMAIN requests :
       /\ call[requests[i]] = "waiting" /\ command[requests[i]].phase = "none"
       /\ \A j \in DOMAIN requests : requests[i] = requests[j] => i = j
  /\ call \in [Caller -> {"idle", "sending", "waiting", "answered"}]
  /\ \A c \in Caller : call[c] \in {"idle", "sending"} => command[c].phase = "none"

(* Only in the shutdown does its clock run, the service that has ended has no *)
(* command, and the tasks that were polled have killed their groups.          *)
EndInv ==
  /\ command \in [Caller -> Groupless]
  /\ shell.phase \in {"serving", "joining", "failing", "finishing", "ended"}
  /\ shell.elapsed \in Nat
  /\ shell = [stopped |-> shell.stopped, external |-> shell.external, service |-> shell.service,
              phase |-> shell.phase, elapsed |-> shell.elapsed, timedOut |-> shell.timedOut,
              orchestrated |-> shell.orchestrated]
  /\ shell.phase = "serving" => shell.elapsed = 0
  /\ shell.phase # "serving" => shell.service = TRUE
  /\ serving = "ended" => Active = {}
  /\ Polled => serving # "serving" /\ \A c \in Caller : command[c].phase \in {"none", "killed"}

(* There is no command at the start.                                          *)
LEMMA InitEnd == CommandInit => EndInv
BY DEF CommandInit, EndInv, Commands, Groupless, Polled, Idle, Active

(* Nobody is queued at the start.                                             *)
LEMMA InitQueue == CommandInit => Queueing
<1> SUFFICES ASSUME CommandInit PROVE Queueing
  OBVIOUS
<1>1. requests \in Seq(Caller) /\ DOMAIN requests = {}
  BY DEF CommandInit
<1> QED BY <1>1 DEF CommandInit, Queueing, Idle

(* One command changes, for the better or before the shutdown.                *)
LEMMA CommandChanges ==
  ASSUME EndInv, NEW c \in Caller, NEW k \in Groupless, command' = [command EXCEPT ![c] = k],
         UNCHANGED <<serving, shell>>,
         k.phase \in {"none", "killed"} \/ ~Polled,
         k.phase = "none" \/ serving # "ended"
  PROVE  EndInv'
<1>1. /\ command' \in [Caller -> Groupless] /\ command'[c] = k
      /\ \A d \in Caller \ {c} : command'[d] = command[d]
  BY DEF EndInv
<1>2. Polled' <=> Polled
  BY DEF Polled
<1>3. serving' = "ended" => Active' = {}
  BY <1>1 DEF EndInv, Active
<1>4. Polled' => serving' # "serving" /\ \A d \in Caller : command'[d].phase \in {"none", "killed"}
  BY <1>1, <1>2 DEF EndInv
<1> QED BY <1>1, <1>3, <1>4 DEF EndInv

(* What a task of a command does, and its processes.                          *)
LEMMA TaskEnds ==
  ASSUME EndInv, NEW c \in Caller,
         \/ Spawn(c) \/ WaitForChild(c) \/ WaitForDrains(c) \/ Drained(c)
         \/ \E p \in Process : Fork(c, p) \/ Exit(c, p)
  PROVE  EndInv'
<1> DEFINE k == command[c]
<1>1. /\ k \in Groupless /\ k \in Commands /\ UNCHANGED <<serving, shell>>
      /\ k = [phase |-> k.phase, age |-> k.age, alive |-> k.alive]
  BY DEF EndInv, Groupless, Commands, Spawn, WaitForChild, WaitForDrains, Drained, Fork, Exit
<1>2. serving = "ended" => k.phase = "none"
  BY DEF EndInv, Active
<1>3. Polled => k.phase \in {"none", "killed"}
  BY DEF EndInv
<1>4. ASSUME NEW l \in Groupless, command' = [command EXCEPT ![c] = l],
             l.phase \in {"none", "killed"} \/ ~Polled, l.phase = "none" \/ serving # "ended"
      PROVE  EndInv'
  BY <1>1, <1>4, CommandChanges
<1>5. CASE Spawn(c)
  <2> DEFINE l == [phase |-> "running", age |-> 0, alive |-> {"child"}]
             m == [Idle EXCEPT !.alive = k.alive]
  <2>1. k.phase = "starting" /\ (command' = [command EXCEPT ![c] = l] \/ command' = [command EXCEPT ![c] = m])
    BY <1>5 DEF Spawn, EndTask
  <2>2. l \in Groupless /\ l.phase = "running"
    BY DEF Groupless, Commands, Process
  <2>3. m \in Groupless /\ m.phase = "none"
    BY <1>1, <2>1 DEF Groupless, Commands, Idle
  <2> HIDE DEF l, m
  <2> QED BY <1>2, <1>3, <1>4, <2>1, <2>2, <2>3
<1> DEFINE dead == [k EXCEPT !.phase = "killed", !.alive = KillGroup(k.alive)]
<1>6. dead \in Groupless /\ dead.phase = "killed"
  BY <1>1 DEF Groupless, Commands, KillGroup, Process
<1>7. Kill(c) => command' = [command EXCEPT ![c] = dead]
  BY DEF Kill
<1> HIDE DEF dead
<1>8. CASE WaitForChild(c)
  <2> DEFINE l == [k EXCEPT !.phase = "draining"]
  <2>1. k.phase = "running" /\ (command' = [command EXCEPT ![c] = l] \/ Kill(c))
    BY <1>8 DEF WaitForChild
  <2>2. l \in Groupless /\ l.phase = "draining"
    BY <1>1 DEF Groupless, Commands
  <2> HIDE DEF l
  <2> QED BY <1>2, <1>3, <1>4, <1>6, <1>7, <2>1, <2>2
<1>9. CASE WaitForDrains(c) \/ Drained(c)
  <2> DEFINE m == [Idle EXCEPT !.alive = k.alive]
  <2>1. /\ k.phase \in {"draining", "killed"}
        /\ (k.alive = {} /\ command' = [command EXCEPT ![c] = m]) \/ (k.phase = "draining" /\ Kill(c))
    BY <1>9 DEF WaitForDrains, Drained, EndTask
  <2>2. k.alive = {} => m \in Groupless /\ m.phase = "none"
    BY <1>1 DEF Groupless, Commands, Idle
  <2> HIDE DEF m
  <2> QED BY <1>2, <1>3, <1>4, <1>6, <1>7, <2>1, <2>2
<1>10. ASSUME NEW p \in Process, Fork(c, p)
       PROVE  EndInv'
  <2> DEFINE l == [k EXCEPT !.alive = k.alive \cup {p}]
  <2>1. k.phase = "running" /\ command' = [command EXCEPT ![c] = l]
    BY <1>10 DEF Fork
  <2>2. l \in Groupless /\ l.phase = "running"
    BY <1>1, <2>1 DEF Groupless, Commands
  <2> HIDE DEF l
  <2> QED BY <1>2, <1>3, <1>4, <2>1, <2>2
<1>11. ASSUME NEW p \in Process, Exit(c, p)
       PROVE  EndInv'
  <2> DEFINE l == [k EXCEPT !.alive = k.alive \ {p}]
  <2>1. command' = [command EXCEPT ![c] = l]
    BY <1>11 DEF Exit
  <2>2. l \in Groupless /\ l.phase = k.phase
    BY <1>1 DEF Groupless, Commands
  <2> HIDE DEF l
  <2> QED BY <1>2, <1>3, <1>4, <2>1, <2>2
<1> QED BY <1>5, <1>8, <1>9, <1>10, <1>11

(* The service takes a request, stops and ends.                               *)
LEMMA ServingEnds ==
  ASSUME EndInv, Queueing, AcceptRequest \/ StopServing \/ ServeEnds
  PROVE  EndInv'
<1>1. CASE AcceptRequest
  <2> DEFINE c == Head(requests)
             k == [command[c] EXCEPT !.phase = "starting"]
  <2>1. serving = "serving" /\ UNCHANGED <<serving, shell>> /\ command' = [command EXCEPT ![c] = k]
    BY <1>1 DEF AcceptRequest
  <2>2. ~Polled
    BY <2>1 DEF EndInv
  <2>3. c \in Caller /\ command[c].phase = "none"
    <3>1. requests # <<>> /\ requests \in Seq(Caller)
      BY <1>1 DEF AcceptRequest, Queueing
    <3>2. c = requests[1] /\ 1 \in DOMAIN requests /\ requests[1] \in Caller
      BY <3>1
    <3> QED BY <3>2 DEF Queueing
  <2>4. k \in Groupless
    <3>1. command[c] \in Groupless
      BY <2>3 DEF EndInv
    <3> QED BY <2>3, <3>1 DEF Groupless, Commands
  <2> HIDE DEF c, k
  <2> QED BY <2>1, <2>2, <2>3, <2>4, CommandChanges
<1>2. CASE StopServing
  <2>1. /\ serving = "serving" /\ serving' = "joining" /\ UNCHANGED shell
        /\ command' = [c \in Caller |->
             IF c \in Active THEN [command[c] EXCEPT !.alive = KillGroup(@)] ELSE command[c]]
    BY <1>2 DEF StopServing
  <2>2. ~Polled /\ (Polled' <=> Polled)
    BY <2>1 DEF EndInv, Polled
  <2>3. \A k \in Groupless : [k EXCEPT !.alive = KillGroup(@)] \in Groupless
    BY DEF Groupless, Commands, KillGroup
  <2>4. command' \in [Caller -> Groupless]
    BY <2>1, <2>3 DEF EndInv
  <2> QED BY <2>1, <2>2, <2>4 DEF EndInv
<1>3. CASE ServeEnds
  <2>1. serving = "joining" /\ Active = {} /\ serving' = "ended" /\ UNCHANGED <<command, shell>>
    BY <1>3 DEF ServeEnds
  <2>2. Active' = {} /\ (Polled' <=> Polled)
    BY <2>1 DEF Active, Polled
  <2> QED BY <2>1, <2>2 DEF EndInv
<1> QED BY <1>1, <1>2, <1>3

(* The services are dropped only when their tasks have been polled.           *)
LEMMA DropEnds ==
  ASSUME EndInv, Polled, DropServices
  PROVE  /\ command' \in [Caller -> Groupless] /\ serving' = "ended" /\ Active' = {}
         /\ \A c \in Caller : command'[c].phase = "none"
<1> DEFINE gone == [c \in Caller |-> [Idle EXCEPT !.alive = command[c].alive]]
<1>1. command' = gone /\ serving' = "ended"
  BY DEF DropServices
<1>2. ASSUME NEW c \in Caller
      PROVE  gone[c] \in Groupless /\ gone[c].phase = "none"
  <2>1. command[c] \in Commands /\ command[c].alive \subseteq {"escapee"}
    BY DEF EndInv, Groupless
  <2> QED BY <2>1 DEF Groupless, Commands, Idle
<1> HIDE DEF gone
<1>3. DOMAIN gone = Caller /\ gone = [c \in Caller |-> gone[c]]
  BY DEF gone
<1> QED BY <1>1, <1>2, <1>3 DEF Active

(* The phases of the shell thread.                                            *)
LEMMA ShellEndsWell ==
  ASSUME EndInv,
         \/ RequestStop \/ ShellStops \/ ServiceFails \/ AbortServices \/ ServicesJoined
         \/ OrchestrationEnds \/ ShellEnds
  PROVE  EndInv'
<1>0. JOIN_BUDGET \in Nat \ {0} /\ SHELL_SHUTDOWN_BUDGET \in Nat /\ SHELL_SHUTDOWN_BUDGET >= JOIN_BUDGET
  BY CommandAssumption
<1>1. CASE RequestStop \/ ShellStops \/ ServiceFails \/ OrchestrationEnds
  <2>1. UNCHANGED <<command, serving>> /\ (Polled' <=> Polled)
    BY <1>1 DEF RequestStop, ShellStops, ServiceFails, OrchestrationEnds, EndInv, Polled
  <2>2. Active' = Active
    BY <2>1 DEF Active
  <2> QED BY <1>1, <2>1, <2>2 DEF RequestStop, ShellStops, ServiceFails, OrchestrationEnds, EndInv
<1>2. CASE AbortServices \/ ShellEnds
  <2>1. Polled /\ DropServices
    BY <1>0, <1>2 DEF AbortServices, ShellEnds, Polled, EndInv
  <2>2. /\ command' \in [Caller -> Groupless] /\ serving' = "ended" /\ Active' = {}
        /\ \A c \in Caller : command'[c].phase = "none"
    BY <2>1, DropEnds
  <2>3. /\ shell'.phase \in {"finishing", "ended"} /\ shell'.elapsed = shell.elapsed
        /\ shell'.service = shell.service /\ shell.phase # "serving"
        /\ shell' = [stopped |-> shell'.stopped, external |-> shell'.external,
                     service |-> shell'.service, phase |-> shell'.phase, elapsed |-> shell'.elapsed,
                     timedOut |-> shell'.timedOut, orchestrated |-> shell'.orchestrated]
    BY <1>2 DEF AbortServices, ShellEnds, EndInv
  <2> QED BY <2>2, <2>3 DEF EndInv
<1>3. CASE ServicesJoined
  <2>1. /\ serving # "serving" /\ \A c \in Caller : command[c].phase \in {"none", "killed"}
    BY <1>0, <1>3 DEF ServicesJoined, EndInv, Polled, Active
  <2>2. UNCHANGED <<command, serving>>
    BY <1>3 DEF ServicesJoined
  <2>3. Active' = Active
    BY <2>2 DEF Active
  <2>4. /\ shell'.phase = "finishing" /\ shell'.elapsed = shell.elapsed
        /\ shell'.service = shell.service /\ shell.phase # "serving"
        /\ shell' = [stopped |-> shell'.stopped, external |-> shell'.external,
                     service |-> shell'.service, phase |-> shell'.phase, elapsed |-> shell'.elapsed,
                     timedOut |-> shell'.timedOut, orchestrated |-> shell'.orchestrated]
    BY <1>3 DEF ServicesJoined, EndInv
  <2> QED BY <2>1, <2>2, <2>3, <2>4 DEF EndInv
<1> QED BY <1>1, <1>2, <1>3

(* Time passes only when every task waits: while the shell ends that is for a *)
(* process outside the group of a killed command.                             *)
LEMMA TickEnds == ASSUME EndInv, Tick PROVE EndInv'
<1>1. /\ ~Runnable /\ serving' = serving
      /\ command' = [c \in Caller |-> Older(c)]
      /\ shell' = IF Ending /\ shell.elapsed < SHELL_SHUTDOWN_BUDGET
                  THEN [shell EXCEPT !.elapsed = @ + 1] ELSE shell
  BY DEF Tick
<1>2. ASSUME NEW c \in Caller
      PROVE  Older(c) \in Groupless /\ Older(c).phase = command[c].phase
  <2>1. command[c] \in Groupless /\ command[c] \in Commands
    BY DEF EndInv, Groupless
  <2> QED BY <2>1 DEF Older, Groupless, Commands
<1>3. /\ command' \in [Caller -> Groupless]
      /\ \A c \in Caller : command'[c].phase = command[c].phase
  BY <1>1, <1>2
<1>4. Active' = Active
  BY <1>3 DEF Active
<1>5. ASSUME shell.phase # "serving"
      PROVE  serving # "serving" /\ \A c \in Caller : command[c].phase \in {"none", "killed"}
  <2>1. shell.service = TRUE
    BY <1>5 DEF EndInv
  <2>2. serving # "serving"
    BY <1>1, <2>1 DEF Runnable
  <2>3. \A c \in Caller : command[c].phase \in {"none", "starting", "running", "draining", "killed"}
    BY DEF EndInv, Groupless, Commands
  <2>4. \A c \in Caller : ~Ready(c)
    BY <1>1 DEF Runnable
  <2> QED BY <2>1, <2>2, <2>3, <2>4 DEF Ready, OutOfTime
<1>6. /\ shell'.phase = shell.phase /\ shell'.service = shell.service /\ shell'.elapsed \in Nat
      /\ shell.phase = "serving" => shell' = shell
      /\ shell' = [stopped |-> shell'.stopped, external |-> shell'.external,
                   service |-> shell'.service, phase |-> shell'.phase, elapsed |-> shell'.elapsed,
                   timedOut |-> shell'.timedOut, orchestrated |-> shell'.orchestrated]
  BY <1>1 DEF EndInv, Ending
<1>7. Polled' => shell.phase # "serving"
  BY <1>6 DEF EndInv, Polled
<1> QED BY <1>1, <1>3, <1>4, <1>5, <1>6, <1>7 DEF EndInv

(* Callers that are queued are left alone.                                    *)
LEMMA QueueStays ==
  ASSUME Queueing, requests' = requests,
         call' \in [Caller -> {"idle", "sending", "waiting", "answered"}],
         \A c \in Caller : call[c] = "waiting" /\ command[c].phase = "none"
                            => call'[c] = "waiting" /\ command'[c].phase = "none",
         \A c \in Caller : call'[c] \in {"idle", "sending"} => command'[c].phase = "none"
  PROVE  Queueing'
<1>1. \A i \in DOMAIN requests : requests[i] \in Caller
  BY DEF Queueing
<1> QED BY <1>1 DEF Queueing

(* The queue is dropped.                                                      *)
LEMMA QueueEmpties ==
  ASSUME requests' = <<>>,
         call' \in [Caller -> {"idle", "sending", "waiting", "answered"}],
         \A c \in Caller : call'[c] \in {"idle", "sending"} => command'[c].phase = "none"
  PROVE  Queueing'
<1>1. requests' \in Seq(Caller) /\ DOMAIN requests' = {}
  OBVIOUS
<1> QED BY <1>1 DEF Queueing

(* The queue is a queue.                                                      *)
LEMMA CallsQueue ==
  ASSUME EndInv, Queueing, [CommandNext]_commandVars
  PROVE  Queueing'
<1> DEFINE Phase(c) == command[c].phase
           n == Len(requests)
<1>0. /\ call \in [Caller -> {"idle", "sending", "waiting", "answered"}]
      /\ \A c \in Caller : call[c] \in {"idle", "sending"} => Phase(c) = "none"
      /\ command = [c \in Caller |-> command[c]]
      /\ \A c \in Caller :
           command[c] = [phase |-> Phase(c), age |-> command[c].age, alive |-> command[c].alive]
  BY DEF Queueing, EndInv, Groupless, Commands
<1>1. requests \in Seq(Caller) /\ n \in Nat /\ DOMAIN requests = 1..n
  BY DEF Queueing
<1>2. ASSUME UNCHANGED command, requests' = requests,
             NEW c \in Caller, call[c] \in {"idle", "sending"}, NEW v \in {"sending", "answered"},
             call' = [call EXCEPT ![c] = v], v = "sending" => call[c] = "idle"
      PROVE  Queueing'
  BY <1>0, <1>2, QueueStays
<1>3. ASSUME NEW c \in Caller, StartCall(c) \/ SendFails(c) PROVE Queueing'
  BY <1>2, <1>3 DEF StartCall, SendFails
<1>4. ASSUME NEW c \in Caller, SendRequest(c) PROVE Queueing'
  <2>1. /\ call[c] = "sending" /\ requests' = Append(requests, c) /\ UNCHANGED command
        /\ call' = [call EXCEPT ![c] = "waiting"]
    BY <1>4 DEF SendRequest
  <2>2. /\ requests' \in Seq(Caller) /\ DOMAIN requests' = 1..(n + 1) /\ requests'[n + 1] = c
        /\ \A i \in 1..n : requests'[i] = requests[i]
    BY <1>1, <2>1
  <2> HIDE DEF n
  <2>3. \A i \in 1..n : requests[i] # c
    BY <1>1, <2>1 DEF Queueing
  <2>4. \A i \in 1..(n + 1) : i \in 1..n \/ i = n + 1
    BY <1>1
  <2>5. n + 1 \in Nat /\ DOMAIN requests' = 1..(n + 1) /\ DOMAIN requests = 1..n
    BY <1>1, <2>2
  <2>6. \A i \in DOMAIN requests' :
          /\ call'[requests'[i]] = "waiting" /\ command'[requests'[i]].phase = "none"
          /\ \A j \in DOMAIN requests' : requests'[i] = requests'[j] => i = j
    <3>1. \A i \in 1..n : /\ requests[i] \in Caller \ {c} /\ call[requests[i]] = "waiting"
                          /\ Phase(requests[i]) = "none"
                          /\ \A j \in 1..n : requests[i] = requests[j] => i = j
      BY <1>1, <2>3 DEF Queueing
    <3>2. call'[c] = "waiting" /\ Phase(c) = "none" /\ \A d \in Caller \ {c} : call'[d] = call[d]
      BY <1>0, <2>1
    <3>3. \A i \in DOMAIN requests' : i = n + 1 \/ (i \in 1..n /\ requests'[i] = requests[i])
      BY <2>2, <2>4
    <3> HIDE DEF Phase
    <3>4. \A i \in DOMAIN requests' : call'[requests'[i]] = "waiting" /\ Phase(requests'[i]) = "none"
      BY <2>2, <3>1, <3>2, <3>3
    <3>5. \A i, j \in DOMAIN requests' : requests'[i] = requests'[j] => i = j
      BY <2>2, <2>3, <3>1, <3>3
    <3> QED BY <2>1, <3>4, <3>5 DEF Phase
  <2> QED BY <1>0, <2>1, <2>2, <2>5, <2>6 DEF Queueing
<1>5. ASSUME NEW c \in Caller,
             \/ Spawn(c) \/ WaitForChild(c) \/ WaitForDrains(c) \/ Drained(c)
             \/ \E p \in Process : Fork(c, p) \/ Exit(c, p)
      PROVE  Queueing'
  <2>1. requests' = requests
    BY <1>5 DEF Spawn, WaitForChild, WaitForDrains, Drained, Fork, Exit
  <2>2. PICK k : /\ command' = [command EXCEPT ![c] = k]
                 /\ \/ Phase(c) # "none" /\ call' = [call EXCEPT ![c] = "answered"] /\ k.phase = "none"
                    \/ Phase(c) # "none" /\ call' = call
                    \/ Phase(c) = k.phase /\ call' = call
    <3>0. Kill(c) => (\E k : command' = [command EXCEPT ![c] = k]) /\ call' = call
      BY DEF Kill
    <3>5. EndTask(c) => \E k : /\ command' = [command EXCEPT ![c] = k] /\ k.phase = "none"
                              /\ call' = [call EXCEPT ![c] = "answered"]
      <4> DEFINE m == [Idle EXCEPT !.alive = command[c].alive]
      <4>1. m.phase = "none"
        BY DEF Idle
      <4>2. EndTask(c) => command' = [command EXCEPT ![c] = m] /\ call' = [call EXCEPT ![c] = "answered"]
        BY DEF EndTask, Answer
      <4> HIDE DEF m
      <4> QED BY <4>1, <4>2
    <3>1. CASE Spawn(c)
      <4>1. EndTask(c) \/ (call' = call /\ \E k : command' = [command EXCEPT ![c] = k])
        BY <3>1 DEF Spawn
      <4> QED BY <3>1, <3>5, <4>1 DEF Spawn
    <3>3. CASE WaitForChild(c)
      <4>1. CASE "child" \notin command[c].alive
        <5>1. command' = [command EXCEPT ![c] = [command[c] EXCEPT !.phase = "draining"]] /\ call' = call
          BY <3>3, <4>1 DEF WaitForChild
        <5> QED BY <3>3, <5>1 DEF WaitForChild
      <4> QED BY <3>0, <3>3, <4>1 DEF WaitForChild
    <3>4. CASE WaitForDrains(c) \/ Drained(c)
      <4>1. (EndTask(c) \/ Kill(c)) /\ Phase(c) # "none"
        BY <3>4 DEF WaitForDrains, Drained
      <4> QED BY <3>0, <3>5, <4>1
    <3>2. ASSUME NEW p \in Process, Fork(c, p) \/ Exit(c, p)
          PROVE  \E alive : /\ command' = [command EXCEPT ![c] = [command[c] EXCEPT !.alive = alive]]
                           /\ call' = call
      BY <3>2 DEF Fork, Exit
    <3> QED BY <1>0, <1>5, <3>1, <3>2, <3>3, <3>4
  <2>3. command'[c] = k /\ \A d \in Caller \ {c} : command'[d] = command[d]
    BY <1>0, <2>2
  <2> QED BY <1>0, <2>1, <2>2, <2>3, QueueStays
<1>6. CASE AcceptRequest
  <2> DEFINE c == Head(requests)
             k == [command[c] EXCEPT !.phase = "starting"]
  <2>1. /\ requests # <<>> /\ requests' = Tail(requests) /\ UNCHANGED call
        /\ command' = [command EXCEPT ![c] = k]
    BY <1>6 DEF AcceptRequest
  <2>2. /\ n \in Nat \ {0} /\ DOMAIN requests = 1..n
        /\ requests' \in Seq(Caller) /\ DOMAIN requests' = 1..(n - 1)
        /\ c = requests[1] /\ 1 \in 1..n
        /\ \A i \in 1..(n - 1) : i + 1 \in 1..n /\ requests'[i] = requests[i + 1]
    BY <1>1, <2>1
  <2>3. c \in Caller /\ call[c] = "waiting" /\ \A i \in 1..(n - 1) : requests'[i] # c
    BY <1>1, <2>2 DEF Queueing
  <2>4. \A d \in Caller \ {c} : command'[d] = command[d]
    BY <1>0, <2>1
  <2>5. n - 1 \in Nat /\ DOMAIN requests' = 1..(n - 1)
    BY <2>2
  <2> HIDE DEF c
  <2>6. \A i \in DOMAIN requests' :
          /\ call[requests'[i]] = "waiting" /\ command'[requests'[i]].phase = "none"
          /\ \A j \in DOMAIN requests' : requests'[i] = requests'[j] => i = j
    <3> HIDE DEF n
    <3>1. \A i \in 1..n : /\ requests[i] \in Caller /\ call[requests[i]] = "waiting"
                          /\ Phase(requests[i]) = "none"
                          /\ \A j \in 1..n : requests[i] = requests[j] => i = j
      BY <1>1 DEF Queueing
    <3>2. \A i \in 1..(n - 1) :
             /\ requests'[i] \in Caller \ {c} /\ requests'[i] = requests[i + 1] /\ i + 1 \in 1..n
      BY <2>2, <2>3, <3>1
    <3> HIDE DEF Phase
    <3>3. \A i \in 1..(n - 1) : call[requests'[i]] = "waiting" /\ Phase(requests'[i]) = "none"
      BY <3>1, <3>2
    <3>4. \A i, j \in 1..(n - 1) : requests'[i] = requests'[j] => i = j
      <4> SUFFICES ASSUME NEW i \in 1..(n - 1), NEW j \in 1..(n - 1), requests'[i] = requests'[j]
                   PROVE  i = j
        OBVIOUS
      <4>1. i + 1 = j + 1
        BY <3>1, <3>2
      <4> QED BY <2>2, <4>1
    <3> QED BY <2>4, <2>5, <3>2, <3>3, <3>4 DEF Phase
  <2>7. \A d \in Caller : call[d] \in {"idle", "sending"} => command'[d].phase = "none"
    BY <1>0, <2>3, <2>4
  <2> QED BY <1>0, <2>1, <2>2, <2>5, <2>6, <2>7 DEF Queueing
<1>7. CASE StopServing
  <2>1. /\ requests' = <<>> /\ call' = [c \in Caller |-> IF Queued(c) THEN "answered" ELSE call[c]]
        /\ command' = [c \in Caller |->
             IF c \in Active THEN [command[c] EXCEPT !.alive = KillGroup(@)] ELSE command[c]]
    BY <1>7 DEF StopServing
  <2>2. \A c \in Caller : command'[c].phase = Phase(c)
    BY <1>0, <2>1
  <2> QED BY <1>0, <2>1, <2>2, QueueEmpties
<1>8. CASE AbortServices \/ ShellEnds
  <2>1. DropServices
    BY <1>8 DEF AbortServices, ShellEnds
  <2>2. /\ requests' = <<>> /\ call' = [c \in Caller |-> IF call[c] = "waiting" THEN "answered" ELSE call[c]]
        /\ \A c \in Caller : command'[c].phase = "none"
    BY <2>1 DEF DropServices, Idle
  <2> QED BY <1>0, <2>2, QueueEmpties
<1>9. CASE Tick
  <2>1. /\ UNCHANGED <<call, requests>> /\ command' = [c \in Caller |-> Older(c)]
    BY <1>9 DEF Tick
  <2>2. \A c \in Caller : command'[c].phase = Phase(c)
    BY <1>0, <2>1 DEF Older
  <2> QED BY <1>0, <2>1, <2>2, QueueStays
<1>10. CASE UNCHANGED <<call, requests, command>>
  BY <1>10 DEF Queueing
<1>11. ServeEnds \/ RequestStop \/ ShellStops \/ ServiceFails \/ ServicesJoined \/ OrchestrationEnds
         \/ UNCHANGED commandVars
       => UNCHANGED <<call, requests, command>>
  BY DEF ServeEnds, RequestStop, ShellStops, ServiceFails, ServicesJoined, OrchestrationEnds, commandVars
<1> HIDE DEF Phase
<1> QED BY <1>3, <1>4, <1>5, <1>6, <1>7, <1>8, <1>9, <1>10, <1>11 DEF CommandNext, Runtime, Outside

(* Each step of the service.                                                  *)
LEMMA StepEnds ==
  ASSUME EndInv, Queueing, [CommandNext]_commandVars
  PROVE  EndInv'
<1>1. CASE UNCHANGED <<command, serving, shell>>
  BY <1>1 DEF EndInv, Active, Polled
<1>2. (\E c \in Caller : SendRequest(c) \/ SendFails(c) \/ StartCall(c)) \/ UNCHANGED commandVars
        => UNCHANGED <<command, serving, shell>>
  BY DEF SendRequest, SendFails, StartCall, commandVars
<1>3. CASE Runtime
  BY <1>1, <1>2, <1>3, TaskEnds, ServingEnds, ShellEndsWell DEF Runtime
<1>4. CASE Outside
  BY <1>1, <1>2, <1>4, TaskEnds, ShellEndsWell DEF Outside
<1>5. CASE Tick
  BY <1>5, TickEnds
<1> QED BY <1>1, <1>2, <1>3, <1>4, <1>5 DEF CommandNext

(* The daemon leaves no process of a command's group behind, for any number   *)
(* of callers and commands, whatever they fork and whenever it is stopped     *)
(* (execute, serve and start_inner's shutdown budgets).                       *)
THEOREM NothingIsOrphaned == CommandSpec => []NoOrphans
<1>1. CommandInit => EndInv /\ Queueing
  BY InitEnd, InitQueue
<1>2. (EndInv /\ Queueing) /\ [CommandNext]_commandVars => (EndInv /\ Queueing)'
  BY StepEnds, CallsQueue
<1>3. EndInv => NoOrphans
  BY DEF EndInv, NoOrphans, Polled, Groupless
<1> QED BY <1>1, <1>2, <1>3, PTL DEF CommandSpec
=============================================================================
