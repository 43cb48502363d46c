------------------------------ MODULE FileWatch ------------------------------
(* How the daemon follows its files: the inotify watcher (file_watch.rs), a   *)
(* future that the main loop drops whenever something else happens, and the   *)
(* reaction to a change, which may move the watches again                     *)
(* (daemon/async_loop/files.rs).                                              *)
(*                                                                            *)
(* The user's configuration directory, its style directory and the files in   *)
(* them come and go at any time, each operation atomic.                       *)
EXTENDS Integers, FiniteSets

CONSTANTS
  WATCH_STABILIZATION_LIMIT,
  MAX_QUEUED_EVENTS,      \* of the kernel; reached, it reports an overflow
  MaxVersion,             \* bound: versions of each file
  MaxMoves                \* bound: directories made or moved

ASSUME FileWatchAssumption ==
  /\ WATCH_STABILIZATION_LIMIT \in Nat
  /\ MAX_QUEUED_EVENTS \in Nat \ {0}
  /\ MaxVersion \in [{"config", "css", "overlay"} -> Nat] /\ MaxMoves \in Nat

VARIABLES
  disk,       \* contents of the files, inodes of the directories
  inotify,    \* the descriptor: watched inodes and queued events
  watcher,    \* FileWatcher, where its future stands, and the history of what it closed away
  applied     \* what the daemon has read

watchVars == <<disk, inotify, watcher, applied>>

-----------------------------------------------------------------------------
(* Paths: home/conf/config and home/conf/style/{css, overlay}.                *)

Directory == {"home", "conf", "style"}
File == {"config", "css", "overlay"}

Parent == [config |-> "conf", css |-> "style", overlay |-> "style",
           style |-> "conf", conf |-> "home", home |-> "home"]

Above(p) == {p, Parent[p], Parent[Parent[p]], "home"}

(* paths_related *)
Related(p, q) == p \in Above(q) \/ q \in Above(p)

Exists(d) == disk.inode[d] # 0

(* watch_directories: where a change of the file would show first.            *)
NearestDirectory(f) ==
  IF Exists(Parent[f]) THEN Parent[f]
  ELSE IF Exists(Parent[Parent[f]]) THEN Parent[Parent[f]] ELSE "home"

(* The overlay style is a target of every other version of the configuration. *)
Overlay(version) == version % 2 = 1

Targets(version) == {"config", "css"} \cup IF Overlay(version) THEN {"overlay"} ELSE {}

SourceOf(f) == IF f = "config" THEN "Config" ELSE "Style"

Sources(targets) == {SourceOf(f) : f \in targets}

WatchedDirectories(targets) == {NearestDirectory(f) : f \in targets}

-----------------------------------------------------------------------------
(* The kernel.  An event names the directory's inode, the entry it is about   *)
(* (the directory itself for an event of its own), and whether it is one of   *)
(* the recovery masks.  The classification of a batch is a union: a set of    *)
(* events will do.                                                            *)

Overflow == [inode |-> <<"home", 0>>, entry |-> "home", recovery |-> TRUE]

Event(d, entry, recovery) == [inode |-> <<d, disk.inode[d]>>, entry |-> entry, recovery |-> recovery]

Enqueued(events) ==
  LET heard == {e \in events : e.inode \in inotify.watches}
  IN  IF Cardinality(inotify.queue \cup heard) <= MAX_QUEUED_EVENTS
      THEN inotify.queue \cup heard
      ELSE inotify.queue \cup {Overflow}

Notifies(events) == inotify' = [inotify EXCEPT !.queue = Enqueued(events)]

WriteFile(f) ==
  /\ Exists(Parent[f]) /\ disk.last[f] < MaxVersion[f]
  /\ disk' = [disk EXCEPT !.content[f] = disk.last[f] + 1, !.last[f] = @ + 1]
  /\ Notifies({Event(Parent[f], f, FALSE)})
  /\ UNCHANGED <<watcher, applied>>

DeleteFile(f) ==
  /\ disk.content[f] # 0
  /\ disk' = [disk EXCEPT !.content[f] = 0]
  /\ Notifies({Event(Parent[f], f, FALSE)})
  /\ UNCHANGED <<watcher, applied>>

Move == disk.moves < MaxMoves

MakeDirectory(d) ==
  /\ Move
  /\ ~Exists(d) /\ Exists(Parent[d])
  /\ disk' = [disk EXCEPT !.inode[d] = disk.moves + 1, !.moves = @ + 1]
  /\ Notifies({Event(Parent[d], d, FALSE)})
  /\ UNCHANGED <<watcher, applied>>

(* The directory and all in it are moved away or removed.                     *)
RemoveDirectory(d) ==
  LET gone == {p \in Directory \cup File : d \in Above(p)}
  IN  /\ Move
      /\ d # "home" /\ Exists(d)
      /\ disk' = [disk EXCEPT
                    !.content = [f \in File |-> IF f \in gone THEN 0 ELSE @[f]],
                    !.inode = [p \in Directory |-> IF p \in gone THEN 0 ELSE @[p]],
                    !.moves = @ + 1]
      /\ Notifies({Event(Parent[d], d, FALSE), Event(d, d, TRUE)})
      /\ UNCHANGED <<watcher, applied>>

-----------------------------------------------------------------------------
(* FileWatcher                                                                *)

(* The sources a batch of events is about.                                    *)
Classified(events) ==
  {s \in Sources(watcher.targets) :
     \E e \in events, f \in watcher.targets :
       /\ e.inode \in inotify.watches
       /\ SourceOf(f) = s /\ Related(e.entry, f)}

Recovers(events) == \E e \in events : e.recovery

(* FileWatcher::new: a new descriptor, nothing pending.                       *)
Arm(targets) ==
  inotify' = [watches |-> {<<d, disk.inode[d]>> : d \in WatchedDirectories(targets)}, queue |-> {}]

(* changed: with something pending the future goes on where it was dropped.   *)
Poll ==
  /\ watcher.at = "idle"
  /\ watcher' = [watcher EXCEPT !.at = IF watcher.pending = {} /\ ~watcher.recover
                                       THEN "reading" ELSE "debouncing"]
  /\ UNCHANGED <<disk, inotify, applied>>

ReadEvents ==
  /\ watcher.at = "reading" /\ inotify.queue # {}
  /\ LET changed == Classified(inotify.queue)
         recover == Recovers(inotify.queue)
     IN  watcher' = [watcher EXCEPT
                       !.pending = changed, !.recover = recover,
                       !.at = IF changed # {} \/ recover THEN "debouncing" ELSE @]
  /\ inotify' = [inotify EXCEPT !.queue = {}]
  /\ UNCHANGED <<disk, applied>>

(* Fault: what was read belongs to the future.                                *)
DropFutureAndEvents ==
  /\ watcher.at \in {"reading", "debouncing"}
  /\ watcher' = [watcher EXCEPT !.at = "idle", !.pending = {}, !.recover = FALSE]
  /\ UNCHANGED <<disk, inotify, applied>>

(* Another branch of the main loop's select! was ready.                       *)
DropFuture ==
  /\ watcher.at \in {"reading", "debouncing"}
  /\ watcher' = [watcher EXCEPT !.at = "idle"]
  /\ UNCHANGED <<disk, inotify, applied>>

(* The debounce is over: the rest of the queue is read.                       *)
Drain ==
  /\ watcher.at = "debouncing"
  /\ watcher' = [watcher EXCEPT
                   !.pending = @ \cup Classified(inotify.queue),
                   !.recover = @ \/ Recovers(inotify.queue),
                   !.at = "drained"]
  /\ inotify' = [inotify EXCEPT !.queue = {}]
  /\ UNCHANGED <<disk, applied>>

(* What the events of a descriptor that is closed would have told.            *)
Untold == Classified(inotify.queue) \cup IF Recovers(inotify.queue) THEN Sources(watcher.targets) ELSE {}

NeedsRearm == {i[1] : i \in inotify.watches} # WatchedDirectories(watcher.targets)

(* sources are to be read, untold is closed away.                             *)
Changed(sources, untold) ==
  watcher' = [watcher EXCEPT !.at = "processing", !.changed = sources, !.unheard = @ \cup untold,
                             !.pending = {}, !.recover = FALSE, !.attempt = 0]

(* After a recovery every source is rescanned; after a mere move of the       *)
(* watches only what the events named: what happened between the last read    *)
(* and the move is not heard of.                                              *)
ReturnChanged ==
  /\ watcher.at = "drained"
  /\ IF watcher.recover
     THEN Arm(watcher.targets) /\ Changed(Sources(watcher.targets), {})
     ELSE IF NeedsRearm
     THEN Arm(watcher.targets) /\ Changed(watcher.pending, Untold)
     ELSE Changed(watcher.pending, {}) /\ UNCHANGED inotify
  /\ UNCHANGED <<disk, applied>>

-----------------------------------------------------------------------------
(* process_and_stabilize                                                      *)

(* A configuration that changed also looks at the styles it selects.          *)
ProcessChanges ==
  /\ watcher.at = "processing"
  /\ LET config == IF "Config" \in watcher.changed THEN disk.content["config"] ELSE applied["config"]
         styles == "Style" \in watcher.changed \/ config # applied["config"]
     IN  /\ applied' = [f \in File |->
                          IF f = "config" THEN config
                          ELSE IF styles THEN disk.content[f] ELSE applied[f]]
         /\ watcher' = [watcher EXCEPT !.at = "retargeting",
                          !.unheard = @ \ (watcher.changed \cup IF styles THEN {"Style"} ELSE {})]
  /\ UNCHANGED <<disk, inotify>>

(* set_targets: other targets are armed and all of them rescanned, up to the  *)
(* limit; at the limit the daemon ends with an error.                         *)
SetTargets ==
  /\ watcher.at = "retargeting"
  /\ LET targets == Targets(applied["config"])
     IN  IF targets = watcher.targets
         THEN watcher' = [watcher EXCEPT !.at = "idle", !.changed = {}] /\ UNCHANGED inotify
         ELSE /\ Arm(targets)
              /\ watcher' = [watcher EXCEPT
                               !.targets = targets,
                               !.changed = Sources(targets),
                               !.at = IF watcher.attempt = WATCH_STABILIZATION_LIMIT
                                      THEN "failed" ELSE "processing",
                               !.attempt = @ + 1]
  /\ UNCHANGED <<disk, applied>>

(* The directories there may be, each in one that exists.                     *)
Trees ==
  {inode \in [Directory -> {0, 1}] : inode["home"] = 1 /\ (inode["style"] = 1 => inode["conf"] = 1)}

(* The watches of the first configuration are armed before all is read again. *)
WatchInit ==
  /\ \E inode \in Trees :
       disk = [content |-> [f \in File |-> 0], last |-> [f \in File |-> 0],
               inode |-> inode, moves |-> 1]
  /\ applied = [f \in File |-> 0]
  /\ inotify = [watches |-> {<<d, 1>> : d \in WatchedDirectories(Targets(0))}, queue |-> {}]
  /\ watcher = [at |-> "processing", targets |-> Targets(0), changed |-> Sources(Targets(0)),
                pending |-> {}, recover |-> FALSE, attempt |-> 0, unheard |-> {}]

Follow == Poll \/ ReadEvents \/ Drain \/ ReturnChanged \/ ProcessChanges \/ SetTargets

World ==
  \/ \E f \in File : WriteFile(f) \/ DeleteFile(f)
  \/ \E d \in Directory : MakeDirectory(d) \/ RemoveDirectory(d)

WatchNext == Follow \/ DropFuture \/ World

WatchSpec == WatchInit /\ [][WatchNext]_watchVars

-----------------------------------------------------------------------------
(* The watcher has nothing to read and nothing pending.                       *)
Quiet ==
  /\ watcher.at \in {"idle", "reading"} /\ inotify.queue = {}
  /\ watcher.pending = {} /\ ~watcher.recover

(* Nothing is missed but what a mere move of the watches closes away: when    *)
(* the watcher is quiet, the daemon has applied what the files of every other *)
(* source contain, however the directories came and went and whenever the     *)
(* future was dropped (changed of file_watch.rs, its needs_rearm branch).     *)
NothingMissed ==
  Quiet => \A f \in watcher.targets :
             applied[f] = disk.content[f] \/ SourceOf(f) \in watcher.unheard
=============================================================================
