------------------------------- MODULE BoltQuery -------------------------------
(* A battery query through a Logitech Bolt receiver (sensors/hid.rs): up to    *)
(* four requests over a file that also carries what the receiver's other       *)
(* devices and the device's other features report, and the answers the device  *)
(* gives to other programs.  A report is the device it is of, the index of the *)
(* feature it answers for, and what it carries: an index, a level, or whose    *)
(* name it is.                                                                  *)
EXTENDS Integers, Sequences

CONSTANTS
  Device, Asked,  \* the indices of the receiver's devices, and the one asked
  Features,       \* the index of the name and of the battery, 0 when missing
  Level,          \* the charges a battery can have
  MAX_READS,
  MaxReports, MaxQueries     \* bounds of the reports of others and of the queries

ASSUME BoltAssumption ==
  /\ Asked \in Device
  /\ Features \subseteq [name : Nat, battery : Nat]
  /\ \A f \in Features : f.name # 0 => f.name # f.battery   \* an index is of one feature
  /\ MAX_READS \in Nat \ {0}
  /\ {MaxReports, MaxQueries} \subseteq Nat

VARIABLES
  boltDevice,   \* [features, level] of the device that is asked
  boltQuery,    \* [phase, want, index, name, reads] of query_device
  boltFile,     \* the reports the open file holds, oldest first
  boltAsked,    \* the reply the device still owes, or none
  boltAnswer,   \* what the last query returned
  boltSeen,     \* the charges the battery had since the file was opened
  boltMixed,    \* another program asked the device for an index meanwhile
  boltLeft      \* [reports, queries] still to come

boltVars == <<boltDevice, boltQuery, boltFile, boltAsked, boltAnswer, boltSeen,
              boltMixed, boltLeft>>

ROOT_FEATURE == 0
NoName == 0
Closed == [phase |-> "closed", want |-> FALSE, index |-> 0, name |-> NoName, reads |-> 0]

BoltInit ==
  /\ boltDevice \in [features : Features, level : Level]
  /\ boltQuery = Closed
  /\ boltFile = <<>>
  /\ boltAsked = <<>>
  /\ boltAnswer = [kind |-> "none"]
  /\ boltSeen = {}
  /\ boltMixed = FALSE
  /\ boltLeft = [reports |-> MaxReports, queries |-> MaxQueries]

Report(device, feature, payload) ==
  [device |-> device, feature |-> feature, payload |-> payload]

------------------------------------------------------------------------------
(* The query.  A request is written, then reports are read until one matches.  *)

(* The feature whose reply the request of a phase waits for.                   *)
ExpectedFeature(query) ==
  IF query.phase \in {"name_index", "battery_index"} THEN ROOT_FEATURE ELSE query.index

(* What the device answers to the request of a phase.                          *)
ReplyTo(query) ==
  LET payload == CASE query.phase = "name_index" -> boltDevice.features.name
                   [] query.phase = "battery_index" -> boltDevice.features.battery
                   [] query.phase = "name" -> Asked
                   [] query.phase = "level" -> boltDevice.level
  IN  Report(Asked, ExpectedFeature(query), payload)

Unanswered == [kind |-> "none"]

Transfer(query) ==
  /\ boltQuery' = [query EXCEPT !.reads = MAX_READS]
  /\ boltAsked' = <<ReplyTo(query)>>
  /\ boltAnswer' = Unanswered

BoltReturns(answer) ==
  /\ boltQuery' = Closed
  /\ boltAsked' = <<>>
  /\ boltAnswer' = answer

HidFailed == [kind |-> "failed"]

(* The receiver may not be there, or its file not open.                        *)
QueryInner(want, opened) ==
  /\ boltQuery.phase = "closed"
  /\ boltLeft.queries > 0
  /\ boltLeft' = [boltLeft EXCEPT !.queries = @ - 1]
  /\ boltFile' = <<>>
  /\ boltSeen' = {boltDevice.level}
  /\ boltMixed' = FALSE
  /\ IF opened
     THEN Transfer([Closed EXCEPT !.phase = IF want THEN "name_index" ELSE "battery_index",
                                  !.want = want])
     ELSE BoltReturns(HidFailed)
  /\ UNCHANGED boltDevice

(* Fault: the reports of every device of the receiver match.                   *)
AnyDeviceMatches(report, query) == report.feature = ExpectedFeature(query)

Matches(report, query) ==
  report.device = Asked /\ report.feature = ExpectedFeature(query)

(* A feature of index 0 is not there: the name is empty, the battery absent.   *)
QueryDevice(query, payload) ==
  CASE query.phase = "name_index" ->
         Transfer([query EXCEPT !.phase = IF payload = 0 THEN "battery_index" ELSE "name",
                                !.index = payload])
    [] query.phase = "name" ->
         Transfer([query EXCEPT !.phase = "battery_index", !.name = payload])
    [] query.phase = "battery_index" ->
         IF payload = 0 THEN BoltReturns([kind |-> "unsupported"])
         ELSE Transfer([query EXCEPT !.phase = "level", !.index = payload])
    [] query.phase = "level" ->
         BoltReturns([kind |-> "captured", name |-> query.name, level |-> payload])

ReadReport ==
  /\ boltQuery.phase # "closed"
  /\ boltFile # <<>>
  /\ boltFile' = Tail(boltFile)
  /\ LET report == Head(boltFile)
     IN  IF Matches(report, boltQuery) THEN QueryDevice(boltQuery, report.payload)
         ELSE IF boltQuery.reads > 1
         THEN boltQuery' = [boltQuery EXCEPT !.reads = @ - 1] /\ UNCHANGED <<boltAsked, boltAnswer>>
         ELSE BoltReturns(HidFailed)
  /\ UNCHANGED <<boltDevice, boltSeen, boltMixed, boltLeft>>

(* A second without a report, or an error of a read or a write.                *)
ReadFails ==
  /\ boltQuery.phase # "closed"
  /\ boltFile = <<>>
  /\ BoltReturns(HidFailed)
  /\ UNCHANGED <<boltDevice, boltFile, boltSeen, boltMixed, boltLeft>>

------------------------------------------------------------------------------
(* The devices.                                                                *)

DeviceReplies ==
  /\ boltAsked # <<>>
  /\ boltFile' = Append(boltFile, boltAsked[1])
  /\ boltAsked' = <<>>
  /\ UNCHANGED <<boltDevice, boltQuery, boltAnswer, boltSeen, boltMixed, boltLeft>>

(* Reports nobody here asked for: events of the devices, and their answers to  *)
(* other programs, of which those of the battery carry its level.              *)
OthersReport(device, feature, payload) ==
  /\ boltQuery.phase # "closed"
  /\ boltLeft.reports > 0
  /\ boltLeft' = [boltLeft EXCEPT !.reports = @ - 1]
  /\ device = Asked /\ feature # ROOT_FEATURE =>
       IF feature = boltDevice.features.battery THEN payload = boltDevice.level
       ELSE feature # boltDevice.features.name
  /\ boltFile' = Append(boltFile, Report(device, feature, payload))
  /\ boltMixed' = (boltMixed \/ (device = Asked /\ feature = ROOT_FEATURE))
  /\ UNCHANGED <<boltDevice, boltQuery, boltAsked, boltAnswer, boltSeen>>

BatteryDrains(level) ==
  /\ boltQuery.phase # "closed"
  /\ level < boltDevice.level
  /\ boltDevice' = [boltDevice EXCEPT !.level = level]
  /\ boltSeen' = boltSeen \cup {level}
  /\ UNCHANGED <<boltQuery, boltFile, boltAsked, boltAnswer, boltMixed, boltLeft>>

FeatureIndex == {ROOT_FEATURE} \cup {f.name : f \in Features} \cup {f.battery : f \in Features}

BoltNext ==
  \/ \E want, opened \in BOOLEAN : QueryInner(want, opened)
  \/ ReadReport
  \/ ReadFails
  \/ DeviceReplies
  \/ \E device \in Device, feature \in FeatureIndex, payload \in Level \cup {0} :
       OthersReport(device, feature, payload)
  \/ \E level \in Level : BatteryDrains(level)

BoltSpec == BoltInit /\ [][BoltNext]_boltVars

------------------------------------------------------------------------------
(* A charge the query returns is one its own battery had since the file was    *)
(* opened, its name is the device's, and a battery is called unsupported only  *)
(* when the device has none, whatever the receiver's other devices and the     *)
(* device's other features report in between, provided no other program asks   *)
(* this device for a feature's index at that time (the requests' software id   *)
(* is not looked at in the replies).                                           *)
BoltAnswersHold ==
  ~boltMixed =>
    /\ boltAnswer.kind = "captured" =>
         /\ boltDevice.features.battery # 0
         /\ boltAnswer.level \in boltSeen
         /\ boltAnswer.name \in {NoName, Asked}
    /\ boltAnswer.kind = "unsupported" => boltDevice.features.battery = 0
=============================================================================
