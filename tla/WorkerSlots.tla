----------------------------- MODULE WorkerSlots -----------------------------
(* What the scheduler promises the sensor workers.  Each owner has one slot.  *)
(* A run takes the slot of its owner when that is free, may be cancelled, and *)
(* leaves the slot when its worker answers: no other way.  Cancelling is no   *)
(* answer, so a cancelled run keeps its slot, and it is never revived.  A     *)
(* transition hears at most one answer, may cancel any number of runs, and    *)
(* starts new runs in free slots, each under a number never used before.      *)
EXTENDS Naturals

CONSTANT OwnerId

VARIABLES slot,   \* the run of each owner, and whether it was cancelled
          fresh   \* no run has this number or a higher one

Free == [run |-> 0, cancelled |-> FALSE]

SlotsInit == slot = [o \in OwnerId |-> Free] /\ fresh = 1

(* The owners of which the present run is, respectively, gone and replaced.   *)
Left == {o \in OwnerId : slot[o] # Free /\ slot'[o].run # slot[o].run}

Taken == {o \in OwnerId : slot'[o] # Free /\ slot'[o].run # slot[o].run}

Transition ==
  /\ \A o, p \in Left : o = p
  /\ \A o \in OwnerId \ (Left \cup Taken) : slot'[o] \in {slot[o], [slot[o] EXCEPT !.cancelled = slot[o] # Free]}
  /\ \A o \in Taken : slot'[o].run \in fresh..(fresh' - 1) /\ ~slot'[o].cancelled
  /\ \A o, p \in Taken : slot'[o].run = slot'[p].run => o = p
  /\ fresh' \in Nat /\ fresh' >= fresh

SlotsSpec == SlotsInit /\ [][Transition]_<<slot, fresh>>
=============================================================================
