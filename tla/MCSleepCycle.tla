---- MODULE MCSleepCycle ----
(* A small instance of the sleep cycle for TLC.                               *)
EXTENDS SleepCycle
====
