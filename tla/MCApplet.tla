------------------------------- MODULE MCApplet -------------------------------
(* The applet protocol in scenarios that each leave something out, so that    *)
(* what is left may interleave freely: a user of one widget over a crash, of  *)
(* two widgets, and pages and panels around them.  In each of them the        *)
(* daemon's own connection may be lost once.                                  *)
EXTENDS Applet

CONSTANTS w1, w2

Scenario(used, intents, steps, crashes, panels) ==
  [widgets |-> used, intents |-> intents, steps |-> steps, crashes |-> crashes, panels |-> panels]

Outside ==
  {Scenario({w1}, 3, 0, 1, 0), Scenario({w1}, 0, 1, 1, 1), Scenario({w1}, 1, 1, 0, 1),
   Scenario({w1, w2}, 3, 0, 0, 0), Scenario({w1, w2}, 1, 0, 1, 0)}

(* Enough for the daemon to come back while a widget is used.                 *)
Hover == {Scenario({w1}, 2, 0, 0, 0)}
=============================================================================
