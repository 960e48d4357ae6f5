------------------------------- MODULE MCCrit -------------------------------
(* Small instances of Crit. *)
EXTENDS Crit, TLC

CONSTANTS p1, p2, p3

AllProcs == {p1, p2, p3}
TwoProcs == {p1, p2}

(* The properties say nothing of the states after a reload. *)
NoReload == reloaded = {}
====
