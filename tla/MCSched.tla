------------------------------ MODULE MCSched ------------------------------
(* Small instances of Sched: one to three CPUs, a task, its child, and another. *)
EXTENDS Sched, TLC

CONSTANTS i0, i1, i2, a, b, d

Idles1 == 0 :> i0
Idles2 == 0 :> i0 @@ 1 :> i1
Idles3 == Idles2 @@ 2 :> i2
Family == [t \in Tasks |-> IF t = b THEN a ELSE i0]
====
