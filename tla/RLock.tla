-------------------------------- MODULE RLock --------------------------------
(***************************************************************************)
(* What a sync_sharedvar promises its callers: a lock that one task owns   *)
(* at a time, that the owner may take again, and that is free once the     *)
(* owner has left it as often as it entered it, or has died.               *)
(***************************************************************************)
EXTENDS Integers

CONSTANTS Procs, Locks, NoProc

VARIABLES
    owner,   \* the task inside each lock, or NoProc
    count,   \* how often it is inside
    gone     \* the tasks that died

vars == <<owner, count, gone>>

Take(p, l) ==
    /\ p \notin gone /\ owner[l] \in {NoProc, p}
    /\ owner' = [owner EXCEPT ![l] = p]
    /\ count' = [count EXCEPT ![l] = @ + 1]
    /\ UNCHANGED gone

Leave(p, l) ==
    /\ p \notin gone /\ owner[l] = p
    /\ count' = [count EXCEPT ![l] = @ - 1]
    /\ owner' = [owner EXCEPT ![l] = IF count[l] = 1 THEN NoProc ELSE p]
    /\ UNCHANGED gone

Die(p) ==
    /\ p \notin gone
    /\ gone' = gone \cup {p}
    /\ UNCHANGED <<owner, count>>

(* The locks of a task that died are free again, one by one. *)
Revoke(l) ==
    /\ owner[l] \in gone
    /\ owner' = [owner EXCEPT ![l] = NoProc]
    /\ count' = [count EXCEPT ![l] = 0]
    /\ UNCHANGED gone

Init ==
    /\ owner = [l \in Locks |-> NoProc]
    /\ count = [l \in Locks |-> 0]
    /\ gone = {}

Next ==
    \/ \E p \in Procs : Die(p) \/ \E l \in Locks : Take(p, l) \/ Leave(p, l)
    \/ \E l \in Locks : Revoke(l)

Spec == Init /\ [][Next]_vars
====
