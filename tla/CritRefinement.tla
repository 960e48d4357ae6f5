--------------------------- MODULE CritRefinement ---------------------------
(***************************************************************************)
(* The proof that the locks of sync.c implement the recursive lock of      *)
(* RLock, until a CPU loads a task that is being killed.                   *)
(***************************************************************************)
EXTENDS CritProofs

(* The abstract owner of a lock is the task busy names while wait counts   *)
(* it inside; the tasks that are not alive are gone.                       *)
AbsOwner == [l \in Locks |-> IF wait[l] = 0 THEN NoProc ELSE busy[l]]

AbsGone == {p \in Procs : kill[p] # "none" \/ pc[p] \in {"dying", "dead"}}

LEMMA OwnerChanges ==
    ASSUME NEW l \in Locks, NEW v,
           \A k \in Locks \ {l} : busy'[k] = busy[k] /\ wait'[k] = wait[k],
           v = IF wait'[l] = 0 THEN NoProc ELSE busy'[l]
    PROVE  AbsOwner' = [AbsOwner EXCEPT ![l] = v]
  BY Zenon DEF AbsOwner

LEMMA GoneAlive ==
    ASSUME NEW p \in Procs, Alive(p)
    PROVE  p \notin AbsGone
  BY DEF AbsGone, Alive, Unharmed

(* A step of one task that stays alive. *)
LEMMA GoneSame ==
    ASSUME Types, NEW p \in Procs, Alive(p), UNCHANGED kill, pc'[p] \notin {"dying", "dead"},
           \A q \in Procs \ {p} : pc'[q] = pc[q]
    PROVE  AbsGone' = AbsGone
  BY DEF AbsGone, Alive, Unharmed

(* Whatever counts an alive task in once more is a Take. *)
LEMMA TakeRefines ==
    ASSUME Types, NEW p \in Procs, NEW l \in Locks, p # NoProc, Alive(p), AbsGone' = AbsGone,
           wait[l] = 0 \/ busy[l] = p, wait[l] \in Nat,
           wait' = [wait EXCEPT ![l] = @ + 1], busy'[l] = p,
           \A k \in Locks \ {l} : busy'[k] = busy[k]
    PROVE  Abs!Next
  <1>1. AbsOwner[l] \in {NoProc, p}
    BY DEF AbsOwner
  <1>2. AbsOwner' = [AbsOwner EXCEPT ![l] = p]
    <2>1. /\ \A k \in Locks \ {l} : busy'[k] = busy[k] /\ wait'[k] = wait[k]
          /\ p = IF wait'[l] = 0 THEN NoProc ELSE busy'[l]
      BY DEF Types
    <2> QED BY <2>1, OwnerChanges
  <1>3. Abs!Take(p, l)
    BY <1>1, <1>2, GoneAlive DEF AbsOwner, AbsGone, Abs!Take
  <1> QED BY <1>3 DEF Abs!Next

LEMMA ReenteredRefines ==
    ASSUME Types, Safe, NEW p \in Procs, Alive(p), UNCHANGED kill, NEW l \in Locks, Reentered(p, l)
    PROVE  Abs!Next
  <1>1. p # NoProc /\ wait[l] \in Nat
    BY CritAssumption DEF Safe, CountsNat
  <1>2. AbsGone' = AbsGone
    BY GoneSame DEF Reentered, Alive, Unharmed
  <1> QED BY <1>1, <1>2, TakeRefines DEF Reentered

LEMMA LeaveRefines ==
    ASSUME Types, Safe, NEW p \in Procs, Alive(p), UNCHANGED kill, NEW l \in Locks, Leave(p, l)
    PROVE  Abs!Next
  <1>1. busy[l] = p /\ wait[l] \in Nat \ {0} /\ p # NoProc
    <2>1. Inside(p, l) /\ p # NoProc
      BY CritAssumption DEF Leave
    <2>2. busy[l] = p /\ wait[l] = depth[<<p, l>>]
      BY <2>1 DEF Safe, CountsEntries, Alive
    <2>3. depth[<<p, l>>] \in Nat
      BY DEF Types
    <2> QED BY <2>1, <2>2, <2>3 DEF Inside
  <1>2. wait' = [wait EXCEPT ![l] = @ - 1] /\ UNCHANGED busy
    BY <1>1 DEF Leave, Owns
  <1>3. AbsGone' = AbsGone
    <2>1. CASE wait[l] = 1
      BY <1>1, <2>1, GoneSame DEF Leave, Owns, Types
    <2>2. CASE wait[l] # 1
      BY <2>2 DEF Leave, AbsGone
    <2> QED BY <2>1, <2>2
  <1>4. AbsOwner[l] = p
    BY <1>1 DEF AbsOwner
  <1>5. AbsOwner' = [AbsOwner EXCEPT ![l] = IF wait[l] = 1 THEN NoProc ELSE p]
    <2> DEFINE v == IF wait[l] = 1 THEN NoProc ELSE p
    <2>1. /\ \A k \in Locks \ {l} : busy'[k] = busy[k] /\ wait'[k] = wait[k]
          /\ v = IF wait'[l] = 0 THEN NoProc ELSE busy'[l]
      BY <1>1, <1>2 DEF Types
    <2> HIDE DEF v
    <2>2. AbsOwner' = [AbsOwner EXCEPT ![l] = v]
      BY <2>1, OwnerChanges
    <2> QED BY <2>2 DEF v
  <1>6. Abs!Leave(p, l)
    BY <1>2, <1>3, <1>4, <1>5, GoneAlive DEF AbsOwner, AbsGone, Abs!Leave
  <1> QED BY <1>6 DEF Abs!Next

LEMMA FreeCritRefines ==
    ASSUME Types, Safe, NEW p \in Procs, NEW l \in Locks, FreeCrit(p, l)
    PROVE  Abs!Next \/ UNCHANGED <<AbsOwner, wait, AbsGone>>
  <1>1. /\ busy[l] = p /\ p # NoProc
        /\ wait' = [wait EXCEPT ![l] = 0] /\ busy' = [busy EXCEPT ![l] = NoProc]
        /\ UNCHANGED <<pc, kill>>
    BY CritAssumption DEF FreeCrit, Owns
  <1>2. AbsGone' = AbsGone /\ p \in AbsGone
    BY <1>1 DEF FreeCrit, Sweeps, AbsGone
  <1>3. CASE wait[l] = 0
    BY <1>1, <1>2, <1>3 DEF AbsOwner, Types
  <1>4. CASE wait[l] # 0
    <2>1. AbsOwner[l] = p
      BY <1>1, <1>4 DEF AbsOwner
    <2>2. AbsOwner' = [AbsOwner EXCEPT ![l] = NoProc]
      BY Zenon, <1>1 DEF AbsOwner, Types
    <2>3. Abs!Revoke(l)
      BY <1>1, <1>2, <2>1, <2>2 DEF AbsOwner, AbsGone, Abs!Revoke
    <2> QED BY <2>3 DEF Abs!Next
  <1> QED BY <1>3, <1>4

(* A task dies on its own CPU, or kill_process finds it off its CPU.       *)
LEMMA DieRefines ==
    ASSUME Types, NEW p \in Procs, Alive(p), UNCHANGED <<busy, wait>>,
           \A q \in Procs \ {p} : kill'[q] = kill[q] /\ pc'[q] = pc[q],
           kill'[p] # "none" \/ pc'[p] \in {"dying", "dead"}
    PROVE  Abs!Next
  <1>1. AbsGone' = AbsGone \cup {p} /\ p \notin AbsGone
    BY DEF AbsGone, Alive, Unharmed
  <1>2. AbsOwner' = AbsOwner
    BY DEF AbsOwner
  <1>3. Abs!Die(p)
    BY <1>1, <1>2 DEF AbsOwner, AbsGone, Abs!Die
  <1> QED BY <1>3 DEF Abs!Next

LEMMA TeardownRefines ==
    ASSUME Types, Safe, NEW p \in Procs, Teardown(p)
    PROVE  Abs!Next \/ UNCHANGED <<AbsOwner, wait, AbsGone>>
  <1>1. CASE KillTest(p)
    <2>1. /\ kill[p] = "none" /\ pc[p] \notin {"dying", "dead"}
          /\ kill' = [kill EXCEPT ![p] = "sweep"] /\ UNCHANGED <<busy, wait, pc>>
      BY <1>1 DEF KillTest, OffCpu
    <2> QED BY <2>1, DieRefines DEF Types, Alive, Unharmed
  <1>2. CASE KillSwept(p)
    BY <1>2 DEF KillSwept, AbsOwner, AbsGone, Types
  <1>3. CASE Dead(p)
    <2>1. /\ kill[p] # "none" \/ pc[p] \in {"dying", "dead"}
          /\ pc' = [pc EXCEPT ![p] = "dead"] /\ UNCHANGED <<busy, wait, kill>>
      BY <1>3 DEF Dead
    <2>2. AbsGone' = AbsGone
      BY <2>1 DEF AbsGone, Types
    <2> QED BY <2>1, <2>2 DEF AbsOwner
  <1>4. ASSUME NEW l \in Locks, FreeCrit(p, l)
        PROVE  Abs!Next \/ UNCHANGED <<AbsOwner, wait, AbsGone>>
    BY <1>4, FreeCritRefines
  <1> QED BY <1>1, <1>2, <1>3, <1>4 DEF Teardown

LEMMA StepRefines ==
    ASSUME Types, Safe, NEW p \in Procs, Unharmed(p), UNCHANGED kill, Step(p)
    PROVE  Abs!Next \/ UNCHANGED <<AbsOwner, wait, AbsGone>>
  <1>0. p # NoProc /\ at[p] \in Locks /\ CountsNat /\ FreeCountsZero /\ BetweenOwns
    BY CritAssumption DEF Types, Safe
  <1>s. ASSUME NEW s \in {"run", "wait", "spin", "spinirq"}, Alive(p), pc' = [pc EXCEPT ![p] = s],
               UNCHANGED <<busy, wait>>
        PROVE  UNCHANGED <<AbsOwner, wait, AbsGone>>
    BY <1>s, GoneSame DEF AbsOwner, Types
  <1>1. CASE Acquire(p)
    <2>1. /\ pc[p] = "spin" /\ busy[at[p]] = NoProc /\ busy' = [busy EXCEPT ![at[p]] = p]
          /\ pc' = [pc EXCEPT ![p] = "own"] /\ UNCHANGED wait
      BY <1>1 DEF Acquire, IsFree
    <2>2. AbsGone' = AbsGone
      BY <2>1, GoneSame DEF Alive, Types
    <2>3. AbsOwner' = AbsOwner
      BY <1>0, <2>1 DEF FreeCountsZero, AbsOwner, Types
    <2> QED BY <2>1, <2>2, <2>3
  <1>2. CASE Record(p)
    <2>1. /\ pc[p] = "own" /\ wait' = [wait EXCEPT ![at[p]] = 1] /\ pc' = [pc EXCEPT ![p] = "run"]
          /\ UNCHANGED busy
      BY <1>2 DEF Record
    <2>2. Alive(p) /\ busy[at[p]] = p /\ wait[at[p]] = 0
      BY <1>0, <2>1 DEF BetweenOwns, Alive
    <2>3. AbsGone' = AbsGone
      BY <2>1, <2>2, GoneSame DEF Types
    <2>4. wait' = [wait EXCEPT ![at[p]] = @ + 1]
      BY <2>1, <2>2
    <2>5. /\ at[p] \in Locks /\ p # NoProc /\ (wait[at[p]] = 0 \/ busy[at[p]] = p)
          /\ wait[at[p]] \in Nat /\ busy'[at[p]] = p
          /\ \A k \in Locks \ {at[p]} : busy'[k] = busy[k]
      BY <1>0, <2>1, <2>2
    <2> QED BY <2>2, <2>3, <2>4, <2>5, TakeRefines
  <1>3. CASE Release(p)
    <2>1. /\ pc[p] = "leave" /\ busy' = [busy EXCEPT ![at[p]] = NoProc]
          /\ pc' = [pc EXCEPT ![p] = "run"] /\ UNCHANGED wait
      BY <1>3 DEF Release
    <2>2. Alive(p) /\ wait[at[p]] = 0
      BY <1>0, <2>1 DEF BetweenOwns, Alive
    <2>3. AbsGone' = AbsGone
      BY <2>1, <2>2, GoneSame DEF Types
    <2>4. AbsOwner' = AbsOwner
      BY <1>0, <2>1, <2>2 DEF AbsOwner, Types
    <2> QED BY <2>1, <2>3, <2>4
  <1>4. CASE EndWait(p)
    BY <1>4, <1>s DEF EndWait, Alive
  <1>5. CASE Exit(p)
    <2>1. /\ pc[p] \notin {"dying", "dead"} /\ pc' = [pc EXCEPT ![p] = "dying"]
          /\ UNCHANGED <<busy, wait>>
      BY <1>5 DEF Exit
    <2> QED BY <2>1, DieRefines DEF Types, Alive
  <1>6. ASSUME NEW l \in Locks, Enter(p, l)
        PROVE  Abs!Next \/ UNCHANGED <<AbsOwner, wait, AbsGone>>
    <2>1. pc[p] = "run" /\ Alive(p)
      BY <1>6 DEF Enter, MayEnter, Alive
    <2>2. CASE Owns(p, l)
      <3>1. Reentered(p, l)
        BY <1>6, <2>1, <2>2 DEF Enter, Owns, Deeper, Reentered
      <3> QED BY <2>1, <3>1, ReenteredRefines
    <2>3. CASE ~Owns(p, l)
      BY <1>6, <1>s, <2>1, <2>3 DEF Enter
    <2> QED BY <2>2, <2>3
  <1>7. ASSUME NEW l \in Locks, EnterIrq(p, l)
        PROVE  Abs!Next \/ UNCHANGED <<AbsOwner, wait, AbsGone>>
    <2>1. pc[p] \in {"run", "spinirq"} /\ Alive(p)
      BY <1>7 DEF EnterIrq, MayEnter, Alive
    <2>2. CASE IsFree(l)
      <3>1. /\ busy[l] = NoProc /\ wait[l] = 0 /\ busy' = [busy EXCEPT ![l] = p]
            /\ wait' = [wait EXCEPT ![l] = 1] /\ pc' = [pc EXCEPT ![p] = "run"]
        BY <1>0, <1>7, <2>2 DEF EnterIrq, IsFree, FreeCountsZero
      <3>2. AbsGone' = AbsGone
        BY <2>1, <3>1, GoneSame DEF Types
      <3>3. /\ wait' = [wait EXCEPT ![l] = @ + 1] /\ busy'[l] = p
            /\ \A k \in Locks \ {l} : busy'[k] = busy[k]
        BY <3>1 DEF Types
      <3>4. p # NoProc /\ (wait[l] = 0 \/ busy[l] = p) /\ wait[l] \in Nat
        BY <1>0, <3>1
      <3> QED BY <2>1, <3>2, <3>3, <3>4, TakeRefines
    <2>3. CASE ~IsFree(l)
      BY <1>7, <1>s, <2>1, <2>3 DEF EnterIrq
    <2> QED BY <2>2, <2>3
  <1>8. ASSUME NEW l \in Locks, ReenterIrq(p, l) PROVE Abs!Next
    <2>1. Reentered(p, l) /\ Alive(p)
      BY <1>8 DEF ReenterIrq, MayEnter, Owns, Deeper, Reentered, Alive
    <2> QED BY <2>1, ReenteredRefines
  <1>9. ASSUME NEW l \in Locks, Leave(p, l) PROVE Abs!Next
    BY <1>9, LeaveRefines DEF Leave, Alive
  <1>10. ASSUME NEW l \in Locks, StartWait(p, l) PROVE UNCHANGED <<AbsOwner, wait, AbsGone>>
    BY <1>10, <1>s DEF StartWait, Alive
  <1> QED BY <1>1, <1>2, <1>3, <1>4, <1>5, <1>6, <1>7, <1>8, <1>9, <1>10 DEF Step

(* sync.c's locks are the recursive locks their callers expect, as long as *)
(* no CPU loads a task that is being killed: every step of the two-step    *)
(* acquisition and release, the two entries and the sweep is a step of     *)
(* RLock or none, and only a dead task has its locks taken away.           *)
THEOREM CritImplementsRLock == Spec => ImplementsRLock
  <1>1. Init => Abs!Init
    BY DEF Init, Abs!Init
  <1>2. ASSUME IInv, [Next]_vars, reloaded' = {}
        PROVE  Abs!Next \/ UNCHANGED <<AbsOwner, wait, AbsGone>>
    <2>0. Types /\ (reloaded = {} => Safe)
      BY <1>2 DEF IInv
    <2>1. CASE UNCHANGED vars
      BY <2>1 DEF vars, AbsOwner, AbsGone
    <2>2. ASSUME NEW p \in Procs, Step(p)
          PROVE  Abs!Next \/ UNCHANGED <<AbsOwner, wait, AbsGone>>
      <3>1. reloaded = {} /\ Unharmed(p) /\ UNCHANGED kill
        BY <1>2, <2>2 DEF Step, Unharmed
      <3> QED BY <2>0, <2>2, <3>1, StepRefines
    <2>3. ASSUME NEW p \in Procs, Teardown(p)
          PROVE  Abs!Next \/ UNCHANGED <<AbsOwner, wait, AbsGone>>
      <3>1. reloaded = {}
        BY <1>2, <2>3 DEF Teardown
      <3> QED BY <2>0, <2>3, <3>1, TeardownRefines
    <2> QED BY <1>2, <2>1, <2>2, <2>3 DEF Next
  <1>3. IInv /\ [Next]_vars => [reloaded' = {} => [Abs!Next]_(Abs!vars)]_vars
    BY <1>2 DEF AbsOwner, AbsGone, Abs!vars
  <1> QED BY <1>1, <1>3, CritInvariant, PTL DEF Spec, ImplementsRLock

====
