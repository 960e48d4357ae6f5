--------------------------- MODULE CritHeldProofs ---------------------------
(***************************************************************************)
(* That held_crits misses no lock, for any number of tasks and locks: the  *)
(* table of a task has an entry for each lock it owns, as long as there    *)
(* are no more locks than entries and no CPU loads a task that is being    *)
(* killed.                                                                 *)
(***************************************************************************)
EXTENDS CritProofs, FiniteSetTheorems

(* HoldsTracked says nothing of a task around its release; the locks it    *)
(* keeps besides are recorded too, and are what it holds afterwards.       *)
Tracked ==
    \A p \in Procs : \A l \in Locks :
        Alive(p) /\ busy[l] = p /\ ~Between(p, l) => l \in held[p]

(* As long as held_crits has an entry for every lock, sync_track_hold      *)
(* records the lock it is given: those recorded already are other locks.   *)
LEMMA TrackRecords ==
    ASSUME NLocks <= HoldMax, NEW H \in SUBSET Locks, NEW l \in Locks
    PROVE  l \in Track(H, l) /\ H \subseteq Track(H, l)
  <1>1. CASE l \in H
    BY <1>1 DEF Track
  <1>2. CASE l \notin H
    <2>1. NLocks \in Nat \ {0} /\ HoldMax \in Nat /\ 1 \in Int /\ NLocks \in Int
      BY CritAssumption
    <2>2. IsFiniteSet(Locks) /\ Cardinality(Locks) = NLocks
      BY <2>1, FS_Interval DEF Locks
    <2>3. IsFiniteSet(Locks \ {l}) /\ Cardinality(Locks \ {l}) = NLocks - 1
      BY <2>2, FS_RemoveElement
    <2>4. H \in SUBSET (Locks \ {l})
      BY <1>2
    <2>5. IsFiniteSet(H) /\ Cardinality(H) <= Cardinality(Locks \ {l})
      BY <2>3, <2>4, FS_Subset
    <2>6. Cardinality(H) \in Nat
      BY <2>5, FS_CardinalityType
    <2>7. Cardinality(H) < HoldMax
      BY <2>1, <2>3, <2>5, <2>6
    <2> QED BY <2>7 DEF Track
  <1> QED BY <1>1, <1>2

(* A step of p that gives it at most the lock l, which it records.         *)
LEMMA TrackedAfter ==
    ASSUME Types, Tracked, NEW p \in Procs, UNCHANGED kill,
           \A q \in Procs \ {p} : pc'[q] = pc[q] /\ at'[q] = at[q] /\ held'[q] = held[q],
           \A k \in Locks : busy'[k] \in {busy[k], NoProc, p},
           (Alive(p))' => \A k \in Locks : busy'[k] = p /\ ~(Between(p, k))' => k \in held'[p]
    PROVE  Tracked'
  <1>1. \A q \in Procs \ {p} : \A k \in Locks :
            /\ (Alive(q))' = Alive(q) /\ (Between(q, k))' = Between(q, k)
            /\ busy'[k] = q => busy[k] = q
    BY CritAssumption DEF Alive, Unharmed, Between
  <1> QED BY <1>1 DEF Tracked

LEMMA StepTracked ==
    ASSUME NLocks <= HoldMax, Types, Safe, Tracked, NEW p \in Procs, Unharmed(p), UNCHANGED kill, Step(p)
    PROVE  Tracked'
  <1>0. at[p] \in Locks /\ p # NoProc /\ BetweenOwns
    BY CritAssumption DEF Types, Safe
  <1>t. \A k \in Locks : Alive(p) /\ busy[k] = p /\ ~Between(p, k) => k \in held[p]
    BY DEF Tracked
  <1>s. ASSUME NEW s \in {"run", "wait", "spin", "spinirq"}, pc' = [pc EXCEPT ![p] = s],
               pc[p] \in {"run", "wait", "spin", "spinirq"},
               \A q \in Procs \ {p} : at'[q] = at[q],
               UNCHANGED <<busy, held>>
        PROVE  Tracked'
    BY <1>s, <1>t, TrackedAfter DEF Types, Alive, Between
  <1>1. CASE Acquire(p)
    <2>1. /\ pc[p] = "spin" /\ pc' = [pc EXCEPT ![p] = "own"] /\ busy' = [busy EXCEPT ![at[p]] = p]
          /\ UNCHANGED <<held, at>>
      BY <1>1 DEF Acquire
    <2> QED BY <1>0, <1>t, <2>1, TrackedAfter DEF Types, Alive, Between
  <1>2. CASE Record(p)
    <2>1. /\ pc[p] = "own" /\ pc' = [pc EXCEPT ![p] = "run"]
          /\ held' = [held EXCEPT ![p] = Track(@, at[p])]
          /\ UNCHANGED <<busy, at>>
      BY <1>2 DEF Record
    <2>2. at[p] \in held'[p] /\ held[p] \subseteq held'[p]
      BY <1>0, <2>1, TrackRecords DEF Types
    <2>3. \A k \in Locks : busy'[k] = p => k \in held'[p]
      BY <1>t, <2>1, <2>2 DEF Alive, Between
    <2> QED BY <2>1, <2>3, TrackedAfter DEF Types
  <1>3. CASE Release(p)
    <2>1. /\ pc[p] = "leave" /\ pc' = [pc EXCEPT ![p] = "run"]
          /\ busy' = [busy EXCEPT ![at[p]] = NoProc] /\ UNCHANGED <<held, at>>
      BY <1>3 DEF Release
    <2>2. \A k \in Locks : busy'[k] = p => k \in held'[p]
      BY <1>0, <1>t, <2>1 DEF Types, Alive, Between
    <2> QED BY <2>1, <2>2, TrackedAfter DEF Types
  <1>4. CASE EndWait(p)
    BY <1>4, <1>s DEF EndWait
  <1>5. CASE Exit(p)
    BY <1>5, TrackedAfter DEF Exit, Types, Alive
  <1>6. ASSUME NEW l \in Locks, Enter(p, l) PROVE Tracked'
    <2>1. pc[p] = "run" /\ UNCHANGED <<busy, held>>
      BY <1>6 DEF Enter, MayEnter
    <2>2. CASE Owns(p, l)
      BY <1>6, <2>1, <2>2 DEF Enter, Tracked, Alive, Unharmed, Between
    <2>3. CASE ~Owns(p, l)
      <3>1. pc' = [pc EXCEPT ![p] = "spin"] /\ at' = [at EXCEPT ![p] = l]
        BY <1>6, <2>3 DEF Enter
      <3> QED BY <1>s, <2>1, <3>1 DEF Types
    <2> QED BY <2>2, <2>3
  <1>7. ASSUME NEW l \in Locks, EnterIrq(p, l) PROVE Tracked'
    <2>1. pc[p] \in {"run", "spinirq"}
      BY <1>7 DEF EnterIrq, MayEnter
    <2>2. CASE IsFree(l)
      <3>1. /\ busy' = [busy EXCEPT ![l] = p] /\ held' = [held EXCEPT ![p] = Track(@, l)]
            /\ pc' = [pc EXCEPT ![p] = "run"] /\ UNCHANGED at
        BY <1>7, <2>2 DEF EnterIrq
      <3>2. l \in held'[p] /\ held[p] \subseteq held'[p]
        BY <3>1, TrackRecords DEF Types
      <3>3. \A k \in Locks : busy'[k] = p => k \in held'[p]
        BY <1>t, <2>1, <3>1, <3>2 DEF Types, Alive, Between
      <3> QED BY <3>1, <3>3, TrackedAfter DEF Types
    <2>3. CASE ~IsFree(l)
      <3>1. /\ pc' = [pc EXCEPT ![p] = "spinirq"] /\ at' = [at EXCEPT ![p] = l]
            /\ UNCHANGED <<busy, held>>
        BY <1>7, <2>3 DEF EnterIrq
      <3> QED BY <1>s, <2>1, <3>1 DEF Types
    <2> QED BY <2>2, <2>3
  <1>8. ASSUME NEW l \in Locks, ReenterIrq(p, l) PROVE Tracked'
    BY <1>8 DEF ReenterIrq, Tracked, Alive, Unharmed, Between
  <1>9. ASSUME NEW l \in Locks, Leave(p, l) PROVE Tracked'
    <2>1. pc[p] = "run" /\ UNCHANGED busy
      BY <1>9 DEF Leave
    <2>2. CASE Owns(p, l) /\ wait[l] = 1
      <3>1. /\ held' = [held EXCEPT ![p] = @ \ {l}]
            /\ pc' = [pc EXCEPT ![p] = "leave"] /\ at' = [at EXCEPT ![p] = l]
        BY <1>9, <2>2 DEF Leave
      <3> QED BY <1>t, <2>1, <3>1, TrackedAfter DEF Types, Alive, Between
    <2>3. CASE ~(Owns(p, l) /\ wait[l] = 1)
      BY <1>9, <2>1, <2>3 DEF Leave, Tracked, Alive, Unharmed, Between
    <2> QED BY <2>2, <2>3
  <1>10. ASSUME NEW l \in Locks, StartWait(p, l) PROVE Tracked'
    BY <1>10, <1>s DEF StartWait, Types
  <1> QED BY <1>1, <1>2, <1>3, <1>4, <1>5, <1>6, <1>7, <1>8, <1>9, <1>10 DEF Step

LEMMA TeardownTracked ==
    ASSUME Types, Tracked, NEW p \in Procs, Teardown(p)
    PROVE  Tracked'
  <1>1. CASE KillTest(p)
    BY <1>1 DEF KillTest, Types, Tracked, Alive, Unharmed, Between
  <1>2. CASE KillSwept(p)
    BY <1>2 DEF KillSwept, Types, Tracked, Alive, Unharmed, Between
  <1>3. CASE Dead(p)
    BY <1>3, TrackedAfter DEF Dead, Types, Alive
  <1>4. ASSUME NEW l \in Locks, FreeCrit(p, l) PROVE Tracked'
    <2>1. busy' = [busy EXCEPT ![l] = NoProc] /\ UNCHANGED <<held, pc, at, kill>>
      BY <1>4 DEF FreeCrit
    <2> QED BY <2>1, CritAssumption DEF Types, Tracked, Alive, Unharmed, Between
  <1> QED BY <1>1, <1>2, <1>3, <1>4 DEF Teardown

(* held_crits has every lock a live task owns, outside the masked          *)
(* acquisition and the release, for any number of tasks and locks, as long *)
(* as it has as many entries as there are locks: the scheduler's pin and   *)
(* the sweep of a dead task's locks miss none.                             *)
THEOREM CritHoldsTracked == NLocks <= HoldMax => (Spec => []HoldsTracked)
  <1> SUFFICES ASSUME NLocks <= HoldMax PROVE Spec => []HoldsTracked
    OBVIOUS
  <1> DEFINE Kept == reloaded = {} => Tracked
  <1>1. Init => Kept
    BY CritAssumption DEF Init, Tracked
  <1>2. ASSUME IInv, Kept, [Next]_vars PROVE Kept'
    <2> SUFFICES ASSUME reloaded' = {} PROVE Tracked'
      OBVIOUS
    <2>0. Types /\ (reloaded = {} => Safe)
      BY <1>2 DEF IInv
    <2>1. CASE UNCHANGED vars
      BY <1>2, <2>1 DEF vars, Tracked, Alive, Unharmed, Between
    <2>2. ASSUME NEW p \in Procs, Step(p) PROVE Tracked'
      <3>1. reloaded = {} /\ Unharmed(p) /\ UNCHANGED kill
        BY <2>2 DEF Step, Unharmed
      <3> QED BY <1>2, <2>0, <2>2, <3>1, StepTracked
    <2>3. ASSUME NEW p \in Procs, Teardown(p) PROVE Tracked'
      <3>1. reloaded = {}
        BY <2>3 DEF Teardown
      <3> QED BY <1>2, <2>0, <2>3, <3>1, TeardownTracked
    <2> QED BY <1>2, <2>1, <2>2, <2>3 DEF Next
  <1>3. IInv /\ Kept => HoldsTracked
    <2> SUFFICES ASSUME IInv, Kept, reloaded = {}, NEW p \in Executing, NEW l \in Locks,
                        busy[l] = p, ~Masked(p), pc[p] \notin {"leave", "dying", "dead"}
                 PROVE  l \in held[p]
      BY DEF HoldsTracked
    <2>1. p \in Procs /\ Alive(p)
      BY DEF Executing, Alive, Unharmed
    <2>2. pc[p] # "own"
      BY <2>1 DEF IInv, Flags, Masked
    <2> QED BY <2>1, <2>2 DEF Tracked, Between
  <1> HIDE DEF Kept
  <1> QED BY <1>1, <1>2, <1>3, CritInvariant, PTL DEF Spec
====
