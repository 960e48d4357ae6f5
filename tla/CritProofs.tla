----------------------------- MODULE CritProofs -----------------------------
(***************************************************************************)
(* Proofs about Crit, for any number of tasks and locks, any nesting and   *)
(* any set of tasks that exit or are killed. What holds until a CPU loads  *)
(* a task that is being killed: mutual exclusion and the exact recursion   *)
(* count; CritRefinement and CritHeldProofs prove more from the same       *)
(* invariant. What holds throughout: the types, and where the owner of a   *)
(* lock can be flagged as a waiter for it.                                 *)
(***************************************************************************)
EXTENDS Crit, TLAPS

(* The tasks that nobody is killing. *)
Unharmed(p) == kill[p] = "none"

Alive(p) == Unharmed(p) /\ pc[p] \notin {"dying", "dead"}

(* Between the compare-and-swap and its record, or the last leave and the  *)
(* release, of lock l.                                                     *)
Between(p, l) == pc[p] \in {"own", "leave"} /\ at[p] = l

CountsNat == \A l \in Locks : wait[l] \in Nat

CountsEntries ==
    \A p \in Procs : \A l \in Locks :
        Unharmed(p) /\ Inside(p, l) => busy[l] = p /\ wait[l] = depth[<<p, l>>]

(* A live task owns exactly the locks it is inside of, plus the one it is  *)
(* about to record or to release; a task that died is inside none.         *)
OwnsInside ==
    \A p \in Procs : \A l \in Locks :
        Alive(p) /\ busy[l] = p /\ ~Between(p, l) => Inside(p, l)

(* Around its release, and before it is recorded, the lock is the task's   *)
(* and counts nothing.                                                     *)
BetweenOwns ==
    \A p \in Procs : Alive(p) /\ pc[p] \in {"own", "leave"} =>
        busy[at[p]] = p /\ wait[at[p]] = 0 /\ depth[<<p, at[p]>>] = 0

DeadOutside ==
    \A p \in Procs : pc[p] \in {"dying", "dead"} => \A l \in Locks : depth[<<p, l>>] = 0

FreeCountsZero == \A l \in Locks : busy[l] = NoProc => wait[l] = 0

(* What the locks keep until a CPU loads a task that is being killed. *)
Safe ==
    /\ CountsNat
    /\ CountsEntries
    /\ OwnsInside
    /\ BetweenOwns
    /\ DeadOutside
    /\ FreeCountsZero

(* A flagged task waits, spins, acquires or is dying; a spinner is not the *)
(* owner of what it spins for, and acquires with interrupts off.           *)
Flags ==
    \A p \in Procs :
        /\ crit_wait[p] # NoLock => pc[p] \in {"wait", "spin", "own", "dying"}
        /\ pc[p] = "spin" => crit_wait[p] = at[p] /\ busy[at[p]] # p
        /\ pc[p] = "own" => ~ints[p]

IInv == Types /\ Flags /\ (reloaded = {} => Safe)

LEMMA InitInv == Init => IInv
  BY CritAssumption
  DEF Init, IInv, Types, Flags, Safe, CountsNat, CountsEntries, OwnsInside, BetweenOwns, DeadOutside,
      FreeCountsZero, Unharmed, Alive, Between, Inside, Locks, NoLock

-----------------------------------------------------------------------------
(* The types, and the waiter flag: one step at a time, reloads included.   *)

LEMMA StepTypes ==
    ASSUME Types, NEW p \in Procs, Step(p)
    PROVE  Types'
  <1>a. UNCHANGED kill /\ reloaded' \subseteq Procs
    BY DEF Step, Types
  <1>b. at[p] \in Locks
    BY DEF Types
  <1>1. CASE Acquire(p)
    BY <1>a, <1>1 DEF Acquire, Types
  <1>2. CASE Record(p)
    <2>1. Track(held[p], at[p]) \in SUBSET Locks
      BY DEF Types, Track
    <2> QED BY <1>a, <1>2, <1>b, <2>1 DEF Record, Types
  <1>3. CASE Release(p)
    <2>1. ints' \in [Procs -> BOOLEAN] /\ flags' \in [Procs \X Locks -> BOOLEAN]
      BY <1>3, <1>b DEF Release, Types
    <2> QED BY <1>a, <1>3, <1>b, <2>1 DEF Release, Types
  <1>4. CASE EndWait(p)
    BY <1>a, <1>4 DEF EndWait, Types
  <1>5. CASE Exit(p)
    <2>1. depth' \in [Procs \X Locks -> Nat]
      BY <1>5 DEF Exit, Types
    <2> QED BY <1>a, <1>5, <2>1 DEF Exit, Types
  <1>6. ASSUME NEW l \in Locks, Enter(p, l) PROVE Types'
    <2>1. CASE Owns(p, l)
      <3>1. /\ wait' = [wait EXCEPT ![l] = @ + 1]
            /\ depth' = [depth EXCEPT ![<<p, l>>] = @ + 1]
            /\ UNCHANGED <<busy, held, crit_wait, pc, at, ints, flags, ifwas>>
        BY <1>6, <2>1 DEF Enter, Deeper
      <3> QED BY <1>a, <3>1 DEF Types
    <2>2. CASE ~Owns(p, l)
      BY <1>a, <1>6, <2>2 DEF Enter, Types
    <2> QED BY <2>1, <2>2
  <1>7. ASSUME NEW l \in Locks, EnterIrq(p, l) PROVE Types'
    <2>1. ints' \in [Procs -> BOOLEAN] /\ ifwas' \in [Procs \X Locks -> BOOLEAN]
          /\ UNCHANGED crit_wait
      BY Zenon, <1>7 DEF EnterIrq, Types
    <2>2. CASE IsFree(l)
      <3>1. Track(held[p], l) \in SUBSET Locks
        BY DEF Types, Track
      <3>2. /\ busy' = [busy EXCEPT ![l] = p]
            /\ wait' = [wait EXCEPT ![l] = 1]
            /\ held' = [held EXCEPT ![p] = Track(@, l)]
            /\ flags' = [flags EXCEPT ![<<p, l>>] = ints[p]]
            /\ depth' = [depth EXCEPT ![<<p, l>>] = @ + 1]
            /\ pc' = [pc EXCEPT ![p] = "run"]
            /\ UNCHANGED at
        BY <1>7, <2>2 DEF EnterIrq
      <3> QED BY <1>a, <2>1, <3>1, <3>2 DEF Types
    <2>3. CASE ~IsFree(l)
      BY <1>a, <1>7, <2>1, <2>3 DEF EnterIrq, Types
    <2> QED BY <2>2, <2>3
  <1>8. ASSUME NEW l \in Locks, ReenterIrq(p, l) PROVE Types'
    BY <1>a, <1>8 DEF ReenterIrq, Deeper, Types
  <1>9. ASSUME NEW l \in Locks, Leave(p, l) PROVE Types'
    <2>1. ints' \in [Procs -> BOOLEAN] /\ wait' \in [Locks -> Int]
      BY <1>9 DEF Leave, Types
    <2>2. depth' \in [Procs \X Locks -> Nat]
      BY <1>9 DEF Leave, Inside, Types
    <2>3. held' \in [Procs -> SUBSET Locks] /\ at' \in [Procs -> Locks]
          /\ pc' \in [Procs -> {"run", "wait", "spin", "own", "spinirq", "leave", "dying", "dead"}]
      <3>1. CASE Owns(p, l) /\ wait[l] = 1
        <4>1. /\ held' = [held EXCEPT ![p] = @ \ {l}]
              /\ pc' = [pc EXCEPT ![p] = "leave"]
              /\ at' = [at EXCEPT ![p] = l]
          BY <1>9, <3>1 DEF Leave
        <4> QED BY <4>1 DEF Types
      <3>2. CASE ~(Owns(p, l) /\ wait[l] = 1)
        BY <1>9, <3>2 DEF Leave, Types
      <3> QED BY <3>1, <3>2
    <2> QED BY <1>a, <1>9, <2>1, <2>2, <2>3 DEF Leave, Types
  <1>10. ASSUME NEW l \in Locks, StartWait(p, l) PROVE Types'
    BY <1>a, <1>10 DEF StartWait, Types
  <1> QED BY <1>1, <1>2, <1>3, <1>4, <1>5, <1>6, <1>7, <1>8, <1>9, <1>10 DEF Step

LEMMA TeardownTypes ==
    ASSUME Types, NEW p \in Procs, Teardown(p)
    PROVE  Types'
  <1>a. UNCHANGED reloaded
    BY DEF Teardown
  <1>1. CASE KillTest(p)
    BY <1>a, <1>1 DEF KillTest, Types
  <1>2. CASE KillSwept(p)
    BY <1>a, <1>2 DEF KillSwept, Types
  <1>3. CASE Dead(p)
    <2>1. depth' \in [Procs \X Locks -> Nat]
      BY <1>3 DEF Dead, Types
    <2> QED BY <1>a, <1>3, <2>1 DEF Dead, Types
  <1>4. ASSUME NEW l \in Locks, FreeCrit(p, l) PROVE Types'
    BY <1>a, <1>4 DEF FreeCrit, Types
  <1> QED BY <1>1, <1>2, <1>3, <1>4 DEF Teardown

(* What a step does to the flags of the other tasks: nothing, and it makes *)
(* none of them the owner of a lock.                                       *)
LEMMA FlagsOfOthers ==
    ASSUME Types, Flags, NEW p \in Procs,
           \A q \in Procs \ {p} : /\ crit_wait'[q] = crit_wait[q] /\ pc'[q] = pc[q]
                                  /\ at'[q] = at[q] /\ ints'[q] = ints[q],
           \A l \in Locks : busy'[l] \in {busy[l], NoProc, p},
           /\ crit_wait'[p] # NoLock => pc'[p] \in {"wait", "spin", "own", "dying"}
           /\ pc'[p] = "spin" => crit_wait'[p] = at'[p] /\ busy'[at'[p]] # p
           /\ pc'[p] = "own" => ~ints'[p]
    PROVE  Flags'
  <1>1. \A q \in Procs : at[q] \in Locks /\ q # NoProc
    BY CritAssumption DEF Types
  <1> QED BY <1>1 DEF Flags

LEMMA StepFlags ==
    ASSUME Types, Flags, NEW p \in Procs, Step(p)
    PROVE  Flags'
  <1>a. at[p] \in Locks /\ p # NoProc
    BY CritAssumption DEF Types
  <1>f. /\ crit_wait[p] # NoLock => pc[p] \in {"wait", "spin", "own", "dying"}
        /\ pc[p] = "spin" => crit_wait[p] = at[p] /\ busy[at[p]] # p
        /\ pc[p] = "own" => ~ints[p]
    BY DEF Flags
  <1>1. CASE Acquire(p)
    BY <1>1, <1>a, <1>f, FlagsOfOthers DEF Acquire, Types
  <1>2. CASE Record(p)
    BY <1>2, <1>a, FlagsOfOthers DEF Record, Types
  <1>3. CASE Release(p)
    BY <1>3, <1>a, <1>f, FlagsOfOthers DEF Release, Types
  <1>4. CASE EndWait(p)
    BY <1>4, <1>a, FlagsOfOthers DEF EndWait, Types
  <1>5. CASE Exit(p)
    BY <1>5, <1>a, FlagsOfOthers DEF Exit, Types
  <1>6. ASSUME NEW l \in Locks, Enter(p, l) PROVE Flags'
    <2>1. CASE Owns(p, l)
      <3>1. pc[p] = "run" /\ UNCHANGED <<busy, crit_wait, pc, at, ints>>
        BY <1>6, <2>1 DEF Enter, MayEnter
      <3> QED BY <3>1 DEF Flags
    <2>2. CASE ~Owns(p, l)
      <3>1. /\ busy[l] # p /\ UNCHANGED <<busy, ints>>
            /\ crit_wait' = [crit_wait EXCEPT ![p] = l]
            /\ pc' = [pc EXCEPT ![p] = "spin"]
            /\ at' = [at EXCEPT ![p] = l]
        BY <1>6, <2>2 DEF Enter, Owns
      <3> QED BY <3>1, FlagsOfOthers DEF Types
    <2> QED BY <2>1, <2>2
  <1>7. ASSUME NEW l \in Locks, EnterIrq(p, l) PROVE Flags'
    <2>1. pc[p] \in {"run", "spinirq"} /\ UNCHANGED crit_wait /\ ints' = [ints EXCEPT ![p] = FALSE]
      BY <1>7 DEF EnterIrq, MayEnter
    <2>2. CASE IsFree(l)
      <3>1. busy' = [busy EXCEPT ![l] = p] /\ pc' = [pc EXCEPT ![p] = "run"] /\ UNCHANGED at
        BY <1>7, <2>2 DEF EnterIrq
      <3> QED BY <1>f, <2>1, <3>1, FlagsOfOthers DEF Types
    <2>3. CASE ~IsFree(l)
      <3>1. UNCHANGED busy /\ pc' = [pc EXCEPT ![p] = "spinirq"] /\ at' = [at EXCEPT ![p] = l]
        BY <1>7, <2>3 DEF EnterIrq
      <3> QED BY <1>f, <2>1, <3>1, FlagsOfOthers DEF Types
    <2> QED BY <2>2, <2>3
  <1>8. ASSUME NEW l \in Locks, ReenterIrq(p, l) PROVE Flags'
    BY <1>8, <1>f, FlagsOfOthers DEF ReenterIrq, MayEnter, Types
  <1>9. ASSUME NEW l \in Locks, Leave(p, l) PROVE Flags'
    <2>1. pc[p] = "run" /\ UNCHANGED <<busy, crit_wait>>
          /\ \A q \in Procs \ {p} : ints'[q] = ints[q]
      BY <1>9 DEF Leave, Types
    <2>2. pc'[p] \in {"run", "leave"} /\ \A q \in Procs \ {p} : pc'[q] = pc[q] /\ at'[q] = at[q]
      <3>1. CASE Owns(p, l) /\ wait[l] = 1
        BY <1>9, <3>1 DEF Leave, Types
      <3>2. CASE ~(Owns(p, l) /\ wait[l] = 1)
        BY <1>9, <2>1, <3>2 DEF Leave
      <3> QED BY <3>1, <3>2
    <2> QED BY <1>f, <2>1, <2>2, FlagsOfOthers
  <1>10. ASSUME NEW l \in Locks, StartWait(p, l) PROVE Flags'
    BY <1>10, FlagsOfOthers DEF StartWait, Types
  <1> QED BY <1>1, <1>2, <1>3, <1>4, <1>5, <1>6, <1>7, <1>8, <1>9, <1>10 DEF Step

LEMMA TeardownFlags ==
    ASSUME Types, Flags, NEW p \in Procs, Teardown(p)
    PROVE  Flags'
  <1>a. at[p] \in Locks /\ p # NoProc
    BY CritAssumption DEF Types
  <1>1. CASE KillTest(p) \/ KillSwept(p)
    BY <1>1 DEF KillTest, KillSwept, Flags
  <1>2. CASE Dead(p)
    BY <1>2, FlagsOfOthers DEF Dead, Types
  <1>3. ASSUME NEW l \in Locks, FreeCrit(p, l) PROVE Flags'
    <2>1. /\ busy' = [busy EXCEPT ![l] = NoProc]
          /\ UNCHANGED <<crit_wait, pc, at, ints>>
      BY <1>3 DEF FreeCrit
    <2> QED BY <1>a, <2>1, FlagsOfOthers DEF Types, Flags
  <1> QED BY <1>1, <1>2, <1>3 DEF Teardown

-----------------------------------------------------------------------------
(* Safe, one step at a time, the task that takes it being unharmed.        *)

(* A step that leaves the locks as they are, and moves the task between    *)
(* places where it neither records nor releases a lock.                    *)
LEMMA PlaceSafe ==
    ASSUME Types, Safe, NEW p \in Procs, Unharmed(p), UNCHANGED kill, NEW s \in {"run", "wait", "spin", "spinirq"},
           pc[p] \notin {"own", "leave", "dying", "dead"},
           pc' = [pc EXCEPT ![p] = s],
           \A q \in Procs \ {p} : at'[q] = at[q],
           UNCHANGED <<busy, wait, depth>>
    PROVE  Safe'
  <1>0. /\ CountsNat /\ CountsEntries /\ OwnsInside /\ BetweenOwns /\ DeadOutside /\ FreeCountsZero
        /\ NoProc \notin Procs
    BY CritAssumption DEF Safe
  <1>1. CountsNat'
    BY <1>0 DEF Types, CountsNat
  <1>2. CountsEntries'
    BY <1>0 DEF Types, CountsEntries, Unharmed, Inside
  <1>3. OwnsInside'
    BY <1>0 DEF Types, OwnsInside, Alive, Unharmed, Between, Inside
  <1>4. BetweenOwns'
    BY <1>0 DEF Types, BetweenOwns, Alive, Unharmed
  <1>5. DeadOutside'
    BY <1>0 DEF Types, DeadOutside
  <1>6. FreeCountsZero'
    BY <1>0 DEF Types, FreeCountsZero
  <1> QED BY <1>1, <1>2, <1>3, <1>4, <1>5, <1>6 DEF Safe

(* A recursive entry, by either function. *)
Reentered(p, l) ==
    /\ pc[p] = "run" /\ busy[l] = p
    /\ wait' = [wait EXCEPT ![l] = @ + 1]
    /\ depth' = [depth EXCEPT ![<<p, l>>] = @ + 1]
    /\ UNCHANGED <<busy, pc, at>>

LEMMA ReenteredSafe ==
    ASSUME Types, Safe, NEW p \in Procs, Unharmed(p), UNCHANGED kill, NEW l \in Locks, Reentered(p, l)
    PROVE  Safe'
  <1>0. /\ CountsNat /\ CountsEntries /\ OwnsInside /\ BetweenOwns /\ DeadOutside /\ FreeCountsZero
        /\ NoProc \notin Procs
    BY CritAssumption DEF Safe
  <1>a. /\ pc[p] = "run" /\ busy[l] = p
        /\ wait' = [wait EXCEPT ![l] = @ + 1]
        /\ depth' = [depth EXCEPT ![<<p, l>>] = @ + 1]
        /\ UNCHANGED <<busy, pc, at>>
    BY DEF Reentered
  <1>b. Inside(p, l) /\ wait[l] = depth[<<p, l>>]
    BY <1>0, <1>a DEF OwnsInside, CountsEntries, Alive, Between
  <1>1. CountsNat'
    BY <1>0, <1>a, <1>b DEF Types, CountsNat
  <1>2. CountsEntries'
    BY <1>0, <1>a, <1>b DEF Types, CountsEntries, Unharmed, Inside
  <1>3. OwnsInside'
    BY <1>0, <1>a, <1>b DEF Types, OwnsInside, Alive, Unharmed, Between, Inside
  <1>4. BetweenOwns'
    BY <1>0, <1>a, <1>b DEF Types, BetweenOwns, Alive, Unharmed
  <1>5. DeadOutside'
    BY <1>0, <1>a, <1>b DEF Types, DeadOutside
  <1>6. FreeCountsZero'
    BY <1>0, <1>a, <1>b DEF Types, FreeCountsZero
  <1> QED BY <1>1, <1>2, <1>3, <1>4, <1>5, <1>6 DEF Safe

LEMMA AcquireSafe ==
    ASSUME Types, Safe, NEW p \in Procs, Unharmed(p), UNCHANGED kill, Acquire(p)
    PROVE  Safe'
  <1>0. /\ CountsNat /\ CountsEntries /\ OwnsInside /\ BetweenOwns /\ DeadOutside /\ FreeCountsZero
        /\ NoProc \notin Procs
    BY CritAssumption DEF Safe
  <1>a. /\ at[p] \in Locks /\ pc[p] = "spin" /\ busy[at[p]] = NoProc
        /\ busy' = [busy EXCEPT ![at[p]] = p]
        /\ pc' = [pc EXCEPT ![p] = "own"]
        /\ UNCHANGED <<wait, at, depth>>
    BY DEF Acquire, IsFree, Types
  <1>b. wait[at[p]] = 0 /\ depth[<<p, at[p]>>] = 0
    BY <1>0, <1>a DEF FreeCountsZero, CountsEntries, Inside, Types
  <1>1. CountsNat'
    BY <1>0, <1>a, <1>b DEF Types, CountsNat
  <1>2. CountsEntries'
    BY <1>0, <1>a, <1>b DEF Types, CountsEntries, Unharmed, Inside
  <1>3. OwnsInside'
    BY <1>0, <1>a, <1>b DEF Types, OwnsInside, Alive, Unharmed, Between, Inside
  <1>4. BetweenOwns'
    <2>1. \A q \in Procs \ {p} : Alive(q) /\ pc[q] \in {"own", "leave"} => at[q] # at[p]
      BY <1>0, <1>a DEF BetweenOwns
    <2>2. \A q \in Procs \ {p} : (Alive(q))' = Alive(q) /\ pc'[q] = pc[q] /\ at'[q] = at[q]
      BY <1>a DEF Types, Alive, Unharmed
    <2>3. \A q \in Procs \ {p} : Alive(q) /\ pc[q] \in {"own", "leave"} =>
            busy'[at[q]] = q /\ wait[at[q]] = 0 /\ depth[<<q, at[q]>>] = 0
      BY <1>0, <1>a, <2>1 DEF Types, BetweenOwns
    <2>4. pc'[p] = "own" /\ busy'[at[p]] = p
      BY <1>a DEF Types
    <2> QED BY <1>a, <1>b, <2>2, <2>3, <2>4 DEF BetweenOwns
  <1>5. DeadOutside'
    BY <1>0, <1>a, <1>b DEF Types, DeadOutside
  <1>6. FreeCountsZero'
    BY <1>0, <1>a, <1>b DEF Types, FreeCountsZero
  <1> QED BY <1>1, <1>2, <1>3, <1>4, <1>5, <1>6 DEF Safe

LEMMA RecordSafe ==
    ASSUME Types, Safe, NEW p \in Procs, Unharmed(p), UNCHANGED kill, Record(p)
    PROVE  Safe'
  <1>0. /\ CountsNat /\ CountsEntries /\ OwnsInside /\ BetweenOwns /\ DeadOutside /\ FreeCountsZero
        /\ NoProc \notin Procs
    BY CritAssumption DEF Safe
  <1>a. /\ at[p] \in Locks /\ pc[p] = "own"
        /\ wait' = [wait EXCEPT ![at[p]] = 1]
        /\ depth' = [depth EXCEPT ![<<p, at[p]>>] = @ + 1]
        /\ pc' = [pc EXCEPT ![p] = "run"]
        /\ UNCHANGED <<busy, at>>
    BY DEF Record, Types
  <1>b. busy[at[p]] = p /\ wait[at[p]] = 0 /\ depth[<<p, at[p]>>] = 0
    BY <1>0, <1>a DEF BetweenOwns, Alive
  <1>1. CountsNat'
    BY <1>0, <1>a, <1>b DEF Types, CountsNat
  <1>2. CountsEntries'
    BY <1>0, <1>a, <1>b DEF Types, CountsEntries, Unharmed, Inside
  <1>3. OwnsInside'
    BY <1>0, <1>a, <1>b DEF Types, OwnsInside, Alive, Unharmed, Between, Inside
  <1>4. BetweenOwns'
    BY <1>0, <1>a, <1>b DEF Types, BetweenOwns, Alive, Unharmed
  <1>5. DeadOutside'
    BY <1>0, <1>a, <1>b DEF Types, DeadOutside
  <1>6. FreeCountsZero'
    BY <1>0, <1>a, <1>b DEF Types, FreeCountsZero
  <1> QED BY <1>1, <1>2, <1>3, <1>4, <1>5, <1>6 DEF Safe

(* The pass of sync_entercrit_irqsave that gets the lock. *)
Taken(p, l) ==
    /\ pc[p] \in {"run", "spinirq"} /\ busy[l] = NoProc
    /\ busy' = [busy EXCEPT ![l] = p]
    /\ wait' = [wait EXCEPT ![l] = 1]
    /\ depth' = [depth EXCEPT ![<<p, l>>] = @ + 1]
    /\ pc' = [pc EXCEPT ![p] = "run"]
    /\ UNCHANGED at

LEMMA TakenSafe ==
    ASSUME Types, Safe, NEW p \in Procs, Unharmed(p), UNCHANGED kill, NEW l \in Locks, Taken(p, l)
    PROVE  Safe'
  <1>0. /\ CountsNat /\ CountsEntries /\ OwnsInside /\ BetweenOwns /\ DeadOutside /\ FreeCountsZero
        /\ NoProc \notin Procs
    BY CritAssumption DEF Safe
  <1>a. /\ pc[p] \in {"run", "spinirq"} /\ busy[l] = NoProc
        /\ busy' = [busy EXCEPT ![l] = p]
        /\ wait' = [wait EXCEPT ![l] = 1]
        /\ depth' = [depth EXCEPT ![<<p, l>>] = @ + 1]
        /\ pc' = [pc EXCEPT ![p] = "run"]
        /\ UNCHANGED at
    BY DEF Taken
  <1>b. depth[<<p, l>>] = 0
    <2>1. busy[l] # p /\ depth[<<p, l>>] \in Nat
      BY <1>0, <1>a DEF Types
    <2> QED BY <1>0, <2>1 DEF CountsEntries, Inside
  <1>1. CountsNat'
    BY <1>0, <1>a, <1>b DEF Types, CountsNat
  <1>2. CountsEntries'
    BY <1>0, <1>a, <1>b DEF Types, CountsEntries, Unharmed, Inside
  <1>3. OwnsInside'
    BY <1>0, <1>a, <1>b DEF Types, OwnsInside, Alive, Unharmed, Between, Inside
  <1>4. BetweenOwns'
    BY <1>0, <1>a, <1>b DEF Types, BetweenOwns, Alive, Unharmed
  <1>5. DeadOutside'
    BY <1>0, <1>a, <1>b DEF Types, DeadOutside
  <1>6. FreeCountsZero'
    BY <1>0, <1>a, <1>b DEF Types, FreeCountsZero
  <1> QED BY <1>1, <1>2, <1>3, <1>4, <1>5, <1>6 DEF Safe

LEMMA LeaveSafe ==
    ASSUME Types, Safe, NEW p \in Procs, Unharmed(p), UNCHANGED kill, NEW l \in Locks, Leave(p, l)
    PROVE  Safe'
  <1>0. /\ CountsNat /\ CountsEntries /\ OwnsInside /\ BetweenOwns /\ DeadOutside /\ FreeCountsZero
        /\ NoProc \notin Procs
    BY CritAssumption DEF Safe
  <1>a. pc[p] = "run" /\ depth[<<p, l>>] > 0 /\ busy[l] = p /\ wait[l] = depth[<<p, l>>]
    BY <1>0 DEF Leave, Inside, CountsEntries
  <1>b. /\ wait' = [wait EXCEPT ![l] = @ - 1]
        /\ depth' = [depth EXCEPT ![<<p, l>>] = @ - 1]
        /\ UNCHANGED busy
    BY <1>a DEF Leave, Owns
  <1>c. \A q \in Procs \ {p} : Unharmed(q) => depth[<<q, l>>] = 0
    BY <1>0, <1>a DEF Types, CountsEntries, Inside
  <1>d. \A q \in Procs \ {p} : Alive(q) /\ pc[q] \in {"own", "leave"} => at[q] # l
    BY <1>0, <1>a DEF BetweenOwns
  <1>1. CASE wait[l] = 1
    <2>a. pc' = [pc EXCEPT ![p] = "leave"] /\ at' = [at EXCEPT ![p] = l]
      BY <1>1, <1>a DEF Leave, Owns
    <2>1. CountsNat'
      BY <1>0, <1>1, <1>a, <1>b, <2>a DEF Types, CountsNat
    <2>2. CountsEntries'
      BY <1>0, <1>a, <1>b, <1>c DEF Types, CountsEntries, Unharmed, Inside
    <2>3. OwnsInside'
      BY <1>0, <1>1, <1>a, <1>b, <2>a DEF Types, OwnsInside, Alive, Unharmed, Between, Inside
    <2>4. BetweenOwns'
      BY <1>0, <1>1, <1>a, <1>b, <1>d, <2>a DEF Types, BetweenOwns, Alive, Unharmed
    <2>5. DeadOutside'
      BY <1>0, <1>1, <1>a, <1>b, <2>a DEF Types, DeadOutside
    <2>6. FreeCountsZero'
      BY <1>0, <1>1, <1>a, <1>b, <2>a DEF Types, FreeCountsZero
    <2> QED BY <2>1, <2>2, <2>3, <2>4, <2>5, <2>6 DEF Safe
  <1>2. CASE wait[l] # 1
    <2>a. UNCHANGED <<pc, at>>
      BY <1>2 DEF Leave
    <2>1. CountsNat'
      BY <1>0, <1>2, <1>a, <1>b, <2>a DEF Types, CountsNat
    <2>2. CountsEntries'
      BY <1>0, <1>a, <1>b, <1>c DEF Types, CountsEntries, Unharmed, Inside
    <2>3. OwnsInside'
      BY <1>0, <1>2, <1>a, <1>b, <2>a DEF Types, OwnsInside, Alive, Unharmed, Between, Inside
    <2>4. BetweenOwns'
      BY <1>0, <1>a, <1>b, <1>d, <2>a DEF Types, BetweenOwns, Alive, Unharmed
    <2>5. DeadOutside'
      BY <1>0, <1>2, <1>a, <1>b, <2>a DEF Types, DeadOutside
    <2>6. FreeCountsZero'
      BY <1>0, <1>2, <1>a, <1>b, <2>a DEF Types, FreeCountsZero
    <2> QED BY <2>1, <2>2, <2>3, <2>4, <2>5, <2>6 DEF Safe
  <1> QED BY <1>1, <1>2

LEMMA ReleaseSafe ==
    ASSUME Types, Safe, NEW p \in Procs, Unharmed(p), UNCHANGED kill, Release(p)
    PROVE  Safe'
  <1>0. /\ CountsNat /\ CountsEntries /\ OwnsInside /\ BetweenOwns /\ DeadOutside /\ FreeCountsZero
        /\ NoProc \notin Procs
    BY CritAssumption DEF Safe
  <1>a. /\ at[p] \in Locks /\ pc[p] = "leave"
        /\ busy' = [busy EXCEPT ![at[p]] = NoProc]
        /\ pc' = [pc EXCEPT ![p] = "run"]
        /\ UNCHANGED <<wait, at, depth>>
    BY DEF Release, Types
  <1>b. busy[at[p]] = p /\ wait[at[p]] = 0 /\ depth[<<p, at[p]>>] = 0
    BY <1>0, <1>a DEF BetweenOwns, Alive
  <1>c. \A q \in Procs \ {p} : Alive(q) /\ pc[q] \in {"own", "leave"} => at[q] # at[p]
    BY <1>0, <1>b DEF BetweenOwns
  <1>1. CountsNat'
    BY <1>0, <1>a, <1>b DEF Types, CountsNat
  <1>2. CountsEntries'
    BY <1>0, <1>a, <1>b DEF Types, CountsEntries, Unharmed, Inside
  <1>3. OwnsInside'
    BY <1>0, <1>a, <1>b DEF Types, OwnsInside, Alive, Unharmed, Between, Inside
  <1>4. BetweenOwns'
    BY <1>0, <1>a, <1>c DEF Types, BetweenOwns, Alive, Unharmed
  <1>5. DeadOutside'
    BY <1>0, <1>a, <1>b DEF Types, DeadOutside
  <1>6. FreeCountsZero'
    BY <1>0, <1>a, <1>b DEF Types, FreeCountsZero
  <1> QED BY <1>1, <1>2, <1>3, <1>4, <1>5, <1>6 DEF Safe

LEMMA ExitSafe ==
    ASSUME Types, Safe, NEW p \in Procs, Unharmed(p), UNCHANGED kill, Exit(p)
    PROVE  Safe'
  <1>0. /\ CountsNat /\ CountsEntries /\ OwnsInside /\ BetweenOwns /\ DeadOutside /\ FreeCountsZero
        /\ NoProc \notin Procs
    BY CritAssumption DEF Safe
  <1>a. /\ pc' = [pc EXCEPT ![p] = "dying"]
        /\ depth' = [x \in Procs \X Locks |-> IF x[1] = p THEN 0 ELSE depth[x]]
        /\ UNCHANGED <<busy, wait, at>>
    BY DEF Exit
  <1>b. \A q \in Procs : \A l \in Locks :
            depth'[<<q, l>>] = IF q = p THEN 0 ELSE depth[<<q, l>>]
    BY <1>a
  <1>1. CountsNat'
    BY <1>0, <1>a, <1>b DEF Types, CountsNat
  <1>2. CountsEntries'
    BY <1>0, <1>a, <1>b DEF Types, CountsEntries, Unharmed, Inside
  <1>3. OwnsInside'
    BY <1>0, <1>a, <1>b DEF Types, OwnsInside, Alive, Unharmed, Between, Inside
  <1>4. BetweenOwns'
    BY <1>0, <1>a, <1>b DEF Types, BetweenOwns, Alive, Unharmed
  <1>5. DeadOutside'
    BY <1>0, <1>a, <1>b DEF Types, DeadOutside
  <1>6. FreeCountsZero'
    BY <1>0, <1>a, <1>b DEF Types, FreeCountsZero
  <1> QED BY <1>1, <1>2, <1>3, <1>4, <1>5, <1>6 DEF Safe

(* The steps of kill_process. A task that is being killed is outside what  *)
(* Safe says of the unharmed ones.                                         *)
LEMMA KillSafe ==
    ASSUME Types, Safe, NEW p \in Procs, KillTest(p) \/ KillSwept(p)
    PROVE  Safe'
  <1>0. /\ CountsNat /\ CountsEntries /\ OwnsInside /\ BetweenOwns /\ DeadOutside /\ FreeCountsZero
        /\ NoProc \notin Procs
    BY CritAssumption DEF Safe
  <1>a. /\ UNCHANGED <<busy, wait, pc, at, depth>>
        /\ \A q \in Procs : (Unharmed(q))' => Unharmed(q)
    BY DEF KillTest, KillSwept, Types, Unharmed
  <1>1. CountsNat'
    BY <1>0, <1>a DEF Types, CountsNat
  <1>2. CountsEntries'
    BY <1>0, <1>a DEF Types, CountsEntries, Inside
  <1>3. OwnsInside'
    BY <1>0, <1>a DEF Types, OwnsInside, Alive, Between, Inside
  <1>4. BetweenOwns'
    BY <1>0, <1>a DEF Types, BetweenOwns, Alive
  <1>5. DeadOutside'
    BY <1>0, <1>a DEF Types, DeadOutside
  <1>6. FreeCountsZero'
    BY <1>0, <1>a DEF Types, FreeCountsZero
  <1> QED BY <1>1, <1>2, <1>3, <1>4, <1>5, <1>6 DEF Safe

LEMMA DeadSafe ==
    ASSUME Types, Safe, NEW p \in Procs, Dead(p)
    PROVE  Safe'
  <1>0. /\ CountsNat /\ CountsEntries /\ OwnsInside /\ BetweenOwns /\ DeadOutside /\ FreeCountsZero
        /\ NoProc \notin Procs
    BY CritAssumption DEF Safe
  <1>a. /\ pc' = [pc EXCEPT ![p] = "dead"]
        /\ depth' = [x \in Procs \X Locks |-> IF x[1] = p THEN 0 ELSE depth[x]]
        /\ UNCHANGED <<busy, wait, at, kill>>
    BY DEF Dead
  <1>b. \A q \in Procs : \A l \in Locks :
            depth'[<<q, l>>] = IF q = p THEN 0 ELSE depth[<<q, l>>]
    BY <1>a
  <1>1. CountsNat'
    BY <1>0, <1>a, <1>b DEF Types, CountsNat
  <1>2. CountsEntries'
    BY <1>0, <1>a, <1>b DEF Types, CountsEntries, Unharmed, Inside
  <1>3. OwnsInside'
    BY <1>0, <1>a, <1>b DEF Types, OwnsInside, Alive, Unharmed, Between, Inside
  <1>4. BetweenOwns'
    BY <1>0, <1>a, <1>b DEF Types, BetweenOwns, Alive, Unharmed
  <1>5. DeadOutside'
    BY <1>0, <1>a, <1>b DEF Types, DeadOutside
  <1>6. FreeCountsZero'
    BY <1>0, <1>a, <1>b DEF Types, FreeCountsZero
  <1> QED BY <1>1, <1>2, <1>3, <1>4, <1>5, <1>6 DEF Safe

(* The sweep frees a lock of a task that is dying, or off its CPU for      *)
(* good: no unharmed task is inside it.                                    *)
LEMMA FreeCritSafe ==
    ASSUME Types, Safe, NEW p \in Procs, NEW l \in Locks, FreeCrit(p, l)
    PROVE  Safe'
  <1>0. /\ CountsNat /\ CountsEntries /\ OwnsInside /\ BetweenOwns /\ DeadOutside /\ FreeCountsZero
        /\ NoProc \notin Procs
    BY CritAssumption DEF Safe
  <1>a. /\ busy[l] = p
        /\ wait' = [wait EXCEPT ![l] = 0]
        /\ busy' = [busy EXCEPT ![l] = NoProc]
        /\ UNCHANGED <<pc, at, kill, depth>>
    BY DEF FreeCrit, Owns
  <1>b. ~Alive(p)
    BY DEF FreeCrit, Sweeps, Alive, Unharmed
  <1>c. \A q \in Procs : Unharmed(q) => depth[<<q, l>>] = 0
    <2>1. ASSUME NEW q \in Procs, Unharmed(q), q # p PROVE depth[<<q, l>>] = 0
      BY <1>0, <1>a, <2>1 DEF Types, CountsEntries, Inside
    <2>2. Unharmed(p) => depth[<<p, l>>] = 0
      BY <1>0, <1>b DEF DeadOutside, Alive
    <2> QED BY <2>1, <2>2
  <1>d. \A q \in Procs : Alive(q) /\ pc[q] \in {"own", "leave"} => at[q] # l
    BY <1>0, <1>a, <1>b DEF BetweenOwns
  <1>1. CountsNat'
    BY <1>0, <1>a DEF Types, CountsNat
  <1>2. CountsEntries'
    BY <1>0, <1>a, <1>c DEF Types, CountsEntries, Unharmed, Inside
  <1>3. OwnsInside'
    BY <1>0, <1>a DEF Types, OwnsInside, Alive, Unharmed, Between, Inside
  <1>4. BetweenOwns'
    BY <1>0, <1>a, <1>d DEF Types, BetweenOwns, Alive, Unharmed
  <1>5. DeadOutside'
    BY <1>0, <1>a DEF Types, DeadOutside
  <1>6. FreeCountsZero'
    BY <1>0, <1>a DEF Types, FreeCountsZero
  <1> QED BY <1>1, <1>2, <1>3, <1>4, <1>5, <1>6 DEF Safe

LEMMA StepSafe ==
    ASSUME Types, Safe, NEW p \in Procs, Step(p), reloaded' = {}
    PROVE  Safe' /\ reloaded = {} /\ Unharmed(p) /\ UNCHANGED kill
  <1>a. reloaded = {} /\ Unharmed(p) /\ UNCHANGED kill
    BY DEF Step, Unharmed
  <1>1. CASE Acquire(p) BY <1>a, <1>1, AcquireSafe
  <1>2. CASE Record(p) BY <1>a, <1>2, RecordSafe
  <1>3. CASE Release(p) BY <1>a, <1>3, ReleaseSafe
  <1>4. CASE EndWait(p) BY <1>a, <1>4, PlaceSafe DEF EndWait
  <1>5. CASE Exit(p) BY <1>a, <1>5, ExitSafe
  <1>6. ASSUME NEW l \in Locks, Enter(p, l) PROVE Safe'
    <2>1. CASE Owns(p, l)
      <3>1. Reentered(p, l)
        BY <1>6, <2>1 DEF Enter, MayEnter, Owns, Deeper, Reentered
      <3> QED BY <1>a, <3>1, ReenteredSafe
    <2>2. CASE ~Owns(p, l)
      <3>1. /\ pc[p] = "run" /\ pc' = [pc EXCEPT ![p] = "spin"] /\ at' = [at EXCEPT ![p] = l]
            /\ UNCHANGED <<busy, wait, depth>>
        BY <1>6, <2>2 DEF Enter, MayEnter
      <3> QED BY <1>a, <3>1, PlaceSafe DEF Types
    <2> QED BY <2>1, <2>2
  <1>7. ASSUME NEW l \in Locks, EnterIrq(p, l) PROVE Safe'
    <2>0. pc[p] \in {"run", "spinirq"}
      BY <1>7 DEF EnterIrq, MayEnter
    <2>1. CASE IsFree(l)
      <3>1. Taken(p, l)
        BY <1>7, <2>0, <2>1 DEF EnterIrq, IsFree, Taken
      <3> QED BY <1>a, <3>1, TakenSafe
    <2>2. CASE ~IsFree(l)
      <3>1. /\ pc' = [pc EXCEPT ![p] = "spinirq"] /\ at' = [at EXCEPT ![p] = l]
            /\ UNCHANGED <<busy, wait, depth>>
        BY <1>7, <2>2 DEF EnterIrq
      <3> QED BY <1>a, <2>0, <3>1, PlaceSafe DEF Types
    <2> QED BY <2>1, <2>2
  <1>8. ASSUME NEW l \in Locks, ReenterIrq(p, l) PROVE Safe'
    <2>1. Reentered(p, l)
      BY <1>8 DEF ReenterIrq, MayEnter, Owns, Deeper, Reentered
    <2> QED BY <1>a, <2>1, ReenteredSafe
  <1>9. ASSUME NEW l \in Locks, Leave(p, l) PROVE Safe' BY <1>a, <1>9, LeaveSafe
  <1>10. ASSUME NEW l \in Locks, StartWait(p, l) PROVE Safe'
    BY <1>a, <1>10, PlaceSafe DEF StartWait, Types
  <1> QED BY <1>a, <1>1, <1>2, <1>3, <1>4, <1>5, <1>6, <1>7, <1>8, <1>9, <1>10 DEF Step

LEMMA TeardownSafe ==
    ASSUME Types, Safe, NEW p \in Procs, Teardown(p)
    PROVE  Safe'
  <1>1. CASE KillTest(p) \/ KillSwept(p) BY <1>1, KillSafe
  <1>2. CASE Dead(p) BY <1>2, DeadSafe
  <1>3. ASSUME NEW l \in Locks, FreeCrit(p, l) PROVE Safe' BY <1>3, FreeCritSafe
  <1> QED BY <1>1, <1>2, <1>3 DEF Teardown

LEMMA NextInv ==
    ASSUME IInv, [Next]_vars
    PROVE  IInv'
  <1>0. Types /\ Flags /\ (reloaded = {} => Safe)
    BY DEF IInv
  <1>1. CASE UNCHANGED vars
    <2>1. UNCHANGED <<busy, wait, held, crit_wait, pc, at, ints, flags, kill, depth, ifwas, reloaded>>
      BY <1>1 DEF vars
    <2>2. Types' /\ Flags'
      BY <1>0, <2>1 DEF Types, Flags
    <2>3. Safe => Safe'
      BY <2>1 DEF Safe, CountsNat, CountsEntries, OwnsInside, BetweenOwns, DeadOutside,
                  FreeCountsZero, Unharmed, Alive, Between, Inside
    <2> QED BY <1>0, <2>1, <2>2, <2>3 DEF IInv
  <1>2. ASSUME NEW p \in Procs, Step(p) PROVE IInv'
    <2>1. Types' /\ Flags'
      BY <1>0, <1>2, StepTypes, StepFlags
    <2>2. reloaded' = {} => reloaded = {}
      BY <1>2 DEF Step
    <2>3. reloaded' = {} => Safe'
      BY <1>0, <1>2, <2>2, StepSafe
    <2> QED BY <2>1, <2>3 DEF IInv
  <1>3. ASSUME NEW p \in Procs, Teardown(p) PROVE IInv'
    <2>1. Types' /\ Flags'
      BY <1>0, <1>3, TeardownTypes, TeardownFlags
    <2>2. reloaded' = reloaded
      BY <1>3 DEF Teardown
    <2> QED BY <1>0, <1>3, <2>1, <2>2, TeardownSafe DEF IInv
  <1> QED BY <1>1, <1>2, <1>3 DEF Next

(* The inductive invariant of the locks of sync.c: types and waiter flags  *)
(* throughout, and until a CPU loads a task that is being killed, who owns *)
(* and who is inside each lock, and what wait counts.                      *)
THEOREM CritInvariant == Spec => []IInv
  BY InitInv, NextInv, PTL DEF Spec

(* The state keeps its shape; in particular wait never falls below zero    *)
(* as long as no CPU loads a task that is being killed.                    *)
THEOREM CritTypeCorrect == Spec => []TypeOK
  <1>1. IInv => TypeOK
    BY DEF IInv, TypeOK, Safe, CountsNat
  <1> QED BY <1>1, CritInvariant, PTL

(* wait is the number of leaves the owner still owes, as long as no CPU    *)
(* loads a task between kill_process's test of on_cpu and its dequeue.     *)
THEOREM CritCountExact == Spec => []CountExact
  <1>1. IInv => CountExact
    <2> SUFFICES ASSUME IInv, reloaded = {}, NEW l \in Locks, NEW p \in Executing, Inside(p, l)
                 PROVE  busy[l] = p /\ wait[l] = depth[<<p, l>>]
      BY DEF CountExact
    <2>1. p \in Procs /\ Unharmed(p)
      BY DEF Executing, Unharmed
    <2> QED BY <2>1 DEF IInv, Safe, CountsEntries
  <1> QED BY <1>1, CritInvariant, PTL

(* sync_entercrit and sync_leavecrit keep two tasks out of one critical    *)
(* section, for any number of tasks and locks, any recursion, and whatever *)
(* tasks exit or are killed inside it, as long as no CPU loads a task      *)
(* between kill_process's test of on_cpu and its dequeue.                  *)
THEOREM CritMutualExclusion == Spec => []MutualExclusion
  <1>1. CountExact => MutualExclusion
    BY DEF CountExact, MutualExclusion, Exclusion
  <1> QED BY <1>1, CritCountExact, PTL

(* Wherever it can be preempted, the owner of a lock is flagged as a       *)
(* waiter for it in sync_justwait only, however tasks die or are reloaded. *)
THEOREM CritFlaggedOwner == Spec => []FlaggedOwnerJustWaits
  <1>1. IInv => FlaggedOwnerJustWaits
    <2> SUFFICES ASSUME IInv, NEW p \in Procs, NEW l \in Locks,
                        crit_wait[p] = l, busy[l] = p, ~Masked(p)
                 PROVE  pc[p] \in {"wait", "dying"}
      BY DEF FlaggedOwnerJustWaits
    <2>1. crit_wait[p] # NoLock
      BY CritAssumption DEF Locks, NoLock
    <2>2. pc[p] \in {"wait", "spin", "own", "dying"}
      BY <2>1 DEF IInv, Flags
    <2>3. pc[p] # "spin" /\ pc[p] # "own"
      BY DEF IInv, Flags, Masked
    <2> QED BY <2>2, <2>3
  <1> QED BY <1>1, CritInvariant, PTL
====
