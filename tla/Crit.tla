-------------------------------- MODULE Crit --------------------------------
(***************************************************************************)
(* Critical sections: the recursive, owner-token locks (sync_sharedvar) of *)
(* kernel/process/sync.c, which guard almost every shared structure of the *)
(* kernel, and the sweep that frees the locks of a task that dies          *)
(* (kernel/process/process.c, kill_process).                               *)
(*                                                                         *)
(* busy holds the owner's token, wait the recursion depth, held_crits what *)
(* the scheduler's pin and the sweep know of a task's locks. Tasks run in  *)
(* any interleaving: each on a CPU of its own, or preempted. A task dies   *)
(* on its own CPU (self_exit_current) or by kill_process on another, which *)
(* tests that the task is off its CPU, sweeps its locks and dequeues it in *)
(* separate steps: a CPU may load the task in between, and it runs on.     *)
(*                                                                         *)
(* A task's token is its own throughout (the leftover-current repairs of   *)
(* crit_nest_pop are left out). Callers take distinct locks in ascending   *)
(* order, leave them in any, and nest the irqsave sections properly.       *)
(***************************************************************************)
EXTENDS Integers, FiniteSets

CONSTANTS
    Procs,
    NLocks,
    HoldMax,     \* the size of held_crits (16)
    MaxDepth,    \* bound: recursion explored
    IrqLocks,    \* the locks taken with sync_entercrit_irqsave (kheap_crit)
    Exits,       \* the tasks that exit, by themselves or when asked to
    Killable,    \* the tasks that kill_process may find off their CPU
    NoProc

ASSUME CritAssumption ==
    /\ {NLocks, HoldMax, MaxDepth} \subseteq Nat \ {0}
    /\ NoProc \notin Procs
    /\ Exits \cup Killable \subseteq Procs
    /\ IrqLocks \subseteq 1 .. NLocks

Locks == 1 .. NLocks
NoLock == 0

VARIABLES
    busy,        \* the owner of each lock
    wait,        \* its recursion depth
    held,        \* held_crits of each task
    crit_wait,   \* crit_wait_var: the lock a task spins for
    pc,          \* where each task is
    at,          \* the lock a task is entering or leaving
    ints,        \* the interrupt flag of the CPU, as the task sees it
    flags,       \* the interrupt flag saved by each acquisition, for its restore
    kill,        \* how far kill_process is with each task
    depth,       \* history: entries minus leaves of each task and lock
    ifwas,       \* history: the interrupt flag before sync_entercrit_irqsave
    reloaded     \* history: the tasks loaded again while they were being killed

vars == <<busy, wait, held, crit_wait, pc, at, ints, flags, kill, depth, ifwas, reloaded>>

Inside(p, l) == depth[<<p, l>>] > 0

(* Mutant: sync_track_hold never uses its last slot. *)
TrackOneLess(H, l) == IF Cardinality(H) + 1 < HoldMax THEN H \cup {l} ELSE H

(* sync_track_hold: a lock past the last slot is not recorded. *)
Track(H, l) == IF Cardinality(H) < HoldMax THEN H \cup {l} ELSE H

(* Mutant: the depth is taken for the owner. *)
NobodyCounted(l) == wait[l] = 0

(* The compare-and-swap of an acquisition succeeds. *)
IsFree(l) == busy[l] = NoProc

(* busy carries the task's own token. *)
Owns(p, l) == busy[l] = p

(* Mutant: a recursive entry is not counted. *)
RecursionLost(l) == wait

(* Mutant: a recursive entry counts the wrong way. *)
RecursionUndone(l) == [wait EXCEPT ![l] = @ - 1]

(* A recursive entry. *)
Deeper(l) == [wait EXCEPT ![l] = @ + 1]

(* The calling discipline. *)
MayEnter(p, l) ==
    /\ pc[p] = "run"
    /\ depth[<<p, l>>] < MaxDepth
    /\ \A k \in Locks : Inside(p, k) => k <= l

(* sync_justwait: wait until nobody else is inside, without entering. *)
StartWait(p, l) ==
    /\ pc[p] = "run"
    /\ \A k \in Locks : Inside(p, k) => k <= l
    /\ crit_wait' = [crit_wait EXCEPT ![p] = l]
    /\ pc' = [pc EXCEPT ![p] = "wait"]
    /\ at' = [at EXCEPT ![p] = l]
    /\ UNCHANGED <<busy, wait, held, ints, flags, depth, ifwas>>

EndWait(p) ==
    /\ pc[p] = "wait"
    /\ IsFree(at[p]) \/ Owns(p, at[p])
    /\ crit_wait' = [crit_wait EXCEPT ![p] = NoLock]
    /\ pc' = [pc EXCEPT ![p] = "run"]
    /\ UNCHANGED <<busy, wait, held, at, ints, flags, depth, ifwas>>

(* sync_entercrit: the recursive entry, or the start of the spin. *)
Enter(p, l) ==
    /\ MayEnter(p, l) /\ l \notin IrqLocks
    /\ IF Owns(p, l)
       THEN /\ wait' = Deeper(l)
            /\ depth' = [depth EXCEPT ![<<p, l>>] = @ + 1]
            /\ UNCHANGED <<crit_wait, pc, at>>
       ELSE /\ crit_wait' = [crit_wait EXCEPT ![p] = l]
            /\ pc' = [pc EXCEPT ![p] = "spin"]
            /\ at' = [at EXCEPT ![p] = l]
            /\ UNCHANGED <<wait, depth>>
    /\ UNCHANGED <<busy, held, ints, flags, ifwas>>

(* Mutant: the owner can be preempted before it has recorded the lock. *)
AcquireUnmasked(p) ==
    /\ pc[p] = "spin"
    /\ IsFree(at[p])
    /\ busy' = [busy EXCEPT ![at[p]] = p]
    /\ flags' = [flags EXCEPT ![<<p, at[p]>>] = ints[p]]
    /\ pc' = [pc EXCEPT ![p] = "own"]
    /\ UNCHANGED <<wait, held, crit_wait, at, ints, depth, ifwas>>

(* The pass of the spin that gets the lock: interrupts are turned off and  *)
(* the task becomes owner ...                                              *)
Acquire(p) ==
    /\ pc[p] = "spin"
    /\ IsFree(at[p])
    /\ busy' = [busy EXCEPT ![at[p]] = p]
    /\ flags' = [flags EXCEPT ![<<p, at[p]>>] = ints[p]]
    /\ ints' = [ints EXCEPT ![p] = FALSE]
    /\ pc' = [pc EXCEPT ![p] = "own"]
    /\ UNCHANGED <<wait, held, crit_wait, at, depth, ifwas>>

(* ... then it stops being a waiter and is recorded as a holder, and       *)
(* interrupts are as before.                                               *)
Record(p) ==
    LET l == at[p]
    IN  /\ pc[p] = "own"
        /\ crit_wait' = [crit_wait EXCEPT ![p] = NoLock]
        /\ wait' = [wait EXCEPT ![l] = 1]
        /\ held' = [held EXCEPT ![p] = Track(@, l)]
        /\ depth' = [depth EXCEPT ![<<p, l>>] = @ + 1]
        /\ ints' = [ints EXCEPT ![p] = flags[<<p, l>>]]
        /\ flags' = [flags EXCEPT ![<<p, l>>] = FALSE]
        /\ pc' = [pc EXCEPT ![p] = "run"]
        /\ UNCHANGED <<busy, at, ifwas>>

(* One pass of sync_entercrit_irqsave. Each pass saves the flag anew and   *)
(* turns interrupts off; a pass that fails leaves them off.                *)
EnterIrq(p, l) ==
    /\ l \in IrqLocks
    /\ \/ MayEnter(p, l) /\ ~Owns(p, l) /\ ifwas' = [ifwas EXCEPT ![<<p, l>>] = ints[p]]
       \/ pc[p] = "spinirq" /\ at[p] = l /\ UNCHANGED ifwas
    /\ ints' = [ints EXCEPT ![p] = FALSE]
    /\ IF IsFree(l)
       THEN /\ busy' = [busy EXCEPT ![l] = p]
            /\ wait' = [wait EXCEPT ![l] = 1]
            /\ held' = [held EXCEPT ![p] = Track(@, l)]
            /\ flags' = [flags EXCEPT ![<<p, l>>] = ints[p]]
            /\ depth' = [depth EXCEPT ![<<p, l>>] = @ + 1]
            /\ pc' = [pc EXCEPT ![p] = "run"]
            /\ UNCHANGED at
       ELSE /\ pc' = [pc EXCEPT ![p] = "spinirq"]
            /\ at' = [at EXCEPT ![p] = l]
            /\ UNCHANGED <<busy, wait, held, flags, depth>>
    /\ UNCHANGED crit_wait

(* A recursive sync_entercrit_irqsave: interrupts are off already, so the  *)
(* flags it returns have IF clear and its leave will restore nothing.      *)
ReenterIrq(p, l) ==
    /\ MayEnter(p, l) /\ l \in IrqLocks /\ Owns(p, l)
    /\ ints' = [ints EXCEPT ![p] = FALSE]
    /\ wait' = Deeper(l)
    /\ depth' = [depth EXCEPT ![<<p, l>>] = @ + 1]
    /\ UNCHANGED <<busy, held, crit_wait, pc, at, flags, ifwas>>

(* sync_leavecrit up to the release: the last leave takes the lock off     *)
(* held_crits while busy still names the task. A task that busy does not   *)
(* name, its lock having been swept, only has its flags restored.          *)
Leave(p, l) ==
    /\ pc[p] = "run" /\ Inside(p, l)
    /\ \A k \in IrqLocks : Inside(p, k) => k <= l
    /\ depth' = [depth EXCEPT ![<<p, l>>] = @ - 1]
    /\ IF Owns(p, l)
       THEN wait' = [wait EXCEPT ![l] = @ - 1] /\ UNCHANGED ints
       ELSE ints' = [ints EXCEPT ![p] = @ \/ (depth[<<p, l>>] = 1 /\ flags[<<p, l>>])] /\ UNCHANGED wait
    /\ IF Owns(p, l) /\ wait[l] = 1
       THEN /\ held' = [held EXCEPT ![p] = @ \ {l}]
            /\ pc' = [pc EXCEPT ![p] = "leave"]
            /\ at' = [at EXCEPT ![p] = l]
       ELSE UNCHANGED <<held, pc, at>>
    /\ UNCHANGED <<busy, crit_wait, flags, ifwas>>

(* __sync_lock_release, and the sti of sync_leavecrit_irqrestore. *)
Release(p) ==
    /\ pc[p] = "leave"
    /\ busy' = [busy EXCEPT ![at[p]] = NoProc]
    /\ ints' = [ints EXCEPT ![p] = @ \/ (at[p] \in IrqLocks /\ flags[<<p, at[p]>>])]
    /\ flags' = [flags EXCEPT ![<<p, at[p]>>] = FALSE]
    /\ pc' = [pc EXCEPT ![p] = "run"]
    /\ UNCHANGED <<wait, held, crit_wait, at, depth, ifwas>>

-----------------------------------------------------------------------------
(* Death.                                                                  *)

(* self_exit_current, called by exit() or from the timer of the task's own *)
(* CPU: the task gets no further in what it was doing.                     *)
Exit(p) ==
    /\ p \in Exits
    /\ pc[p] \in {"run", "wait", "spin"} \/ (pc[p] = "leave" /\ ints[p])
    /\ pc' = [pc EXCEPT ![p] = "dying"]
    /\ depth' = [x \in Procs \X Locks |-> IF x[1] = p THEN 0 ELSE depth[x]]
    /\ UNCHANGED <<busy, wait, held, crit_wait, at, ints, flags, ifwas>>

(* Where a task can be off its CPU: it blocked or yielded, or the timer    *)
(* took it, which it never does with interrupts off nor from a task that   *)
(* held_crits shows to hold a lock.                                        *)
OffCpu(p) ==
    \/ pc[p] \in {"run", "wait", "spin"}
    \/ pc[p] = "leave" /\ ints[p] /\ held[p] = {}

(* kill_process finds the task off its CPU and latches crits_freed. The    *)
(* task is neither claimed nor marked.                                     *)
KillTest(p) ==
    /\ p \in Killable
    /\ kill[p] = "none" /\ OffCpu(p)
    /\ kill' = [kill EXCEPT ![p] = "sweep"]
    /\ UNCHANGED <<busy, wait, held, crit_wait, pc, at, ints, flags, depth, ifwas>>

(* Mutant: kill_process sweeps without looking at on_cpu. *)
SweepsUntested(p) == p \in Killable \/ pc[p] = "dying"

(* Who sweeps the locks of a task: its killer, or else its own exit. *)
Sweeps(p) == kill[p] = "sweep" \/ (pc[p] = "dying" /\ kill[p] = "none")

(* sync_release_process_crits: one lock of held_crits. Only an owner that  *)
(* is executing could tell the two stores apart.                           *)
FreeCrit(p, l) ==
    /\ Sweeps(p)
    /\ l \in held[p] /\ Owns(p, l)
    /\ wait' = [wait EXCEPT ![l] = 0]
    /\ busy' = [busy EXCEPT ![l] = NoProc]
    /\ UNCHANGED <<held, crit_wait, pc, at, ints, flags, kill, depth, ifwas>>

(* No lock of held_crits is left to free. *)
AllFreed(p) == \A l \in held[p] : ~Owns(p, l)

(* The sweep of a kill is over. *)
KillSwept(p) ==
    /\ kill[p] = "sweep" /\ AllFreed(p)
    /\ kill' = [kill EXCEPT ![p] = "swept"]
    /\ held' = [held EXCEPT ![p] = {}]
    /\ UNCHANGED <<busy, wait, crit_wait, pc, at, ints, flags, depth, ifwas>>

(* The task is out of the ready ring, or its exit is over: if no CPU has   *)
(* loaded it meanwhile it runs no more. If one has, it runs on.            *)
Dead(p) ==
    /\ \/ pc[p] = "dying" /\ (AllFreed(p) \/ kill[p] # "none")
       \/ pc[p] \notin {"dying", "dead"} /\ kill[p] = "swept" /\ p \notin reloaded
    /\ pc' = [pc EXCEPT ![p] = "dead"]
    /\ crit_wait' = [crit_wait EXCEPT ![p] = NoLock]
    /\ depth' = [x \in Procs \X Locks |-> IF x[1] = p THEN 0 ELSE depth[x]]
    /\ UNCHANGED <<busy, wait, held, at, ints, flags, kill, ifwas>>

-----------------------------------------------------------------------------
Init ==
    /\ busy = [l \in Locks |-> NoProc]
    /\ wait = [l \in Locks |-> 0]
    /\ held = [p \in Procs |-> {}]
    /\ crit_wait = [p \in Procs |-> NoLock]
    /\ pc = [p \in Procs |-> "run"]
    /\ at = [p \in Procs |-> 1]
    /\ ints = [p \in Procs |-> TRUE]
    /\ flags = [x \in Procs \X Locks |-> FALSE]
    /\ kill = [p \in Procs |-> "none"]
    /\ depth = [x \in Procs \X Locks |-> 0]
    /\ ifwas = [x \in Procs \X Locks |-> TRUE]
    /\ reloaded = {}

(* The steps of the task itself. It takes one while it is being killed     *)
(* only when a CPU has loaded it.                                          *)
Step(p) ==
    /\ \/ Acquire(p) \/ Record(p) \/ Release(p) \/ EndWait(p) \/ Exit(p)
       \/ \E l \in Locks : \/ Enter(p, l) \/ EnterIrq(p, l) \/ ReenterIrq(p, l)
                            \/ Leave(p, l) \/ StartWait(p, l)
    /\ reloaded' = IF kill[p] = "none" THEN reloaded ELSE reloaded \cup {p}
    /\ UNCHANGED kill

(* The steps of kill_process and of the sweep. *)
Teardown(p) ==
    /\ KillTest(p) \/ KillSwept(p) \/ Dead(p) \/ \E l \in Locks : FreeCrit(p, l)
    /\ UNCHANGED reloaded

Next == \E p \in Procs : Step(p) \/ Teardown(p)

Spec == Init /\ [][Next]_vars

(***************************************************************************)
(* Properties.                                                             *)
(***************************************************************************)

(* The values each variable takes. *)
Types ==
    /\ busy \in [Locks -> Procs \cup {NoProc}]
    /\ wait \in [Locks -> Int]
    /\ held \in [Procs -> SUBSET Locks]
    /\ crit_wait \in [Procs -> Locks \cup {NoLock}]
    /\ pc \in [Procs -> {"run", "wait", "spin", "own", "spinirq", "leave", "dying", "dead"}]
    /\ at \in [Procs -> Locks]
    /\ ints \in [Procs -> BOOLEAN]
    /\ flags \in [Procs \X Locks -> BOOLEAN]
    /\ kill \in [Procs -> {"none", "sweep", "swept"}]
    /\ depth \in [Procs \X Locks -> Nat]
    /\ ifwas \in [Procs \X Locks -> BOOLEAN]
    /\ reloaded \subseteq Procs

(* The shape of the state. The count of a lock is never negative, as long  *)
(* as no CPU loads a task that is being killed.                            *)
TypeOK == Types /\ (reloaded = {} => \A l \in Locks : wait[l] >= 0)

(* The tasks that may execute: a task that kill_process has found off its  *)
(* CPU does not, unless it was loaded again.                               *)
Executing == {p \in Procs : kill[p] = "none"} \cup reloaded

(* Two tasks never execute inside one lock. *)
Exclusion ==
    \A l \in Locks : \A p, q \in Executing : Inside(p, l) /\ Inside(q, l) => p = q

(* As long as no CPU loads a task between kill_process's test of on_cpu    *)
(* and its dequeue (process.c:1631 to 1670), two tasks never execute       *)
(* inside one lock, whatever they nest and re-enter, and however tasks     *)
(* exit or are killed inside locks: sync_entercrit's compare-and-swap      *)
(* against the two-step release and the sweep of a dead owner.             *)
MutualExclusion == reloaded = {} => Exclusion

(* Under the same proviso the recursion count is exact: a task inside a    *)
(* lock owns it, and wait is the number of leaves that will free it, so    *)
(* that the last leave, and only the last, releases the lock.              *)
CountExact ==
    reloaded = {} =>
        \A l \in Locks : \A p \in Executing :
            Inside(p, l) => busy[l] = p /\ wait[l] = depth[<<p, l>>]

(* Inside the interrupts-off region of an acquisition. *)
Masked(p) == pc[p] = "own" /\ ~ints[p]

(* Under the same proviso, and outside that region and the release, a live *)
(* task that owns a lock has it in its held_crits: the scheduler's pin     *)
(* (scheduler.c:140) and the sweep of its locks see every lock it has.     *)
HoldsTracked ==
    reloaded = {} =>
        \A p \in Executing : \A l \in Locks :
            busy[l] = p /\ ~Masked(p) /\ pc[p] \notin {"leave", "dying", "dead"} => l \in held[p]

(* Wherever it can be preempted, the owner of a lock is flagged as a       *)
(* waiter for it only inside sync_justwait, or when it exits from there:   *)
(* the acquisition in sync_entercrit shows nobody an owner that            *)
(* sched_eff_prio would rank at the floor while everybody waits for it.    *)
FlaggedOwnerJustWaits ==
    \A p \in Procs : \A l \in Locks :
        crit_wait[p] = l /\ busy[l] = p /\ ~Masked(p) => pc[p] \in {"wait", "dying"}

(* The waiter flag is exact: no live task that can be preempted is flagged *)
(* as waiting for a lock it owns. sync_justwait flags its caller without   *)
(* looking who owns the lock, so the code does not keep this.              *)
FlagExact ==
    \A p \in Procs :
        crit_wait[p] # NoLock /\ ~Masked(p) /\ pc[p] \notin {"dying", "dead"} =>
            busy[crit_wait[p]] # p

(* Once the sweep of a dead task is over, no lock names it: nobody spins   *)
(* on an owner that cannot leave.                                          *)
NoOrphan ==
    \A p \in Procs : pc[p] = "dead" => \A l \in Locks : busy[l] # p

(* sync_leavecrit_irqrestore gives back the interrupt flag its task had    *)
(* when it called sync_entercrit_irqsave.                                  *)
IrqRestored ==
    [][\A p \in Procs :
          Release(p) /\ at[p] \in IrqLocks => ints'[p] = ifwas[<<p, at[p]>>]]_vars

(* Each lock behaves as the recursive lock of RLock; the abstract leave is *)
(* the leave that brings wait to zero.                                     *)
Abs == INSTANCE RLock WITH
    owner <- [l \in Locks |-> IF wait[l] = 0 THEN NoProc ELSE busy[l]],
    count <- wait,
    gone <- {p \in Procs : kill[p] # "none" \/ pc[p] \in {"dying", "dead"}}

(* Until a CPU loads a task that is being killed, every step of the locks  *)
(* is a step of the recursive locks they promise to be; in particular the  *)
(* sweep takes locks from nobody but a task that died.                     *)
ImplementsRLock ==
    Abs!Init /\ [][reloaded' = {} => [Abs!Next]_(Abs!vars)]_vars
====
