-------------------------------- MODULE Sched --------------------------------
(***************************************************************************)
(* Scheduling, context switch, self-exit, kill and reclamation of tasks on *)
(* several CPUs (kernel/process/scheduler.c, process.c, cpu/context.S).    *)
(*                                                                         *)
(* A CPU is a sequence of atomic steps: the memory operations other CPUs   *)
(* can see between. cur is what a CPU advertises, stk whose stack it runs  *)
(* on. Tasks differ in what they do in the phase "run": fork, exit, ask    *)
(* for a kill, or compute. Sleeping, cooperative mode and the repair of a  *)
(* leftover current are left out; locks other than processmgr_busy are the *)
(* subject of Crit.                                                        *)
(***************************************************************************)
EXTENDS Integers, Sequences, FiniteSets, SequencesExt

CONSTANTS
    NCpus,
    Tasks,       \* user tasks
    Idle,        \* Idle[c]: the kernel task bound to CPU c (sPCB for CPU 0)
    Parent,      \* Parent[t]: the task that forks t
    Started,     \* the user tasks that exist at the start
    Exits,       \* the tasks that exit
    Killable,    \* the tasks somebody asks to kill
    MaxForks,    \* bound: forks explored
    MaxKills,    \* bound: kill requests explored
    NoTask

Cpus == 0 .. NCpus - 1
Kernel == {Idle[c] : c \in Cpus}
All == Tasks \cup Kernel
NoCpu == -1

ASSUME SchedAssumption ==
    /\ NCpus \in Nat \ {0}
    /\ Idle \in [Cpus -> Kernel] /\ Cardinality(Kernel) = NCpus
    /\ Tasks \cap Kernel = {} /\ NoTask \notin All
    /\ Parent \in [Tasks -> All]
    /\ Started \cup Exits \cup Killable \subseteq Tasks

VARIABLES
    alive,       \* PCBs that are allocated
    ring,        \* the ready ring from sched_phead on
    dying,       \* PS_ATTB_DYING
    on_cpu,      \* the CPU that claims each task
    exit,        \* how far each task is in self_exit_current
    crit_wait,   \* the tasks flagged as waiting for processmgr_busy
    found,       \* the exiting tasks whose parent was found in the ring
    published,   \* tasks whose status waitq_publish has given to the parent
    cur,         \* cpus[c].current
    stk,         \* the task whose stack CPU c is on
    ph,          \* what CPU c is doing
    nxt, prv,    \* the task to load or to kill, and the one being left
    ctxload,     \* ctx_load_in_progress
    pending,     \* pending_zombie
    zombies,     \* the list at zombie_head
    pm,          \* processmgr_busy: a task for every entry it has not left
    sigterm,     \* the kill mailbox
    nforks, nkills

exits == <<exit, crit_wait, found>>
tasks == <<alive, ring, dying, on_cpu, exits, published>>
cpus == <<cur, stk, ph, nxt, prv>>
reaper == <<ctxload, pending, zombies>>
bounds == <<nforks, nkills>>
vars == <<tasks, cpus, reaper, pm, sigterm, bounds>>

Queued == ToSet(ring)
Goto(c, p) == ph' = [ph EXCEPT ![c] = p]

-----------------------------------------------------------------------------
(* The ready ring.                                                         *)

(* sched_enqueue inserts behind the head. *)
Enqueued(t) == <<Head(ring), t>> \o Tail(ring)

(* Mutant: a task stays linked. *)
NotDequeued(t) == ring
Dequeued(t) == SelectSeq(ring, LAMBDA u : u # t)

(* The affinity of user tasks is -1, of kernel tasks their CPU. *)
Allowed(t, c) == t \in Kernel => t = Idle[c]

RunnableHere(t, c) ==
    /\ t \notin dying
    /\ on_cpu[t] \in {NoCpu, c}
    /\ Allowed(t, c)

Claim(t, c) == on_cpu' = [on_cpu EXCEPT ![t] = c]

(* sync_entercrit and sync_leavecrit on processmgr_busy, see Crit. *)
Enter(t) == ToSet(pm) \subseteq {t} /\ pm' = Append(pm, t)
Leave == pm' = Tail(pm)
Holds(t) == t \in ToSet(pm)

(* sched_eff_prio: user processes have priority 1, kernel threads 0, and   *)
(* whoever is flagged as a waiter has the lowest.                          *)
Prio(t) == IF t \in Tasks \ crit_wait THEN 1 ELSE 0

(* Mutant: every walk starts at the head. *)
WalkFromHead(last) == ring

(* The ring as scheduler() walks it: from the task after the last one, or  *)
(* from behind the head when that one has left the ring.                   *)
WalkFrom(last) ==
    LET i == IF last \in Queued THEN CHOOSE k \in DOMAIN ring : ring[k] = last ELSE 1
    IN  SubSeq(ring, i + 1, Len(ring)) \o SubSeq(ring, 1, i)

(* Mutant: the holder of a lock is not pinned to its CPU. *)
SchedulerUnpinned(last, c) ==
    LET runnable == SelectSeq(WalkFrom(last), LAMBDA t : RunnableHere(t, c))
        best == SelectSeq(runnable, LAMBDA t : \A u \in ToSet(runnable) : Prio(u) <= Prio(t))
    IN  IF best = <<>> THEN last ELSE Head(best)

(* The pin: a task that holds a lock, and neither dies nor waits.          *)
Pinned(t) == Holds(t) /\ t \notin dying \cup crit_wait

(* scheduler(): the last task while it is pinned, else the first runnable  *)
(* task of the highest priority in walking order.                          *)
Scheduler(last, c) ==
    LET runnable == SelectSeq(WalkFrom(last), LAMBDA t : RunnableHere(t, c))
        best == SelectSeq(runnable, LAMBDA t : \A u \in ToSet(runnable) : Prio(u) <= Prio(t))
    IN  IF best = <<>> \/ Pinned(last) THEN last ELSE Head(best)

(* ps_pcb_advertised_elsewhere and ps_pcb_running_elsewhere. *)
AdvertisedElsewhere(t, c) == \E d \in Cpus \ {c} : cur[d] = t
RunningElsewhere(t, c) ==
    \/ on_cpu[t] \notin {NoCpu, c}
    \/ on_cpu[t] = NoCpu /\ AdvertisedElsewhere(t, c)

-----------------------------------------------------------------------------
(* What a task does while its CPU is in the phase "run".                   *)

(* createprocess, user_fork_frame: inside processmgr_busy an unclaimed     *)
(* task is put in the ring.                                                *)
Fork(c, t) ==
    /\ ph[c] = "run" /\ cur[c] = Parent[t] /\ exit[cur[c]] = "no"
    /\ t \notin alive /\ \A u \in alive \cap Tasks : Parent[u] # t
    /\ pm = <<>>
    /\ nforks < MaxForks
    /\ alive' = alive \cup {t}
    /\ ring' = Enqueued(t)
    /\ Claim(t, NoCpu)
    /\ dying' = dying \ {t}
    /\ published' = published \ {t}
    /\ nforks' = nforks + 1
    /\ UNCHANGED <<exits, cpus, reaper, pm, sigterm, nkills>>

(* exit: self_exit_current closes the files of the task first. *)
ExitStart(c) ==
    /\ ph[c] = "run"
    /\ cur[c] \in Exits /\ exit[cur[c]] = "no"
    /\ exit' = [exit EXCEPT ![cur[c]] = "close"]
    /\ UNCHANGED <<alive, ring, dying, on_cpu, crit_wait, found, published, cpus,
                   reaper, pm, sigterm, bounds>>

(* ps_user_kill: ps_findprocess waits until nobody else is inside          *)
(* processmgr_busy.                                                        *)
RequestKill(c, v) ==
    /\ ph[c] = "run" /\ exit[cur[c]] = "no"
    /\ ToSet(pm) \subseteq {cur[c]}
    /\ v \in Queued
    /\ nkills < MaxKills
    /\ sigterm' = v
    /\ nkills' = nkills + 1
    /\ UNCHANGED <<tasks, cpus, reaper, pm, nforks>>

(* What is left of a PCB that is freed. *)
Forget(freed) ==
    /\ exit' = [t \in All |-> IF t \in freed THEN "no" ELSE exit[t]]
    /\ crit_wait' = crit_wait \ freed
    /\ found' = found \ freed

-----------------------------------------------------------------------------
(* schedule_from_timer: the timer, taskswitch() and the reschedule IPI.    *)

(* zombie_still_live. *)
StillLive(z) == \E c \in Cpus : cur[c] = z \/ (ctxload[c] /\ pending[c] = z)

(* Mutant: zombie_drain steals the pending slot of a CPU mid-switch. *)
MayTakeAny(c) == pending[c] # NoTask

(* Mutant: the test of the current task is inverted. *)
MayTakeCurrent(c) == pending[c] # NoTask /\ ~ctxload[c] /\ cur[c] = pending[c]

MayTake(c) == pending[c] # NoTask /\ ~ctxload[c] /\ cur[c] # pending[c]

(* zombie_drain, on the boot CPU only: it takes the pending zombies, and   *)
(* frees those no CPU still runs on. A zombie is out of the ring and dying *)
(* and never becomes live again, so the drain is one step.                 *)
ZombieDrain(c) ==
    LET taken == {d \in Cpus : MayTake(d)}
        list == zombies \cup {pending[d] : d \in taken}
        freed == {z \in list : ~StillLive(z)}
    IN  IF c = 0
        THEN /\ pending' = [d \in Cpus |-> IF d \in taken THEN NoTask ELSE pending[d]]
             /\ zombies' = list \ freed
             /\ alive' = alive \ freed
             /\ dying' = dying \ freed
             /\ Forget(freed)
        ELSE UNCHANGED <<pending, zombies, alive, dying, exits>>

(* Finished zombies are freed and the kill mailbox is read and cleared. A  *)
(* request for the running task makes it exit, here and now.               *)
Tick(c) ==
    /\ ph[c] = "run"
    /\ ZombieDrain(c)
    /\ sigterm' = NoTask
    /\ nxt' = [nxt EXCEPT ![c] = sigterm]
    /\ Goto(c, IF sigterm = NoTask THEN "sched"
               ELSE IF sigterm = cur[c] THEN "exit" ELSE "kill")
    /\ UNCHANGED <<ring, on_cpu, published, cur, stk, prv, ctxload, pm, bounds>>

(* scheduler() chooses and claims, under ready_lock. *)
Choose(c) ==
    LET t == Scheduler(cur[c], c)
    IN  /\ ph[c] = "sched"
        /\ IF on_cpu[t] = NoCpu THEN Claim(t, c) ELSE UNCHANGED on_cpu
        /\ IF t = cur[c]
           THEN Goto(c, "run") /\ UNCHANGED nxt
           ELSE Goto(c, "switch") /\ nxt' = [nxt EXCEPT ![c] = t]
        /\ UNCHANGED <<alive, ring, dying, exits, published, cur, stk, prv,
                       reaper, pm, sigterm, bounds>>

(* ps_switchto: the choice is claimed, should it not be yet, and looked at *)
(* again; it is published, or its claim dropped. The bounded wait for a    *)
(* task that another CPU claims is that CPU's time to go on.               *)
Switch(c) ==
    LET t == nxt[c]
    IN  /\ ph[c] = "switch"
        /\ IF RunningElsewhere(t, c) \/ t \in dying
           THEN /\ IF on_cpu[t] = c THEN Claim(t, NoCpu) ELSE UNCHANGED on_cpu
                /\ Goto(c, "run")
                /\ UNCHANGED <<cur, prv>>
           ELSE /\ prv' = [prv EXCEPT ![c] = cur[c]]
                /\ cur' = [cur EXCEPT ![c] = t]
                /\ Claim(t, c)
                /\ Goto(c, "move")
        /\ UNCHANGED <<alive, ring, dying, exits, published, stk, nxt,
                       reaper, pm, sigterm, bounds>>

(* Mutant: the old claim is released before RSP moves. *)
MoveReleased(c) ==
    /\ ph[c] = "move"
    /\ IF on_cpu[prv[c]] = c
       THEN Claim(prv[c], NoCpu) /\ UNCHANGED <<stk, ph>>
       ELSE stk' = [stk EXCEPT ![c] = nxt[c]] /\ Goto(c, "release") /\ UNCHANGED on_cpu
    /\ UNCHANGED <<alive, ring, dying, exits, published, cur, nxt, prv,
                   reaper, pm, sigterm, bounds>>

(* context_load_from_switch: RSP and CR3 move to the new task ... *)
Move(c) ==
    /\ ph[c] = "move"
    /\ stk' = [stk EXCEPT ![c] = nxt[c]]
    /\ Goto(c, "release")
    /\ UNCHANGED <<tasks, cur, nxt, prv, reaper, pm, sigterm, bounds>>

(* ... and then the old claim is released and the flags are cleared. *)
Release(c) ==
    /\ ph[c] = "release"
    /\ on_cpu' = [t \in All |-> IF t = prv[c] THEN NoCpu ELSE on_cpu[t]]
    /\ ctxload' = [ctxload EXCEPT ![c] = FALSE]
    /\ Goto(c, "run")
    /\ UNCHANGED <<alive, ring, dying, exits, published, cur, stk, nxt, prv,
                   pending, zombies, pm, sigterm, bounds>>

-----------------------------------------------------------------------------
(* self_exit_current. In the phase "run" a task is inside it with          *)
(* interrupts on: it can be preempted. It is pinned to its CPU while it    *)
(* holds processmgr_busy, except in ps_findprocess, which flags it as a    *)
(* waiter for the lock it holds.                                           *)

AtExit(c, stage) == ph[c] = "run" /\ exit[cur[c]] = stage
ExitTo(c, stage) == exit' = [exit EXCEPT ![cur[c]] = stage]

(* The request came through the mailbox, wherever the task was. *)
ExitByKill(c) ==
    /\ ph[c] = "exit"
    /\ ExitTo(c, "close")
    /\ Goto(c, "run")
    /\ UNCHANGED <<alive, ring, dying, on_cpu, crit_wait, found, published, cur, stk, nxt, prv,
                   reaper, pm, sigterm, bounds>>

(* sync_entercrit: the task enters once more what it is inside of, or is   *)
(* flagged as a waiter and spins ...                                       *)
ExitEnter(c) ==
    /\ AtExit(c, "close")
    /\ IF Holds(cur[c])
       THEN Enter(cur[c]) /\ ExitTo(c, "locked") /\ UNCHANGED crit_wait
       ELSE ExitTo(c, "spin") /\ crit_wait' = crit_wait \cup {cur[c]} /\ UNCHANGED pm
    /\ UNCHANGED <<alive, ring, dying, on_cpu, found, published, cpus, reaper, sigterm, bounds>>

(* ... until it gets processmgr_busy. *)
ExitAcquire(c) ==
    /\ AtExit(c, "spin")
    /\ Enter(cur[c])
    /\ crit_wait' = crit_wait \ {cur[c]}
    /\ ExitTo(c, "locked")
    /\ UNCHANGED <<alive, ring, dying, on_cpu, found, published, cpus, reaper, sigterm, bounds>>

(* ps_findprocess looks for the parent: sync_justwait flags the task ...   *)
ExitFind(c) ==
    /\ AtExit(c, "locked")
    /\ crit_wait' = crit_wait \cup {cur[c]}
    /\ ExitTo(c, "find")
    /\ UNCHANGED <<alive, ring, dying, on_cpu, found, published, cpus, reaper, pm, sigterm, bounds>>

(* Mutant: the answer -1 is not tested. *)
ParentAssumed(t) == TRUE

ParentFound(t) == Parent[t] \in Queued

(* Mutant: the status is not given to the parent. *)
ExitUnpublished(c) ==
    LET t == cur[c]
    IN  /\ AtExit(c, "find")
        /\ crit_wait' = crit_wait \ {t}
        /\ found' = IF ParentFound(t) THEN found \cup {t} ELSE found \ {t}
        /\ ExitTo(c, "found")
        /\ UNCHANGED <<alive, ring, dying, on_cpu, published, cpus, reaper, pm, sigterm, bounds>>

(* ... and, the lock being its own, lets it go at once. The parent, if     *)
(* there still is one, is given the status.                                *)
ExitFound(c) ==
    LET t == cur[c]
    IN  /\ AtExit(c, "find")
        /\ crit_wait' = crit_wait \ {t}
        /\ found' = IF ParentFound(t) THEN found \cup {t} ELSE found \ {t}
        /\ published' = published \cup {t}
        /\ ExitTo(c, "found")
        /\ UNCHANGED <<alive, ring, dying, on_cpu, cpus, reaper, pm, sigterm, bounds>>

(* The successor: the parent if it can be claimed, else the CPU's own idle *)
(* task; the boot CPU has none, and asks the scheduler before it takes     *)
(* sPCB, which it does not claim.                                          *)

ParentFree(t, c) ==
    LET p == Parent[t]
    IN  /\ t \in found
        /\ Allowed(p, c)
        /\ on_cpu[p] = NoCpu
        /\ ~AdvertisedElsewhere(p, c)

Successor(t, c) ==
    LET s == Scheduler(t, c)
    IN  IF ParentFree(t, c) THEN Parent[t]
        ELSE IF c = 0 /\ s # t THEN s ELSE Idle[c]

ExitPick(c) ==
    LET t == cur[c]
        s == Successor(t, c)
        unclaimed == c = 0 /\ ~ParentFree(t, c) /\ Scheduler(t, c) = t
    IN  /\ AtExit(c, "found")
        /\ nxt' = [nxt EXCEPT ![c] = s]
        /\ IF on_cpu[s] = NoCpu /\ ~unclaimed THEN Claim(s, c) ELSE UNCHANGED on_cpu
        /\ Goto(c, "exit1")
        /\ UNCHANGED <<alive, ring, dying, exits, published, cur, stk, prv,
                       reaper, pm, sigterm, bounds>>

(* DYING is set and the task leaves the ring while it is still claimed;    *)
(* then processmgr_busy is left, or swept if it was entered twice.         *)
ExitMark(c) ==
    /\ ph[c] = "exit1"
    /\ dying' = dying \cup {cur[c]}
    /\ ring' = Dequeued(cur[c])
    /\ pm' = <<>>
    /\ Goto(c, "exit2")
    /\ UNCHANGED <<alive, on_cpu, exits, published, cur, stk, nxt, prv,
                   reaper, sigterm, bounds>>

(* A successor that runs elsewhere is given up for the idle task. The      *)
(* successor is published, then the zombie.                                *)
ExitLoad(c) ==
    LET t == cur[c]
        lost == RunningElsewhere(nxt[c], c)
        s == IF lost THEN Idle[c] ELSE nxt[c]
    IN  /\ ph[c] = "exit2"
        /\ on_cpu' = IF lost THEN [u \in All |-> IF u = s THEN c
                                   ELSE IF u = nxt[c] /\ on_cpu[u] = c THEN NoCpu ELSE on_cpu[u]]
                     ELSE on_cpu
        /\ cur' = [cur EXCEPT ![c] = s]
        /\ nxt' = [nxt EXCEPT ![c] = s]
        /\ prv' = [prv EXCEPT ![c] = IF on_cpu[t] = c THEN t ELSE NoTask]
        /\ ctxload' = [ctxload EXCEPT ![c] = TRUE]
        /\ pending' = [pending EXCEPT ![c] = t]
        /\ Goto(c, "move")
        /\ UNCHANGED <<alive, ring, dying, exits, published, stk, zombies, pm, sigterm, bounds>>

-----------------------------------------------------------------------------
(* kill_process, called with the pid read from the mailbox.                *)

(* Its early returns: no such task, already dying, or running somewhere,   *)
(* in which case the task is marked and the request re-posted.             *)
KillRefused(c) ==
    LET v == nxt[c]
    IN  /\ ph[c] = "kill" /\ ToSet(pm) \subseteq {cur[c]}
        /\ \/ /\ v \notin Queued \/ v \in dying
              /\ UNCHANGED <<dying, sigterm>>
           \/ /\ v \in Queued \ dying
              /\ on_cpu[v] # NoCpu
              /\ dying' = dying \cup {v}
              /\ sigterm' = IF sigterm = NoTask THEN v ELSE sigterm
        /\ crit_wait' = IF Holds(cur[c]) THEN crit_wait ELSE crit_wait \ {cur[c]}
        /\ Goto(c, "sched")
        /\ UNCHANGED <<alive, ring, on_cpu, exit, found, published, cur, stk, nxt, prv,
                       reaper, pm, bounds>>

(* Mutant: the status is not given to the parent. *)
KillUnpublished(c) ==
    LET v == nxt[c]
    IN  /\ ph[c] = "kill" /\ Enter(cur[c])
        /\ v \in Queued \ dying
        /\ on_cpu[v] = NoCpu
        /\ crit_wait' = crit_wait \ {cur[c]}
        /\ Goto(c, "kill1")
        /\ UNCHANGED <<alive, ring, dying, on_cpu, exit, found, published, cur, stk, nxt, prv,
                       reaper, sigterm, bounds>>

(* The victim is off every CPU: its locks are freed, its files closed and  *)
(* the parent found and given the status. The task on whose CPU all this   *)
(* happens is no longer flagged afterwards, be it a waiter or not.         *)
KillBegin(c) ==
    LET v == nxt[c]
    IN  /\ ph[c] = "kill" /\ Enter(cur[c])
        /\ v \in Queued \ dying
        /\ on_cpu[v] = NoCpu
        /\ published' = published \cup {v}
        /\ crit_wait' = crit_wait \ {cur[c]}
        /\ Goto(c, "kill1")
        /\ UNCHANGED <<alive, ring, dying, on_cpu, exit, found, cur, stk, nxt, prv,
                       reaper, sigterm, bounds>>

KillDequeue(c) ==
    /\ ph[c] = "kill1"
    /\ ring' = Dequeued(nxt[c])
    /\ Goto(c, "kill2")
    /\ UNCHANGED <<alive, dying, on_cpu, exits, published, cur, stk, nxt, prv,
                   reaper, pm, sigterm, bounds>>

(* Its address space and its PCB are freed. *)
KillFree(c) ==
    /\ ph[c] = "kill2"
    /\ alive' = alive \ {nxt[c]}
    /\ Forget({nxt[c]})
    /\ Leave
    /\ Goto(c, "sched")
    /\ UNCHANGED <<ring, dying, on_cpu, published, cur, stk, nxt, prv,
                   reaper, sigterm, bounds>>
-----------------------------------------------------------------------------
(* Every CPU starts on its kernel task. *)
Init ==
    /\ alive = Kernel \cup Started
    /\ ring = <<Idle[0]>> \o SetToSeq(Started) \o SetToSeq(Kernel \ {Idle[0]})
    /\ dying = {} /\ published = {} /\ zombies = {}
    /\ exit = [t \in All |-> "no"] /\ crit_wait = {} /\ found = {}
    /\ on_cpu = [t \in All |-> IF t \in Kernel THEN CHOOSE c \in Cpus : Idle[c] = t ELSE NoCpu]
    /\ cur = Idle
    /\ stk = Idle
    /\ ph = [c \in Cpus |-> "run"]
    /\ nxt = [c \in Cpus |-> NoTask]
    /\ prv = [c \in Cpus |-> NoTask]
    /\ ctxload = [c \in Cpus |-> FALSE]
    /\ pending = [c \in Cpus |-> NoTask]
    /\ pm = <<>>
    /\ sigterm = NoTask
    /\ nforks = 0
    /\ nkills = 0

(* The steps a CPU takes whatever its task does. *)
CpuStep(c) ==
    \/ Tick(c) \/ Choose(c) \/ Switch(c) \/ Move(c) \/ Release(c)
    \/ ExitByKill(c) \/ ExitMark(c) \/ ExitLoad(c)
    \/ KillRefused(c) \/ KillBegin(c) \/ KillDequeue(c) \/ KillFree(c)

(* The steps of a task through self_exit_current, up to stopints. *)
ExitOn(c) == ExitEnter(c) \/ ExitAcquire(c) \/ ExitFind(c) \/ ExitFound(c) \/ ExitPick(c)

Next ==
    \E c \in Cpus :
        \/ CpuStep(c) \/ ExitStart(c) \/ ExitOn(c)
        \/ \E t \in Tasks : Fork(c, t)
        \/ \E v \in Killable : RequestKill(c, v)

Spec == Init /\ [][Next]_vars

(* The timer of every CPU keeps ticking and code keeps running; a task     *)
(* that is given the CPU again and again gets on with its exit.            *)
ExitGetsOn(t) == \E c \in Cpus : cur[c] = t /\ ExitOn(c)
FairSpec ==
    /\ Spec
    /\ \A c \in Cpus : WF_vars(CpuStep(c))
    /\ \A t \in Tasks : SF_vars(ExitGetsOn(t))

-----------------------------------------------------------------------------
(* Properties.                                                             *)

(* The shape of the state. *)
TypeOK ==
    /\ alive \subseteq All /\ Queued \subseteq All
    /\ dying \cup crit_wait \cup found \cup published \cup zombies \subseteq Tasks
    /\ exit \in [All -> {"no", "close", "spin", "locked", "find", "found"}]
    /\ Len(ring) = Cardinality(Queued)
    /\ on_cpu \in [All -> Cpus \cup {NoCpu}]
    /\ cur \in [Cpus -> All] /\ stk \in [Cpus -> All]
    /\ ph \in [Cpus -> {"run", "sched", "switch", "move", "release", "exit", "exit1",
                        "exit2", "kill", "kill1", "kill2"}]
    /\ nxt \in [Cpus -> All \cup {NoTask}] /\ prv \in [Cpus -> All \cup {NoTask}]
    /\ ctxload \in [Cpus -> BOOLEAN]
    /\ pending \in [Cpus -> Tasks \cup {NoTask}]
    /\ pm \in Seq(All)
    /\ sigterm \in Tasks \cup {NoTask}

(* One PCB, one CPU: two CPUs are never on one stack, in whatever phases   *)
(* of a switch, an exit or a kill they are (docs/smp-longmode.md).         *)
OneStack == \A c, d \in Cpus : stk[c] = stk[d] => c = d

(* Outside a switch a CPU advertises the task it is on, and a user task it *)
(* is on is claimed by it: on_cpu is only cleared once RSP has moved.      *)
ClaimedWhereRunning ==
    \A c \in Cpus :
        /\ stk[c] \in Tasks => on_cpu[stk[c]] = c
        /\ ph[c] \notin {"move", "release"} => cur[c] = stk[c]

(* No CPU runs on, or advertises, a task whose PCB has been freed: the     *)
(* reaper against the window in which an exiting CPU still uses its task.  *)
NoUseAfterFree == \A c \in Cpus : {cur[c], stk[c]} \subseteq alive

(* A context that is loaded is that of a task in the ready ring, never of  *)
(* one that has exited.                                                    *)
OnlyQueuedLoaded ==
    [][\A c \in Cpus : stk'[c] # stk[c] => stk'[c] \in Queued]_vars

(* A task that can no longer be found in the ring has left its status with *)
(* the parent: sys_waitpid takes the one as proof of the other.            *)
StatusBeforeGone == \A t \in alive \cap Tasks : t \notin Queued => t \in published

(* The holder of processmgr_busy is on a CPU, except while it is flagged   *)
(* as a waiter: scheduler() pins it, and the flag is all that lifts the    *)
(* pin.                                                                    *)
HolderOnCpu == \A t \in ToSet(pm) \ crit_wait : \E c \in Cpus : stk[c] = t

(* The holder of processmgr_busy is never descheduled. ps_findprocess      *)
(* flags a holder as a waiter, so the code does not keep this.             *)
HolderPinned == \A t \in ToSet(pm) : \E c \in Cpus : stk[c] = t

(* A flagged task while all CPUs are on user tasks other than it. *)
Outranked(t) == t \in crit_wait /\ \A c \in Cpus : stk[c] \in Tasks \ {t}

(* A task that begins to exit is reclaimed, unless from some time on it is *)
(* flagged as a waiter for processmgr_busy while every CPU has another     *)
(* user task to run: nothing but the priority floor of sched_eff_prio can  *)
(* hold up an exit for ever.                                               *)
ExitReaped ==
    \A t \in Exits : (exit[t] # "no" ~> t \notin alive) \/ <>[]Outranked(t)

(* processmgr_busy is always left again. A holder that ps_findprocess has  *)
(* flagged as a waiter may never be chosen: the code does not keep this.   *)
LockLeft == \A t \in Tasks : Holds(t) ~> ~Holds(t)

(* A task that is asked to die is reclaimed. *)
KillServed == \A t \in Killable : sigterm = t ~> t \notin alive

(* Round robin: a ready task gets a CPU, unless from some time on it is    *)
(* flagged while every CPU has another user task to run.                   *)
NoStarvation ==
    \A t \in Tasks :
        (t \in Queued ~> (t \notin Queued \/ \E c \in Cpus : stk[c] = t)) \/ <>[]Outranked(t)
====
