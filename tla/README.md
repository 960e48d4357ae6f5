# TLA+ models of the ICS-OS kernel

ICS-OS is an x86-64 SMP teaching kernel (`src/ics-os/kernel`). This directory
holds TLA+ models of its concurrent core, the TLC configurations that check them
on small instances, and TLAPS proofs for every size. `PROJECT.json` gives, for
every definition that models code, the lines it models.

## 1. The system and its parts

| Part | Source (under `src/ics-os/kernel`) | Status |
|---|---|---|
| Device registry, its reference holders, mounts | `devmgr/dex32_devmgr.c`, `devmgr_lifecycle.h`, `vfs/vfs_core.c` (mount, unmount) | `DevMgr`, proved |
| Block I/O manager and page cache | `iomgr/iosched.c`, `blkcache.c`, `blkcache.h`; unplug in `hardware/usb/uhci.c` | `BlkCache` |
| Critical-section locks | `process/sync.c`, the sweep in `process/process.c` | `Crit`, proved; abstract: `RLock` |
| Scheduler, context switch, exit, kill, reclamation | `process/scheduler.c`, `process/process.c`, `cpu/context.S` | `Sched`, in part |
| Wait queues, completions, waitpid, deadlines | `process/` | planned |
| TCP, sockets, packet buffers, DHCP | `net/` | planned |
| FAT, descriptors, pipes | `filesystem/`, `vfs/` | planned |
| Frame counts of copy-on-write, TLB shootdown, interrupt life cycle, log ring, virtio ring | `memory/`, `cpu/`, `hardware/`, `console/` | planned |
| Other drivers, parsers, loaders, boot, C library, user programs | | not modelled, section 8 |

How they interact: a file system reads and writes through `dex32_requestIO`,
which takes a reference of the device registry, goes through the page cache and
the per-device lock, and runs the driver's transfer. `disk_mgr` writes dirty
pages back in the background. All shared structures are guarded by the recursive
locks of `sync.c`; a task that holds one is pinned to its CPU by the scheduler,
unless it is flagged as a waiter, and a flagged task has the lowest priority.
The scheduler runs on every CPU from the timer; a claim (`on_cpu`) on each task
keeps it on one CPU. A task leaves by `self_exit_current` on its own CPU or by
`kill_process` on another, and is reclaimed by the boot CPU.

## 2. Modules

| Module | What it is |
|---|---|
| `DevMgr`, `DevMgrProofs` | the registry; its proofs |
| `BlkCache`, `MCBlkCache` | requests, page cache and write-back |
| `RLock` | what a recursive lock promises |
| `Crit`, `MCCrit` | the locks of `sync.c`; instance |
| `CritProofs`, `CritRefinement`, `CritHeldProofs` | their proofs: the invariant and what follows; refinement of `RLock`; `held_crits`, which needs cardinalities |
| `Sched`, `MCSched` | scheduling, switch, exit, kill and reclamation |

Operators that a comment calls a *mutant* are not part of a specification. Each
is a plausible mistake in the definition that follows it; substituting it makes
TLC refute the property `PROJECT.json` names beside it, which shows that the
property depends on that code.

### DevMgr

`devlist`, `state`, `refs`, `locked`, `generation` are `devmgr_devlist` and the
fields of `devmgr_statuslist`; `pc`, `ids`, `held` are the callers. Every
registry function runs inside `devmgr_busy`, so a call is one action
(`Register`, `RemoveDevice`, `QuiesceDevice`, `OpGet`, `OpPut`, ...). A caller that
makes several calls takes several actions, and removals, unplugs and other
callers run in between: a flush takes references on all block devices and puts
them one at a time (`FlushSnapshot`, `FlushOne`); a mount looks two slot numbers up
by name, then takes the references by number (`MountFindFs` to `MountClaimDev`), by
which time the slots may hold other devices.

### BlkCache

`tab`, `pc_dirty` are the page table and the dirty counter, `lock` the per-device
lock, `disk` the media. `pc_busy` is never held across a transfer, so each of its
critical sections and each transfer is an action; the two loops that hold it
over several pages take one action per page and keep it (`busy`). A client's
request runs through `Request`, `Lock`, then `Lookup`/`FillScan`/`FillTransfer`/
`InstallPage`/`CopyOut` for a read, `WriteStart`/(fill)/`ApplyPage` for a write,
`Direct` when the cache has no room, `Finish`. The flusher's pass is `FlushCopy`,
`FlushCheck`, `FlushWrite`, `FlushClear` for every line; unplugging is `Invalidate`
then `Quiesce`; `Register` puts another medium in the slot. A sector's content is
the number of the write that produced it and the registration it was meant for,
which is all the properties tell apart. `truth`, `before`, `synced`, `stale` are
history variables.

### Crit and RLock

`busy`, `wait` are the fields of a `sync_sharedvar`, `held` and `crit_wait` the
fields of a task the scheduler and the sweep read, `ints` and `flags` the interrupt
flag and what an acquisition saved of it. The steps of a task are `Enter`; `Acquire`
(the compare-and-swap, interrupts off) and `Record` (the flag is cleared, the lock
recorded, interrupts restored); `EnterIrq`, `ReenterIrq`; `Leave` and `Release`;
`StartWait`/`EndWait` (`sync_justwait`); and `Exit` (`self_exit_current`). The last
leave is two actions, as in the code: the lock leaves `held_crits`, then `busy` is
cleared.

A kill is several steps as well: `KillTest` finds the task off its CPU, `FreeCrit`
frees its locks one by one, `KillSwept` ends the sweep, `Dead` is the dequeue. The task
is neither claimed nor marked meanwhile, so it may take a step of its own in
between: a CPU has loaded it. It is then in `reloaded`, and runs on, in a lock that
is free or somebody else's. `depth`, `ifwas` and `reloaded` are history.

What such a task does to the locks is the flaw shown by `CritRace.cfg` below and,
for its PCB, by the run `sched_kill_race`. `MutualExclusion`, `CountExact`, `HoldsTracked` and
`ImplementsRLock` are therefore stated up to that moment (`reloaded = {} => ...`);
`FlaggedOwnerJustWaits` holds beyond it.

`RLock` has an owner and a count per lock and the tasks that died; its steps are
take, leave, die and revoke, and only the lock of a task that died may be revoked.
The mapping takes a lock whose count is zero for free, and a task for dead once
`kill_process` has found it off its CPU or it exits.

### Sched

`ring` is the ready ring, `on_cpu` the claims, `cur` what a CPU advertises, `stk`
whose stack it is on: the two differ during a switch, which is where the
properties bite. A CPU's steps are the stretches between memory operations other
CPUs can see: `Tick` (with `zombie_drain` on the boot CPU and the read of the kill
mailbox), `Choose`, `Switch`, `Move`, `Release`; `ExitEnter`, `ExitAcquire`, `ExitFind`,
`ExitFound`, `ExitPick`, `ExitMark`, `ExitLoad` for `self_exit_current`; `KillRefused`,
`KillBegin`, `KillDequeue`, `KillFree` for `kill_process`; and `Fork`, `ExitStart`,
`RequestKill` for what tasks ask. `pm` is the lock `processmgr_busy`, with one entry per
recursive entry. `exit` is how far a task is in its exit, which it keeps when it is
preempted; `crit_wait` its waiter flag, set while it spins for the lock and again,
with the lock held, while `ps_findprocess` looks for the parent; `found` the parent
pointer it then uses, without a second look. `published` also has the tasks without
a parent to tell.

## 3. Runs

Passing:

| Run | Instance | What it shows |
|---|---|---|
| `devmgr` | 2 slots, a driver and a disk, 3 callers, counts up to 2 | exact counts, descriptors pinned while in use, unique live names, exclusive claims, quiescing only drains (`DrainOnly`), and does drain (`Drains`) |
| `blk_evict` | 1 line, 2 pages, 2 clients, 3 writes, I/O errors | eviction, redirtying during write-back and a full cache lose no single-page write; a successful flush is durable |
| `blk_range` | 2 lines, 2 pages of 2 sectors, partial and straddling ranges | fill, merge and write-back keep every sector; dirty pages get written (`DirtyIsWritten`) |
| `blk_replug` | a removable device, registered twice | no data crosses to the new medium; `pc_dirty` exact |
| `crit` | 2 tasks that exit and can be killed, an ordinary and an irqsave lock, depth 2 | up to a load of a task being killed: exclusion, exact counts and records, refinement of `RLock`; and no acquisition shows an owner flagged as waiter |
| `sched_exit` | 3 CPUs, a parent and its child, forked and exiting, twice | one stack per CPU, claims cover every stack in use, nothing freed in use, no exited context loaded; the holder of `processmgr_busy` leaves its CPU only while it is flagged as a waiter |
| `sched_kill` | 2 CPUs, 2 tasks, exits and 2 kills | no task disappears from the ring before its status is published, by exit or by kill |
| `sched_live` | 2 CPUs, 3 tasks, one exits | the exit is reclaimed and no ready task starves, unless flagged for ever while every CPU has another user task to run (`Outranked`) |

Violations, each a statement of the repository that the code does not keep
(`PROJECT.json`, findings, quotes the line):

| Run | What TLC finds |
|---|---|
| `blk_reuse` | the write-back check compares slot, page and write count, not the device generation, and the count restarts at zero: the flusher marks a page of the new medium clean after writing a page of the old one |
| `crit_orphan` | a task preempted and killed between the two steps of its last leave leaves a lock that names a dead owner |
| `sched_kill_race` | `kill_process` tests `on_cpu` long before it dequeues the victim: another CPU loads the task in between and it is freed while it runs |
| `sched_leak` | two exits on one CPU between two ticks of the boot CPU: the second overwrites `pending_zombie` and the first is never reclaimed |

### Further disagreements

These configurations are kept beside the runs; TLC refutes their property too.

| Configuration | Property | What TLC finds |
|---|---|---|
| `BlkFallback.cfg` (`MCBlkCache`) | `Coherent` | no line is free for one page of a two-page write, so the whole range bypasses the cache although the other page is cached and dirty; the older content is served and written back (`blkcache.c:492`) |
| `BlkZeroFill.cfg` | `Coherent` | a partial write whose fill found no line, but whose write loop does, zeroes the other sectors of the page (`blkcache.c:478`) |
| `BlkStall.cfg` | `DirtyIsWritten` | a dirty page of an unplugged but mounted disk ends every pass before later lines are reached (`blkcache.c:555`) |
| `CritIrq.cfg` (`MCCrit`) | `IrqRestored` | a contended `sync_entercrit_irqsave` saves the flags again after its own `cli`, and the leave keeps interrupts off (`sync.c:549`) |
| `CritRace.cfg` | `Exclusion` | a task loaded between the test of `on_cpu` and the dequeue in `kill_process` runs on inside a lock that the sweep has freed and another task has taken (`process.c:1631` to `1670`) |
| `CritFlag.cfg` | `FlagExact` | `sync_justwait` flags its caller without looking who owns the lock, so an owner is flagged as a waiter for its own lock (`sync.c:413`); `docs/smp-longmode.md:134-137` says "This is why `crit_wait` must be exact" |
| `SchedPin.cfg` (`MCSched`) | `HolderPinned` | an exiting task inside `processmgr_busy` calls `ps_findprocess`, is flagged and descheduled with the lock held (`process.c:3001`); `scheduler.c:120` says "A process that holds a crit (sync_entercrit) must not be descheduled while it does so", `sync.c:460` "A holder doing real work under a crit never sets crit_wait and is still pinned" |
| `SchedFloor.cfg` | `LockLeft` | descheduled there, it ranks below two user tasks that never stop computing on two CPUs and gets no CPU again, `processmgr_busy` held (`scheduler.c:56`) |
| `SchedKillLost.cfg` | `KillServed` | a kill of a running task read twice by other CPUs leaves the task marked dying, descheduled and never reclaimed (`process.c:1610`) |
| `SchedHolder.cfg` | `HolderOnCpu` | a task marked dying while it exits is not pinned: it is descheduled with `processmgr_busy` held and may never be chosen again (`scheduler.c:141`) |

These are why the requests of `blk_evict` are single whole pages, the table of
`blk_range` has a line for every page, and `sched_kill` checks neither `NoUseAfterFree`
nor `OneStack` nor `HolderOnCpu` nor deadlock: a task freed while it runs can be given
to a fork, and nothing is claimed of stacks after that.

## 4. Bounds

- `DevMgr`: `MaxDevices` = 2, `MaxGen` = 2 let a slot be retired and reused while a
  mount has its number; `MaxRefs` = 2 stands for the largest DWORD, so that with
  three callers a count at its limit is reached. `MaxGen` bounds the registrations
  of a slot.
- `BlkCache`: `NLines` is 1 or 2 against two pages, so the table is full or exactly
  large enough; `MaxRun` = 2 merges a run of two pages; `MaxWrites` bounds the write
  requests (three: write, redirty, evict); `MaxGen` = 2 is one replacement of the medium.
- `Crit`: two tasks, as many as exclusion and a sweep that races an acquisition need;
  two locks suffice for nesting, since the locks do not interact but through
  `held_crits`; `MaxDepth` = 2 has a recursive entry and a leave that is not the last.
  `HoldMax` = 2 is as large as the number of locks: more than 16 nested locks are not
  recorded by the code, and `HoldsTracked` is not claimed for them. The constraint
  `NoReload` cuts `crit` off behind states in which a task being killed was loaded:
  the properties that depend on `reloaded = {}` say nothing there, `TypeOK` but its
  types, and those and `FlaggedOwnerJustWaits` are proved without the constraint. `CritRace` has none.
- `Sched`: three CPUs for an exit that races two others, two elsewhere; `MaxForks`
  and `MaxKills` bound the forks and kill requests. Tasks are not created in
  `sched_kill`: after a use-after-free the model's later states mean nothing.
- Symmetry over clients is used where a run has no liveness property.

`CHECK_DEADLOCK FALSE` is set for `devmgr` (registrations are bounded and mounts may
stay), `crit` and the other runs of `Crit` with kills (all tasks may be dead, and a lock
orphaned by a kill stops everybody who wants it) and `sched_kill` (the `HolderOnCpu` disagreement stops the machine).

## 5. Fairness

- `DevMgr`: a thread inside a call keeps running (weak fairness of its steps): the
  scheduler is fair to runnable threads (`NoStarvation`). Nobody is obliged to
  unmount, so `Drains` allows a device that a mount keeps.
- `BlkCache`: the same for requests and a pass under way, and `disk_mgr` keeps
  making passes while `pc_dirty` is not zero. The device lock does not queue its
  waiters, so `DirtyIsWritten` claims nothing while requests keep coming.
- `Sched`: the timer of each CPU keeps ticking (weak fairness of `CpuStep`); a task
  that is on a CPU again and again gets on with its exit (strong fairness): the
  instructions between two ticks are many. Nothing obliges a task to exit, and
  nothing stops the others from computing for ever: hence `Outranked`, the one way
  in which the priority floor keeps a flagged task off the CPUs.

## 6. Proofs

`DevMgrProofs` proves, for any number of slots, names and callers, all invariants
of the `devmgr` run and `DrainOnly`. The assumptions are `DevMgrAssumption` (sizes are
positive, finitely many callers) and `NoDevAssumption` (the null entry is no
descriptor). `RefCountExact` is not inductive by itself: a put decrements the count
of the slot its descriptor names, so one must know that the descriptor is still
there (`HeldDevicesPinned`), which in turn holds only because a retired slot has
count, hence holders, zero. `IInv` joins these with where a caller at each point
may hold references (`HeldShape`), what an occupied slot looks like (`SlotShape`) and
the type invariant; `FullInv` adds unique names and the shape of claims
(`ClaimShape`). `TakeKeepsCount` and `DropKeepsCount` are the two facts about
cardinalities; `TakeInv`, `DropInv` and `MoveInv` say that a reference taken, dropped,
or a step without either keeps `IInv`, and every caller action is one of the three.

`CritProofs` proves, for any number of tasks, locks, any recursion and any set of tasks
that exit or are killed, `TypeOK`, `MutualExclusion`, `CountExact` and `FlaggedOwnerJustWaits`,
and `CritRefinement` that `Crit` implements `RLock` (`ImplementsRLock`). The assumption is
`CritAssumption`. The inductive invariant is `IInv == Types /\ Flags /\ (reloaded = {} =>
Safe)`. `Flags` says where a task is when it is flagged, and that a spinner has not got
its lock; it survives a reload. `Safe` is what a reload destroys. `CountExact` says
that a task inside a lock owns it; the converse is needed for a recursive entry (it
is counted because `busy` carries the task's token) and fails exactly between
compare-and-swap and record, during the release and after a death, hence
`OwnsInside`, `BetweenOwns` and `DeadOutside`; `CountsEntries` ties `wait` to the entries of
the owner and `FreeCountsZero` says that a free lock counts nothing, so that an
acquisition starts at one. Refinement maps `Record`, `EnterIrq` and re-entries to take,
`Leave` to leave, `Exit` and `KillTest` to die, `FreeCrit` to revoke, and everything else
to a stutter.

`CritHeldProofs` proves `HoldsTracked` under `NLocks <= HoldMax`: then `Track` never finds the
table full, which is a fact about the cardinality of a subset.

Only model-checked: the liveness properties (`Drains`, `DirtyIsWritten`, `ExitReaped`,
`NoStarvation`), which are temporal under fairness, and all of `BlkCache` and `Sched`.

## 7. Abstractions

- `DevMgr`: operation tables and callbacks are not interpreted.
- `BlkCache`: the ages of lines (any clean line may be evicted), the cache of block
  sizes, the aliasing of a partition with its disk, the device's own volatile cache,
  drivers with a private cache, `blkcache_put` (no caller) and the job list of
  `iomgr_obtainjob` (never filled) are left out.
- `Crit`: a task's token is its own throughout, so the repairs for a leftover current
  task (`crit_nest_pop`) and the reports of long waits do not occur. Callers take locks
  in ascending order and nest irqsave sections properly. The check for a token of
  one's own in the spin cannot fire then: a spinner does not own its lock (`Flags`).
- `Sched`: left out are sleeping and wait queues, threads, cooperative mode and the
  leftover-current repairs of `smp.c`. `ps_switchto` is modelled as called by the
  timer, `taskswitch` and the IPI, that is after `scheduler()` has claimed; its claim
  path (`process.c:2541-2574`) is in `Switch`, its bounded wait for a task claimed
  elsewhere being the other CPU's time to go on, but the direct callers that need
  it, `dex32_waitpid` (`process.c:2008`) and exec (`posixfd.c:1796-1798`), are not modelled.
  The waits of `user_fork_frame`, `ps_user_kill` and `kill_process` for `processmgr_busy`
  are guards: their callers are not flagged while they wait, and `kill_process` is not
  preempted. Other locks that an exiting task takes on its way (closing files) are
  left out, hence also the flags set by waits for those.

## 8. Not modelled

Register-level drivers, PCI, IOMMU, DMA, display, keyboard and Wi-Fi are device I/O.
ext4, ISO 9660, partition tables and program loaders are sequential parsers. Boot,
kexec and the C library are straight-line or sequential code; the heap is a
sequential allocator under a lock of `Crit`. User programs and `contrib` run on the
kernel and are not part of it. `PROJECT.json` lists every part with its reason.

## 9. Plan

1. `WaitEvent`: wait queues, completions and deadlines, a wake-up against a timeout
   and a cancellation; the bounded `waitpid` queue; composed with `Sched`.
2. `Tcp`: two endpoints over a network that loses, duplicates and reorders;
   retransmission, window, close; then sockets and the receive queue.
3. `CritSched`: all locks and the scheduler together, and progress of owners.
4. FAT chains under failing writes; descriptors across fork; copy-on-write counts;
   TLB shootdown; interrupt registration; the log and virtio rings; DHCP.
5. Proofs: `OneStack` and `ClaimedWhereRunning` of `Sched` without kills;
   `DirtyCountExact`, `OneLinePerPage` and `NoCrossGeneration` of `BlkCache`.
