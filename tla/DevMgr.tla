------------------------------- MODULE DevMgr -------------------------------
(***************************************************************************)
(* The device registry (kernel/devmgr/dex32_devmgr.c and                   *)
(* devmgr_lifecycle.h) together with the callers that hold its references: *)
(* one-shot operations (devmgr_sendmessage, devmgr_copyinterface,          *)
(* pc_dev_rw, ...), registry-wide flushes (devmgr_flushblocks) and mounts  *)
(* (vfs_mount_device_locked and vfs_unmount_locked).                       *)
(*                                                                         *)
(* Every registry function runs under the critical section devmgr_busy, so *)
(* one call is one action; a caller that makes several calls takes several *)
(* actions, and other callers run in between.                              *)
(***************************************************************************)
EXTENDS Naturals, FiniteSets

CONSTANTS
    MaxDevices,   \* MAXDEVICES: the registry has slots 0 .. MaxDevices-1
    MaxRefs,      \* the largest DWORD: a reference count never passes it
    MaxGen,       \* bound: registrations of one slot that are explored
    FsNames,      \* names of DEVMGR_FS devices
    BlockNames,   \* names of DEVMGR_BLOCK devices
    Users,        \* the threads that use the registry
    NoDev         \* the null entry of devmgr_devlist, and the lookup result -1

ASSUME DevMgrAssumption ==
    /\ MaxDevices \in Nat \ {0}
    /\ MaxRefs \in Nat \ {0}
    /\ MaxGen \in Nat \ {0}
    /\ IsFiniteSet(Users)

Slots == 0 .. MaxDevices - 1
Names == FsNames \cup BlockNames

(* The heap copy devmgr_register makes: its address is told apart by the   *)
(* slot and the slot's registration count.                                 *)
Desc == [id : Slots, name : Names, gen : Nat]

(* What a caller takes a reference for. A mount has one on the filesystem  *)
(* driver and one on the block device, which may be the same descriptor.   *)
Uses == {"op", "fs", "dev"}

ASSUME NoDevAssumption == NoDev \notin Desc /\ NoDev \notin Slots

VARIABLES
    devlist,      \* devmgr_devlist: slot -> descriptor or NoDev
    state,        \* devmgr_statuslist[].state
    refs,         \* devmgr_statuslist[].refs
    locked,       \* devmgr_statuslist[].locked, the mount claim
    generation,   \* devmgr_statuslist[].generation
    pc,           \* where each user is in its call sequence
    ids,          \* the slot numbers a mount looked up: [fs, dev]
    held          \* held[<<u, use>>]: the descriptors u has got and not yet put

registry == <<devlist, state, refs, locked, generation>>
vars == <<registry, pc, ids, held>>

NoIds == [fs |-> NoDev, dev |-> NoDev]

Init ==
    /\ devlist = [s \in Slots |-> NoDev]
    /\ state = [s \in Slots |-> "FREE"]
    /\ refs = [s \in Slots |-> 0]
    /\ locked = [s \in Slots |-> FALSE]
    /\ generation = [s \in Slots |-> 0]
    /\ pc = [u \in Users |-> "idle"]
    /\ ids = [u \in Users |-> NoIds]
    /\ held = [h \in Users \X Uses |-> {}]

-----------------------------------------------------------------------------
(* The critical sections of the registry.                                  *)

Occupied(s) == devlist[s] # NoDev
IsLiveOrDraining(s) == Occupied(s)
IsLive(s) == Occupied(s) /\ state[s] = "LIVE"

(* devmgr_lifecycle_get succeeds. *)
CanGetNoLimit(s) == IsLive(s)
CanGet(s) == IsLive(s) /\ refs[s] < MaxRefs

(* devmgr_finddevice_locked: the lowest live slot with the name, or -1. *)
FindDevice(name) ==
    LET hits == {s \in Slots : IsLive(s) /\ devlist[s].name = name}
    IN  IF hits = {} THEN NoDev ELSE CHOOSE s \in hits : \A t \in hits : s <= t

(* devmgr_retire_locked, given what the caller has just stored: a slot that *)
(* is quiescing without references is emptied.                             *)
CanRetireAtOnce(st, r) == st = "QUIESCING"
CanRetire(st, r) == st = "QUIESCING" /\ r = 0

StoreOrRetire(s, st, r) ==
    LET retired == CanRetire(st, r)
    IN  /\ devlist' = IF retired THEN [devlist EXCEPT ![s] = NoDev] ELSE devlist
        /\ state' = [state EXCEPT ![s] = IF retired THEN "DEAD" ELSE st]
        /\ refs' = [refs EXCEPT ![s] = r]

PutKeepsSlot(d) ==
    /\ refs' = [refs EXCEPT ![d.id] = IF @ = 0 THEN 0 ELSE @ - 1]
    /\ UNCHANGED <<devlist, state, locked, generation>>

(* devmgr_putdevice: the pointer test, devmgr_lifecycle_put, and the       *)
(* retirement of a pending removal.                                        *)
Put(d) ==
    /\ IF d # NoDev /\ devlist[d.id] = d
       THEN StoreOrRetire(d.id, state[d.id],
                          IF refs[d.id] = 0 THEN 0 ELSE refs[d.id] - 1)
       ELSE UNCHANGED <<devlist, state, refs>>
    /\ UNCHANGED <<locked, generation>>

(* devmgr_getdevice_ref for a set of slots at once. *)
GetAll(S) ==
    /\ refs' = [s \in Slots |-> IF s \in S THEN refs[s] + 1 ELSE refs[s]]
    /\ UNCHANGED <<devlist, state, generation>>

(* devmgr_setlock(id, 0). *)
ClearLock(s) ==
    /\ locked' = IF Occupied(s) THEN [locked EXCEPT ![s] = FALSE] ELSE locked
    /\ UNCHANGED <<devlist, state, refs, generation>>

(* devmgr_register takes the first empty slot. *)
FirstFree(s) == ~Occupied(s) /\ \A t \in Slots : t < s => Occupied(t)

RegisterAnyName(name) ==
    /\ \E s \in Slots :
        /\ FirstFree(s)
        /\ generation[s] < MaxGen
        /\ devlist' = [devlist EXCEPT ![s] =
                          [id |-> s, name |-> name, gen |-> generation[s] + 1]]
        /\ refs' = [refs EXCEPT ![s] = 0]
        /\ locked' = [locked EXCEPT ![s] = FALSE]
        /\ generation' = [generation EXCEPT ![s] = @ + 1]
        /\ state' = [state EXCEPT ![s] = "LIVE"]
    /\ UNCHANGED <<pc, ids, held>>

Register(name) ==
    /\ FindDevice(name) = NoDev
    /\ \E s \in Slots :
        /\ FirstFree(s)
        /\ generation[s] < MaxGen
        /\ devlist' = [devlist EXCEPT ![s] =
                          [id |-> s, name |-> name, gen |-> generation[s] + 1]]
        /\ refs' = [refs EXCEPT ![s] = 0]
        /\ locked' = [locked EXCEPT ![s] = FALSE]
        /\ generation' = [generation EXCEPT ![s] = @ + 1]
        /\ state' = [state EXCEPT ![s] = "LIVE"]
    /\ UNCHANGED <<pc, ids, held>>

(* devmgr_lifecycle_quiesce. *)
Quiesced(st) == IF st = "LIVE" THEN "QUIESCING" ELSE st

(* devmgr_removedevice refuses a claimed device. *)
RemoveDevice(s) ==
    /\ Occupied(s)
    /\ ~locked[s]
    /\ StoreOrRetire(s, Quiesced(state[s]), refs[s])
    /\ UNCHANGED <<locked, generation, pc, ids, held>>

(* devmgr_quiesce_device, the hot-unplug path, ignores the claim. *)
QuiesceDevice(s) ==
    /\ Occupied(s)
    /\ StoreOrRetire(s, Quiesced(state[s]), refs[s])
    /\ UNCHANGED <<locked, generation, pc, ids, held>>

-----------------------------------------------------------------------------
(* One referenced operation: devmgr_getdevice_ref, the callback,           *)
(* devmgr_putdevice.                                                       *)

Goto(u, from, to) == pc[u] = from /\ pc' = [pc EXCEPT ![u] = to]

(* u gets a reference on each slot of S, or puts the one on descriptor d.  *)
Take(u, use, S) ==
    /\ GetAll(S)
    /\ held' = [held EXCEPT ![<<u, use>>] = @ \cup {devlist[s] : s \in S}]

Drop(u, use, d) ==
    /\ Put(d)
    /\ held' = [held EXCEPT ![<<u, use>>] = @ \ {d}]

OpGet(u, s) ==
    /\ Goto(u, "idle", "op")
    /\ CanGet(s)
    /\ Take(u, "op", {s})
    /\ UNCHANGED <<locked, ids>>

OpPut(u) ==
    /\ Goto(u, "op", "idle")
    /\ \E d \in held[<<u, "op">>] : Drop(u, "op", d)
    /\ UNCHANGED ids

(* devmgr_flushblocks: one critical section takes a reference on every live *)
(* block device; each device is then flushed and put, lowest slot first.   *)
FlushSnapshot(u) ==
    /\ Goto(u, "idle", "flush")
    /\ Take(u, "op", {s \in Slots : CanGet(s) /\ devlist[s].name \in BlockNames})
    /\ UNCHANGED <<locked, ids>>

FlushOne(u) ==
    /\ pc[u] = "flush"
    /\ \E d \in held[<<u, "op">>] :
        /\ \A e \in held[<<u, "op">>] : d.id <= e.id
        /\ Drop(u, "op", d)
    /\ UNCHANGED <<pc, ids>>

FlushDone(u) ==
    /\ Goto(u, "flush", "idle")
    /\ held[<<u, "op">>] = {}
    /\ UNCHANGED <<registry, ids, held>>

-----------------------------------------------------------------------------
(* A mount holds a reference on the filesystem driver and a reference plus *)
(* the exclusive claim on the block device until it is unmounted.          *)

(* The transaction gate vfs_mount_busy: one mount or unmount at a time.    *)
MountGate(u) == \A v \in Users \ {u} : pc[v] \in {"idle", "op", "flush", "mounted"}

(* The filesystem half of a mount's lookups. *)
MountFindFs(u, name) ==
    /\ MountGate(u)
    /\ FindDevice(name) # NoDev
    /\ Goto(u, "idle", "findDev")
    /\ ids' = [ids EXCEPT ![u].fs = FindDevice(name)]
    /\ UNCHANGED <<registry, held>>

MountFindDev(u, name) ==
    LET s == FindDevice(name)
    IN  /\ Goto(u, "findDev", IF s = NoDev THEN "idle" ELSE "getFs")
        /\ ids' = [ids EXCEPT ![u] = IF s = NoDev THEN NoIds ELSE [@ EXCEPT !.dev = s]]
        /\ UNCHANGED <<registry, held>>

(* A slot number looked up earlier may by now hold nothing, or another      *)
(* device: the lookups below go by number.                                 *)
MountGetFs(u) ==
    /\ Goto(u, "getFs", "claimDev")
    /\ Take(u, "fs", {s \in Slots : s = ids[u].fs /\ CanGet(s)})
    /\ UNCHANGED <<locked, ids>>

(* devmgr_claimdevice_ref succeeds. *)
CanClaimShared(s) == CanGet(s)
CanClaim(s) == CanGet(s) /\ ~locked[s]

(* devmgr_claimdevice_ref, then the validation that decides whether the    *)
(* mount goes on; it can also fail later, at the mount point.              *)
MountClaimDev(u) ==
    LET S == {s \in Slots : s = ids[u].dev /\ CanClaim(s)}
        valid == /\ \E d \in held[<<u, "fs">>] : d.name \in FsNames
                 /\ \E s \in S : devlist[s].name \in BlockNames
    IN  /\ pc[u] = "claimDev"
        /\ \/ valid /\ Goto(u, "claimDev", "mounted")
           \/ Goto(u, "claimDev", IF S = {} THEN "putFs" ELSE "unlock")
        /\ Take(u, "dev", S)
        /\ locked' = [s \in Slots |-> locked[s] \/ s \in S]
        /\ UNCHANGED ids

(* Unmount and the failure exit of a mount are the same three calls:       *)
(* devmgr_setlock(dev, 0), then a put of each reference.                   *)
Unmount(u) ==
    /\ MountGate(u)
    /\ Goto(u, "mounted", "unlock")
    /\ UNCHANGED <<registry, ids, held>>

MountUnlock(u) ==
    /\ Goto(u, "unlock", "putFs")
    /\ ClearLock(ids[u].dev)
    /\ UNCHANGED <<ids, held>>

PutUseLeaking(u, use) ==
    /\ held' = [held EXCEPT ![<<u, use>>] = {}]
    /\ UNCHANGED registry

(* devmgr_putdevice of the reference taken for `use`, if the lookup gave one. *)
PutUse(u, use) ==
    \/ held[<<u, use>>] = {} /\ UNCHANGED <<registry, held>>
    \/ \E d \in held[<<u, use>>] : Drop(u, use, d)

MountPutFs(u) ==
    /\ Goto(u, "putFs", "putDev")
    /\ PutUse(u, "fs")
    /\ UNCHANGED ids

MountPutDev(u) ==
    /\ Goto(u, "putDev", "idle")
    /\ PutUse(u, "dev")
    /\ ids' = [ids EXCEPT ![u] = NoIds]

-----------------------------------------------------------------------------
Registry ==
    \/ \E name \in Names : Register(name)
    \/ \E s \in Slots : RemoveDevice(s) \/ QuiesceDevice(s)

(* The steps by which a user gives back what it holds; a mount may stay.   *)
Release(u) ==
    \/ OpPut(u)
    \/ FlushOne(u) \/ FlushDone(u)
    \/ MountUnlock(u) \/ MountPutFs(u) \/ MountPutDev(u)

MountStep(u) ==
    \/ \E name \in Names : MountFindFs(u, name)
    \/ \E name \in Names : MountFindDev(u, name)
    \/ MountGetFs(u) \/ MountClaimDev(u) \/ Unmount(u)

Next ==
    \/ Registry
    \/ \E u \in Users :
        \/ \E s \in Slots : OpGet(u, s)
        \/ FlushSnapshot(u)
        \/ MountStep(u)
        \/ Release(u)

Spec == Init /\ [][Next]_vars

(* A thread inside a call keeps running (the scheduler is fair to runnable *)
(* threads). Nothing obliges anybody to unmount.                           *)
Fairness == \A u \in Users :
    /\ WF_vars(Release(u))
    /\ WF_vars(MountGetFs(u) \/ MountClaimDev(u))
    /\ WF_vars(\E name \in Names : MountFindDev(u, name))

FairSpec == Spec /\ Fairness

-----------------------------------------------------------------------------
(* Properties.                                                             *)

States == {"FREE", "LIVE", "QUIESCING", "DEAD"}
PCs == {"idle", "op", "flush", "findDev", "getFs", "claimDev", "mounted",
        "unlock", "putFs", "putDev"}

(* Every registry entry and every caller's bookkeeping has its C type. *)
TypeOK ==
    /\ devlist \in [Slots -> Desc \cup {NoDev}]
    /\ state \in [Slots -> States]
    /\ refs \in [Slots -> 0 .. MaxRefs]
    /\ locked \in [Slots -> BOOLEAN]
    /\ generation \in [Slots -> 0 .. MaxGen]
    /\ pc \in [Users -> PCs]
    /\ ids \in [Users -> [fs : Slots \cup {NoDev}, dev : Slots \cup {NoDev}]]
    /\ held \in [Users \X Uses -> SUBSET Desc]

(* The references on descriptor d in callers' hands. *)
Holders(d) == {h \in Users \X Uses : d \in held[h]}

(* The count devmgr_lifecycle_get and devmgr_lifecycle_put keep is exactly *)
(* the number of references in callers' hands: no call sequence of         *)
(* operations, flushes and failed mounts leaks or double-drops one.        *)
RefCountExact ==
    \A s \in Slots : Occupied(s) => refs[s] = Cardinality(Holders(devlist[s]))

(* A descriptor in use is still the registry's entry for its slot: removal *)
(* and hot-unplug never detach an operation table under a caller           *)
(* (devmgr_retire_locked waits for the last devmgr_putdevice).             *)
HeldDevicesPinned ==
    \A h \in Users \X Uses : \A d \in held[h] : devlist[d.id] = d

(* A removal is never forgotten: whoever drops the last reference of a     *)
(* quiescing device retires it, so no slot stays quiescing without users   *)
(* (such a slot could never be registered again).                          *)
QuiescingHasUsers ==
    \A s \in Slots : state[s] = "QUIESCING" => Holders(devlist[s]) # {}

(* devmgr_finddevice is unambiguous: two live devices never share a name,  *)
(* although a name may be registered again while the old holder drains.    *)
UniqueLiveNames ==
    \A s, t \in Slots :
        IsLive(s) /\ IsLive(t) /\ devlist[s].name = devlist[t].name => s = t

Claimants(s) ==
    {u \in Users : /\ pc[u] \in {"mounted", "unlock"}
                   /\ \E d \in held[<<u, "dev">>] : d.id = s}

(* The mount claim is exclusive and exact: a slot is locked if and only if *)
(* a mount (or one being undone) owns it, and at most one does, also when  *)
(* the slot numbers a mount looked up were reused before it claimed.       *)
ClaimExclusive ==
    \A s \in Slots :
        /\ \A u, v \in Claimants(s) : u = v
        /\ locked[s] <=> Claimants(s) # {}

(* Quiescing only drains: once devmgr_quiesce_device or                    *)
(* devmgr_removedevice has run, the slot takes no new reference and never  *)
(* becomes live again before it is dead.                                   *)
DrainOnly ==
    [][\A s \in Slots : state[s] = "QUIESCING" =>
          /\ refs'[s] <= refs[s]
          /\ state'[s] \in {"QUIESCING", "DEAD"}]_vars

(* Every quiescing device is eventually retired, or what keeps it is a     *)
(* mount nobody undoes: operations and flushes always drain.               *)
Drains ==
    \A s \in Slots :
        state[s] = "QUIESCING" ~>
            \/ state[s] = "DEAD"
            \/ \E u \in Users : pc[u] = "mounted" /\ \E use \in Uses : devlist[s] \in held[<<u, use>>]
====
