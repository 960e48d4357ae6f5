------------------------------ MODULE BlkCache ------------------------------
(***************************************************************************)
(* Block I/O: the 4 KiB write-back page cache (kernel/iomgr/blkcache.c)    *)
(* under the I/O manager that drives it (kernel/iomgr/iosched.c).          *)
(*                                                                         *)
(* A client's request is dex32_requestIO: a lookup that takes no device    *)
(* lock, then bio_submit_sync -> iomgr_execjob -> blkcache_read or         *)
(* blkcache_write under the per-device blk-mq lock. The flusher is         *)
(* iomgr_flushmgr, whose callers (disk_mgr, sys_fsync, the console) are    *)
(* serialised by iomgr_flush_busy. pc_busy is never held across a device   *)
(* transfer, so every critical section of pc_busy and every transfer is an *)
(* action; the write and install loops, which hold it over several pages,  *)
(* take one action per page and keep it (busy).                            *)
(*                                                                         *)
(* The registry is reduced to what the cache sees of it: a device is LIVE, *)
(* QUIESCING while a reference keeps its slot, or DEAD (see DevMgr).       *)
(***************************************************************************)
EXTENDS Naturals, FiniteSets

CONSTANTS
    Devs,        \* device slots
    Removable,   \* those that can be unplugged (USB storage)
    Clients,     \* threads that issue requests
    NLines,      \* PC_NPAGES
    Probed,      \* Probed[d, page]: the 8 lines from pc_slot on
    NPages,      \* pages of a device
    SPP,         \* sectors per page: PC_SIZE / block size
    Extents,     \* the sector ranges <<first, last>> requests use
    MaxRun,      \* PC_MAX_IO / PC_SIZE: the longest merged transfer
    MaxGen,      \* bound: registrations of one slot
    MaxWrites,   \* bound: write requests explored
    IOErrors,    \* whether a transfer may fail (also stands for a failed malloc)
    Nobody       \* no lock owner, no device

ASSUME BlkCacheAssumption ==
    /\ {NLines, NPages, SPP, MaxRun, MaxGen} \subseteq Nat \ {0}
    /\ MaxWrites \in Nat
    /\ Removable \subseteq Devs
    /\ IOErrors \in BOOLEAN
    /\ Extents \subseteq (0 .. NPages * SPP - 1) \X (0 .. NPages * SPP - 1)
    /\ \A e \in Extents : e[1] <= e[2]
    /\ Probed \in [Devs \X (0 .. NPages - 1) -> SUBSET (1 .. NLines)]
    /\ Nobody \notin Clients \cup Devs

Lines == 1 .. NLines
Pages == 0 .. NPages - 1
Sectors == 0 .. NPages * SPP - 1
Offsets == 0 .. SPP - 1

(* A sector holds the n-th write of the device registration it was meant   *)
(* for; n = 0 is what the medium held when it was registered.              *)
Value == [gen : Nat, n : Nat]
Zeros == [gen |-> 0, n |-> 0]
Fresh(g) == [gen |-> g, n |-> 0]

VARIABLES
    dstate,      \* registry state of each slot
    gen,         \* registry generation of each slot
    mounted,     \* the devices a mounted volume holds a reference on
    leaving,     \* unplugged devices whose cache lines are already dropped
    disk,        \* disk[d][s]: what the medium holds
    tab,         \* pc_tab
    pc_dirty,    \* pc_dirty
    busy,        \* the owner of pc_busy, where it is kept over several actions
    lock,        \* io_devlock: the client that holds a device's lock
    pc, req,     \* each client's position and request
    fl,          \* the flusher
    truth,       \* history: the last value written to each sector
    nwrites,     \* history: writes issued
    before,      \* history: truth when the flusher's pass began
    synced,      \* history: no successful pass has left an older write behind
    stale        \* history: a completed read returned something else than truth

registry == <<dstate, gen, mounted, leaving>>
cache == <<tab, pc_dirty>>
history == <<truth, nwrites, before, synced, stale>>
vars == <<registry, disk, cache, busy, lock, pc, req, fl, history>>

-----------------------------------------------------------------------------
(* The page table.                                                         *)

PageOf(s) == s \div SPP
Off(s) == s % SPP
SectorAt(page, o) == page * SPP + o
DiskPage(d, page) == [o \in Offsets |-> disk[d][SectorAt(page, o)]]

EmptyLine == [dev |-> Nobody, page |-> 0, gen |-> 0, dgen |-> 0,
              up |-> FALSE, dirty |-> FALSE, data |-> [o \in Offsets |-> Zeros]]

(* devmgr_get_generation: 0 for an empty slot. *)
Generation(d) == IF dstate[d] = "DEAD" THEN 0 ELSE gen[d]

(* Mutant: a line of an earlier registration still hits. *)
KeyIsSet(cached, live) == cached # 0

(* blkcache_device_key_is_current. *)
KeyIsCurrent(cached, live) == cached # 0 /\ cached = live

(* pc_lookup scans the whole table after the hash neighbourhood. *)
Hit(l, d, page) ==
    /\ tab[l].up
    /\ tab[l].dev = d
    /\ KeyIsCurrent(tab[l].dgen, Generation(d))
    /\ tab[l].page = page

Cached(d, page) == \E l \in Lines : Hit(l, d, page)
LineOf(d, page) == CHOOSE l \in Lines : Hit(l, d, page)

(* Mutant: dirty lines are stolen. *)
ReusableAny(S) ==
    LET empty == {l \in S : ~tab[l].up}
    IN  IF empty # {} THEN empty ELSE S

(* pc_claim takes an empty line among the probed ones, else a clean one of  *)
(* them, else the same of the whole table, and never a dirty one. Of the   *)
(* clean lines it takes the oldest; the ages are left out, so any will do. *)
Reusable(S) ==
    LET empty == {l \in S : ~tab[l].up}
    IN  IF empty # {} THEN empty ELSE {l \in S : ~tab[l].dirty}

Claimable(d, page) ==
    LET near == Reusable(Probed[<<d, page>>])
    IN  IF near # {} THEN near ELSE Reusable(Lines)

(* Mutant: a line is claimed without looking the page up. *)
ClaimBlindly(d, page) == Claimable(d, page)

(* The line pc_lookup or else pc_claim would return. *)
LineFor(d, page) ==
    IF Cached(d, page) THEN {LineOf(d, page)} ELSE Claimable(d, page)

-----------------------------------------------------------------------------
(* Clients.                                                                *)

SectorsIn(ext) == ext[1] .. ext[2]
PagesIn(ext) == PageOf(ext[1]) .. PageOf(ext[2])

(* Mutant: blkcache_write tests the end of the range only. *)
AlignedEnd(ext) == Off(ext[2]) = SPP - 1
Aligned(ext) == Off(ext[1]) = 0 /\ Off(ext[2]) = SPP - 1

NoReq == [op |-> "none", dev |-> Nobody, ext |-> <<0, 0>>, dgen |-> 0, n |-> 0,
          page |-> 0, run |-> <<0, 0>>, buf |-> [s \in Sectors |-> Zeros]]

InExec == {"exec", "scan", "transfer", "install", "copy", "apply", "direct", "done"}

(* The references on d that keep a quiescing slot. *)
Users(d) == {c \in Clients : pc[c] \in InExec /\ req[c].dev = d}
Pinned(d) == d \in mounted \/ Users(d) # {}

Goto(c, p) == pc' = [pc EXCEPT ![c] = p]

(* blkcache_get and pc_copy_out: the data a hit returns against the truth. *)
AllCached(d, ext) == \A page \in PagesIn(ext) : Cached(d, page)
CacheIsLatest(d, ext) ==
    \A s \in SectorsIn(ext) : tab[LineOf(d, PageOf(s))].data[Off(s)] = truth[d][s]
DiskIsLatest(d, ext) == \A s \in SectorsIn(ext) : disk[d][s] = truth[d][s]

(* A write carries its number in the order of the device lock. *)
Data(c) == [gen |-> req[c].dgen, n |-> req[c].n]

(* dex32_requestIO up to bio_submit_sync: the reference is taken and put,  *)
(* and a read that hits the cache is complete.                             *)
Request(c, d, op, ext) ==
    /\ pc[c] = "idle"
    /\ dstate[d] = "LIVE"
    /\ busy = Nobody
    /\ op = "write" =>
          nwrites + Cardinality({w \in Clients : pc[w] = "lock" /\ req[w].op = "write"}) < MaxWrites
    /\ IF op = "read" /\ AllCached(d, ext)
       THEN /\ stale' = (stale \/ ~CacheIsLatest(d, ext))
            /\ UNCHANGED <<pc, req>>
       ELSE /\ Goto(c, "lock")
            /\ req' = [req EXCEPT ![c] = [NoReq EXCEPT
                          !.op = op, !.dev = d, !.ext = ext, !.dgen = gen[d],
                          !.page = PageOf(ext[1])]]
            /\ UNCHANGED stale
    /\ UNCHANGED <<registry, disk, cache, busy, lock, fl, truth, nwrites, before, synced>>

(* iomgr_lockdev and the reference of iomgr_execjob, which rejects a device *)
(* that is quiescing or that replaced the one the request was made for.    *)
Lock(c) ==
    LET d == req[c].dev
        accepted == dstate[d] = "LIVE" /\ req[c].dgen = gen[d]
    IN  /\ pc[c] = "lock"
        /\ lock[d] = Nobody
        /\ Goto(c, IF accepted THEN "exec" ELSE "idle")
        /\ lock' = IF accepted THEN [lock EXCEPT ![d] = c] ELSE lock
        /\ nwrites' = IF accepted /\ req[c].op = "write" THEN nwrites + 1 ELSE nwrites
        /\ req' = [req EXCEPT ![c] = IF accepted THEN [@ EXCEPT !.n = nwrites'] ELSE NoReq]
        /\ UNCHANGED <<registry, disk, cache, busy, fl, truth, before, synced, stale>>

(* blkcache_read's first pc_copy_out. *)
Lookup(c) ==
    LET d == req[c].dev
        ext == req[c].ext
    IN  /\ pc[c] = "exec"
        /\ req[c].op = "read"
        /\ busy = Nobody
        /\ Goto(c, IF AllCached(d, ext) THEN "done" ELSE "scan")
        /\ stale' = (stale \/ (AllCached(d, ext) /\ ~CacheIsLatest(d, ext)))
        /\ UNCHANGED <<registry, disk, cache, busy, lock, req, fl, truth, nwrites, before, synced>>

(* blkcache_write fills the pages of a partial write first. *)
WriteStart(c) ==
    /\ pc[c] = "exec"
    /\ req[c].op = "write"
    /\ Goto(c, IF Aligned(req[c].ext) THEN "apply" ELSE "scan")
    /\ UNCHANGED <<registry, disk, cache, busy, lock, req, fl, history>>

(* pc_fill_range: the next run of missing pages. *)
FillScan(c) ==
    LET d == req[c].dev
        last == PageOf(req[c].ext[2])
        missing == {p \in req[c].page .. last : ~Cached(d, p)}
        first == CHOOSE p \in missing : \A q \in missing : p <= q
        run == {p \in missing : /\ first .. p \subseteq missing
                                /\ p - first + 1 <= MaxRun}
        end == CHOOSE p \in run : \A q \in run : q <= p
    IN  /\ pc[c] = "scan"
        /\ busy = Nobody
        /\ IF missing = {}
           THEN /\ Goto(c, IF req[c].op = "read" THEN "copy" ELSE "apply")
                /\ req' = [req EXCEPT ![c].page = PageOf(req[c].ext[1])]
           ELSE /\ Goto(c, "transfer")
                /\ req' = [req EXCEPT ![c].run = <<first, end>>, ![c].page = first]
        /\ UNCHANGED <<registry, disk, cache, busy, lock, fl, history>>

(* pc_dev_rw of the run. The bounce buffer is the client's buf. *)
FillTransfer(c) ==
    /\ pc[c] = "transfer"
    /\ dstate[req[c].dev] = "LIVE"
    /\ Goto(c, "install")
    /\ req' = [req EXCEPT ![c].buf = [s \in Sectors |->
                  IF PageOf(s) \in req[c].run[1] .. req[c].run[2]
                  THEN disk[req[c].dev][s] ELSE Zeros]]
    /\ UNCHANGED <<registry, disk, cache, busy, lock, fl, history>>

(* A failed fill sends the whole request to the device. *)
FillFails(c) ==
    /\ pc[c] = "transfer"
    /\ IOErrors \/ dstate[req[c].dev] # "LIVE"
    /\ Goto(c, "direct")
    /\ UNCHANGED <<registry, disk, cache, busy, lock, req, fl, history>>

(* One page of the install loop: a page that appeared meanwhile is kept,   *)
(* and one for which no line can be claimed is skipped. The line carries   *)
(* the generation of the transfer.                                         *)
InstallPage(c) ==
    LET d == req[c].dev
        page == req[c].page
        last == page = req[c].run[2]
        new == [dev |-> d, page |-> page, gen |-> 0, dgen |-> gen[d],
                up |-> TRUE, dirty |-> FALSE,
                data |-> [o \in Offsets |-> req[c].buf[SectorAt(page, o)]]]
    IN  /\ pc[c] = "install"
        /\ busy \in {Nobody, c}
        /\ \/ /\ Cached(d, page) \/ Claimable(d, page) = {}
              /\ UNCHANGED tab
           \/ /\ ~Cached(d, page)
              /\ \E l \in Claimable(d, page) : tab' = [tab EXCEPT ![l] = new]
        /\ busy' = IF last THEN Nobody ELSE c
        /\ Goto(c, IF last THEN "scan" ELSE "install")
        /\ req' = [req EXCEPT ![c].page = page + 1]
        /\ UNCHANGED <<registry, disk, pc_dirty, lock, fl, history>>

(* blkcache_read's second pc_copy_out. *)
CopyOut(c) ==
    LET d == req[c].dev
        ext == req[c].ext
    IN  /\ pc[c] = "copy"
        /\ busy = Nobody
        /\ Goto(c, IF AllCached(d, ext) THEN "done" ELSE "direct")
        /\ stale' = (stale \/ (AllCached(d, ext) /\ ~CacheIsLatest(d, ext)))
        /\ UNCHANGED <<registry, disk, cache, busy, lock, req, fl, truth, nwrites, before, synced>>

(* Sector values after the write of request c: a whole range, or a page.   *)
Written(c, old, S) == [s \in Sectors |-> IF s \in S THEN Data(c) ELSE old[s]]
SectorsOf(c, page) == {s \in SectorsIn(req[c].ext) : PageOf(s) = page}

(* One page of blkcache_write's loop: a page that is not cached is claimed *)
(* and, when the write covers part of it, zeroed. When no line can be      *)
(* claimed the loop ends and the whole range goes to the device.           *)
ApplyPage(c) ==
    LET d == req[c].dev
        page == req[c].page
        last == page = PageOf(req[c].ext[2])
        S == SectorsOf(c, page)
        Base(l) == IF Hit(l, d, page) THEN tab[l]
                   ELSE [EmptyLine EXCEPT !.dev = d, !.page = page, !.dgen = Generation(d)]
        Dirtied(l) == [Base(l) EXCEPT
            !.gen = @ + 1, !.up = TRUE, !.dirty = TRUE,
            !.data = [o \in Offsets |-> IF SectorAt(page, o) \in S THEN Data(c) ELSE @[o]]]
    IN  /\ pc[c] = "apply"
        /\ busy \in {Nobody, c}
        /\ \/ /\ LineFor(d, page) = {}
              /\ busy' = Nobody
              /\ Goto(c, "direct")
              /\ UNCHANGED <<cache, req, truth>>
           \/ /\ \E l \in LineFor(d, page) :
                   /\ tab' = [tab EXCEPT ![l] = Dirtied(l)]
                   /\ pc_dirty' = IF Base(l).dirty THEN pc_dirty ELSE pc_dirty + 1
              /\ truth' = [truth EXCEPT ![d] = Written(c, @, S)]
              /\ busy' = IF last THEN Nobody ELSE c
              /\ Goto(c, IF last THEN "done" ELSE "apply")
              /\ req' = [req EXCEPT ![c].page = page + 1]
        /\ UNCHANGED <<registry, disk, lock, fl, nwrites, before, synced, stale>>

(* pc_dev_rw of the whole range, past the cache. *)
Direct(c) ==
    LET d == req[c].dev
        ext == req[c].ext
    IN  /\ pc[c] = "direct"
        /\ dstate[d] = "LIVE"
        /\ Goto(c, "done")
        /\ IF req[c].op = "read"
           THEN /\ stale' = (stale \/ ~DiskIsLatest(d, ext))
                /\ UNCHANGED <<disk, truth>>
           ELSE /\ disk' = [disk EXCEPT ![d] = Written(c, @, SectorsIn(ext))]
                /\ truth' = [truth EXCEPT ![d] = Written(c, @, SectorsIn(ext))]
                /\ UNCHANGED stale
        /\ UNCHANGED <<registry, cache, busy, lock, req, fl, nwrites, before, synced>>

DirectFails(c) ==
    /\ pc[c] = "direct"
    /\ IOErrors \/ dstate[req[c].dev] # "LIVE"
    /\ Goto(c, "done")
    /\ UNCHANGED <<registry, disk, cache, busy, lock, req, fl, history>>

(* The end of iomgr_execjob: devmgr_putdevice, which retires a quiescing   *)
(* slot with the last reference, and iomgr_unlockdev.                      *)
Finish(c) ==
    LET d == req[c].dev
    IN  /\ pc[c] = "done"
        /\ Goto(c, "idle")
        /\ lock' = [lock EXCEPT ![d] = Nobody]
        /\ req' = [req EXCEPT ![c] = NoReq]
        /\ dstate' = IF dstate[d] = "QUIESCING" /\ d \notin mounted /\ Users(d) = {c}
                     THEN [dstate EXCEPT ![d] = "DEAD"] ELSE dstate
        /\ UNCHANGED <<gen, mounted, leaving, disk, cache, busy, fl, history>>

-----------------------------------------------------------------------------
(* The flusher: one pass of blkcache_flush over the table.                 *)

NoFlush == [pc |-> "idle", i |-> 0, dev |-> Nobody, page |-> 0, gen |-> 0, dgen |-> 0,
            data |-> [o \in Offsets |-> Zeros]]

(* Mutant: the pass stops one line early. *)
NextLineShort == [NoFlush EXCEPT !.pc = IF fl.i >= NLines - 1 THEN "return" ELSE "scan", !.i = fl.i + 1]

(* After line i: the next line, or the end of the pass with result 1. *)
NextLine == [NoFlush EXCEPT !.pc = IF fl.i = NLines THEN "return" ELSE "scan", !.i = fl.i + 1]

FlushStart ==
    /\ fl.pc = "idle"
    /\ fl' = [NoFlush EXCEPT !.pc = "scan", !.i = 1]
    /\ before' = truth
    /\ UNCHANGED <<registry, disk, cache, busy, lock, pc, req, truth, nwrites, synced, stale>>

(* disk_mgr's periodic pass asks blkcache_has_dirty first. *)
DaemonFlush == pc_dirty # 0 /\ FlushStart

(* The copy of a dirty line. *)
FlushCopy ==
    LET p == tab[fl.i]
    IN  /\ fl.pc = "scan"
        /\ busy = Nobody
        /\ fl' = IF p.up /\ p.dirty
                 THEN [pc |-> "check", i |-> fl.i, dev |-> p.dev, page |-> p.page,
                       gen |-> p.gen, dgen |-> p.dgen, data |-> p.data]
                 ELSE NextLine
        /\ UNCHANGED <<registry, disk, cache, busy, lock, pc, req, history>>

(* A line of a device that is gone is dropped, and the pass fails. *)
FlushCheck ==
    LET p == tab[fl.i]
        drop == p.dev = fl.dev /\ p.page = fl.page /\ p.dgen = fl.dgen
    IN  /\ fl.pc = "check"
        /\ IF KeyIsCurrent(fl.dgen, Generation(fl.dev))
           THEN /\ fl' = [fl EXCEPT !.pc = "write"]
                /\ UNCHANGED cache
           ELSE /\ busy = Nobody
                /\ fl' = NoFlush
                /\ tab' = IF drop THEN [tab EXCEPT ![fl.i] = [@ EXCEPT
                                          !.up = FALSE, !.dirty = FALSE, !.dev = Nobody]]
                          ELSE tab
                /\ pc_dirty' = IF drop /\ p.dirty /\ pc_dirty # 0 THEN pc_dirty - 1 ELSE pc_dirty
        /\ UNCHANGED <<registry, disk, busy, lock, pc, req, history>>

(* blk_mq_lock, pc_dev_rw with the generation of the copy, blk_mq_unlock. *)
FlushWrite ==
    /\ fl.pc = "write"
    /\ lock[fl.dev] = Nobody
    /\ dstate[fl.dev] = "LIVE"
    /\ gen[fl.dev] = fl.dgen
    /\ disk' = [disk EXCEPT ![fl.dev] = [s \in Sectors |->
                   IF PageOf(s) = fl.page THEN fl.data[Off(s)] ELSE @[s]]]
    /\ fl' = [fl EXCEPT !.pc = "clear"]
    /\ UNCHANGED <<registry, cache, busy, lock, pc, req, history>>

(* Mutant: a failed transfer is skipped and the pass reports success. *)
FlushSkips ==
    /\ fl.pc = "write"
    /\ lock[fl.dev] = Nobody
    /\ IOErrors \/ dstate[fl.dev] # "LIVE" \/ gen[fl.dev] # fl.dgen
    /\ fl' = NextLine
    /\ UNCHANGED <<registry, disk, cache, busy, lock, pc, req, history>>

(* The pass ends at the first transfer that fails. *)
FlushFails ==
    /\ fl.pc = "write"
    /\ lock[fl.dev] = Nobody
    /\ IOErrors \/ dstate[fl.dev] # "LIVE" \/ gen[fl.dev] # fl.dgen
    /\ fl' = NoFlush
    /\ UNCHANGED <<registry, disk, cache, busy, lock, pc, req, history>>

(* Mutants: writes made during the transfer are not noticed, or the number *)
(* is compared after the increment.                                        *)
WritebackAnyGen(p) == p.dev = fl.dev /\ p.page = fl.page
WritebackOffByOne(p) == p.dev = fl.dev /\ p.page = fl.page /\ p.gen = fl.gen + 1

(* blkcache_writeback_is_current: the key of the line and the number of    *)
(* writes to it.                                                           *)
WritebackIsCurrent(p) == p.dev = fl.dev /\ p.page = fl.page /\ p.gen = fl.gen

FlushClear ==
    LET clear == WritebackIsCurrent(tab[fl.i]) /\ tab[fl.i].dirty
    IN  /\ fl.pc = "clear"
        /\ busy = Nobody
        /\ tab' = IF clear THEN [tab EXCEPT ![fl.i].dirty = FALSE] ELSE tab
        /\ pc_dirty' = IF clear /\ pc_dirty # 0 THEN pc_dirty - 1 ELSE pc_dirty
        /\ fl' = NextLine
        /\ UNCHANGED <<registry, disk, busy, lock, pc, req, history>>

(* blkcache_flush returns 1. *)
NotOlder(v, w) == v.gen # w.gen \/ v.n >= w.n
FlushReturn ==
    /\ fl.pc = "return"
    /\ fl' = NoFlush
    /\ synced' = (synced /\ \A d \in Devs \ leaving, s \in Sectors :
                     dstate[d] = "LIVE" => NotOlder(disk[d][s], before[d][s]))
    /\ UNCHANGED <<registry, disk, cache, busy, lock, pc, req, truth, nwrites, before, stale>>

-----------------------------------------------------------------------------
(* The registry, as usb_xhci_disconnect_offline and the mounts drive it.   *)

Mount(d) ==
    /\ dstate[d] = "LIVE" /\ d \notin mounted
    /\ mounted' = mounted \cup {d}
    /\ UNCHANGED <<dstate, gen, leaving, disk, cache, busy, lock, pc, req, fl, history>>

Unmount(d) ==
    /\ d \in mounted
    /\ mounted' = mounted \ {d}
    /\ dstate' = IF dstate[d] = "QUIESCING" /\ Users(d) = {}
                 THEN [dstate EXCEPT ![d] = "DEAD"] ELSE dstate
    /\ UNCHANGED <<gen, leaving, disk, cache, busy, lock, pc, req, fl, history>>

(* Mutant: dropped dirty lines stay counted. *)
InvalidateUncounted(d) ==
    /\ dstate[d] = "LIVE" /\ d \in Removable \ leaving
    /\ busy = Nobody
    /\ leaving' = leaving \cup {d}
    /\ tab' = [l \in Lines |-> IF tab[l].dev = d
                   THEN [tab[l] EXCEPT !.up = FALSE, !.dirty = FALSE, !.dev = Nobody]
                   ELSE tab[l]]
    /\ UNCHANGED <<dstate, gen, mounted, disk, pc_dirty, busy, lock, pc, req, fl, history>>

(* blkcache_invalidate_device, the first half of an unplug. *)
Invalidate(d) ==
    LET lost == {l \in Lines : tab[l].dev = d}
    IN  /\ dstate[d] = "LIVE" /\ d \in Removable \ leaving
        /\ busy = Nobody
        /\ leaving' = leaving \cup {d}
        /\ tab' = [l \in Lines |-> IF l \in lost
                       THEN [tab[l] EXCEPT !.up = FALSE, !.dirty = FALSE, !.dev = Nobody]
                       ELSE tab[l]]
        /\ pc_dirty' = pc_dirty - Cardinality({l \in lost : tab[l].dirty})
        /\ UNCHANGED <<dstate, gen, mounted, disk, busy, lock, pc, req, fl, history>>

(* devmgr_quiesce_device, the second half. *)
Quiesce(d) ==
    /\ d \in leaving /\ dstate[d] = "LIVE"
    /\ dstate' = [dstate EXCEPT ![d] = IF Pinned(d) THEN "QUIESCING" ELSE "DEAD"]
    /\ UNCHANGED <<gen, mounted, leaving, disk, cache, busy, lock, pc, req, fl, history>>

(* Another medium is registered in the slot. *)
Register(d) ==
    /\ dstate[d] = "DEAD" /\ gen[d] < MaxGen
    /\ dstate' = [dstate EXCEPT ![d] = "LIVE"]
    /\ gen' = [gen EXCEPT ![d] = @ + 1]
    /\ leaving' = leaving \ {d}
    /\ disk' = [disk EXCEPT ![d] = [s \in Sectors |-> Fresh(gen'[d])]]
    /\ truth' = [truth EXCEPT ![d] = disk'[d]]
    /\ UNCHANGED <<mounted, cache, busy, lock, pc, req, fl, nwrites, before, synced, stale>>

-----------------------------------------------------------------------------
Init ==
    /\ dstate = [d \in Devs |-> "LIVE"]
    /\ gen = [d \in Devs |-> 1]
    /\ mounted = {} /\ leaving = {}
    /\ disk = [d \in Devs |-> [s \in Sectors |-> Fresh(1)]]
    /\ tab = [l \in Lines |-> EmptyLine]
    /\ pc_dirty = 0
    /\ busy = Nobody
    /\ lock = [d \in Devs |-> Nobody]
    /\ pc = [c \in Clients |-> "idle"]
    /\ req = [c \in Clients |-> NoReq]
    /\ fl = NoFlush
    /\ truth = disk /\ before = disk
    /\ nwrites = 0
    /\ synced = TRUE /\ stale = FALSE

(* The steps of a request once it is made. *)
ClientStep(c) ==
    \/ Lock(c) \/ Lookup(c) \/ WriteStart(c)
    \/ FillScan(c) \/ FillTransfer(c) \/ FillFails(c) \/ InstallPage(c)
    \/ CopyOut(c) \/ ApplyPage(c) \/ Direct(c) \/ DirectFails(c)
    \/ Finish(c)

FlushStep == FlushCopy \/ FlushCheck \/ FlushWrite \/ FlushFails \/ FlushClear \/ FlushReturn

RegistryStep == \E d \in Devs : Mount(d) \/ Unmount(d) \/ Invalidate(d) \/ Quiesce(d) \/ Register(d)

Next ==
    \/ \E c \in Clients, d \in Devs, op \in {"read", "write"}, ext \in Extents :
          Request(c, d, op, ext)
    \/ \E c \in Clients : ClientStep(c)
    \/ FlushStart \/ FlushStep
    \/ RegistryStep

Spec == Init /\ [][Next]_vars

(* Threads in a call keep running, and disk_mgr keeps making passes.       *)
Fairness ==
    /\ \A c \in Clients : WF_vars(ClientStep(c))
    /\ WF_vars(FlushStep) /\ WF_vars(DaemonFlush)
    /\ \A d \in Devs : WF_vars(Quiesce(d))

FairSpec == Spec /\ Fairness

-----------------------------------------------------------------------------
(* Properties.                                                             *)

Content == [Offsets -> Value]
LineType == [dev : Devs \cup {Nobody}, page : Pages, gen : Nat, dgen : 0 .. MaxGen,
             up : BOOLEAN, dirty : BOOLEAN, data : Content]

(* Every variable has the type of the C object it stands for; in           *)
(* particular pc_dirty never underflows.                                   *)
TypeOK ==
    /\ dstate \in [Devs -> {"LIVE", "QUIESCING", "DEAD"}]
    /\ gen \in [Devs -> 1 .. MaxGen]
    /\ mounted \subseteq Devs /\ leaving \subseteq Removable
    /\ disk \in [Devs -> [Sectors -> Value]]
    /\ tab \in [Lines -> LineType]
    /\ pc_dirty \in 0 .. NLines
    /\ busy \in Clients \cup {Nobody}
    /\ lock \in [Devs -> Clients \cup {Nobody}]
    /\ pc \in [Clients -> InExec \cup {"idle", "lock"}]
    /\ fl.pc \in {"idle", "scan", "check", "write", "clear", "return"}
    /\ truth \in [Devs -> [Sectors -> Value]]

(* What a request for sector s of d would find: the cache first. *)
View(d, s) ==
    IF Cached(d, PageOf(s)) THEN tab[LineOf(d, PageOf(s))].data[Off(s)] ELSE disk[d][s]

InService(d) == dstate[d] = "LIVE" /\ d \notin leaving

(* No write is lost and none is undone: whatever evictions, fills, redirty *)
(* and write-back interleave, the cache over the disk holds the last write *)
(* to every sector, apart from a write that is being sent past the cache.  *)
Coherent ==
    \A d \in Devs, s \in Sectors :
        InService(d) /\ ~(\E c \in Users(d) : pc[c] = "direct") => View(d, s) = truth[d][s]

(* A completed read returned the last write to each of its sectors.        *)
ReadsLatest == ~stale

(* A clean line of a device in service is what the medium holds: PC_DIRTY  *)
(* is cleared only when exactly that content has been written.             *)
CleanOnDisk ==
    \A l \in Lines :
        LET p == tab[l] IN
        p.up /\ ~p.dirty /\ p.dev # Nobody =>
            (InService(p.dev) /\ KeyIsCurrent(p.dgen, Generation(p.dev)) =>
                p.data = DiskPage(p.dev, p.page))

(* pc_dirty, which decides whether disk_mgr flushes at all, is the number  *)
(* of dirty lines.                                                         *)
DirtyCountExact == pc_dirty = Cardinality({l \in Lines : tab[l].dirty})

(* A page is never cached twice under the current generation of its device. *)
OneLinePerPage ==
    \A l, k \in Lines : \A d \in Devs, page \in Pages :
        Hit(l, d, page) /\ Hit(k, d, page) => l = k

(* When a pass of iomgr_flushmgr succeeds, every write completed before it *)
(* began is on the medium (what sys_fsync reports to its caller).          *)
FlushDurable == synced

(* Data meant for one registration of a slot never reaches the medium of   *)
(* another, nor is it served from the cache for another: requests, fills   *)
(* and write-back carry the generation to the transfer.                    *)
NoCrossGeneration ==
    \A d \in Devs, s \in Sectors :
        dstate[d] # "DEAD" => /\ disk[d][s].gen = gen[d]
                              /\ View(d, s).gen \in {gen[d], 0}

(* Once requests stop, a dirty page of a device in service is written back *)
(* by disk_mgr's passes. (The device lock does not queue its waiters, so    *)
(* nothing is claimed while requests keep coming.)                         *)
DirtyIsWritten ==
    <>[](\A c \in Clients : pc[c] = "idle") =>
        \A l \in Lines :
            (tab[l].dirty /\ tab[l].dev # Nobody) ~>
                (~tab[l].dirty \/ \E d \in Devs : ~InService(d) /\ tab[l].dev = d)
====
