---------------------------- MODULE DevMgrProofs ----------------------------
(***************************************************************************)
(* Proofs about DevMgr: the reference count is exact and pins descriptors, *)
(* for any number of slots, names and users.                               *)
(***************************************************************************)
EXTENDS DevMgr, FiniteSetTheorems, TLAPS

(* Which uses a user can hold references for at each point of its calls.   *)
UsesAt(p) ==
    CASE p \in {"op", "flush"} -> {"op"}
      [] p = "claimDev" -> {"fs"}
      [] p \in {"mounted", "unlock", "putFs"} -> {"fs", "dev"}
      [] p = "putDev" -> {"dev"}
      [] OTHER -> {}

HeldShape ==
    \A u \in Users, use \in Uses :
        /\ use \notin UsesAt(pc[u]) => held[<<u, use>>] = {}
        /\ pc[u] # "flush" => \A d, e \in held[<<u, use>>] : d = e

(* An occupied slot is live or quiescing, and holds its own descriptor.    *)
SlotShape ==
    \A s \in Slots :
        /\ Occupied(s) <=> state[s] \in {"LIVE", "QUIESCING"}
        /\ Occupied(s) => devlist[s].id = s
        /\ state[s] = "QUIESCING" => refs[s] # 0

RefCount ==
    \A s \in Slots : Occupied(s) =>
        /\ IsFiniteSet(Holders(devlist[s]))
        /\ refs[s] = Cardinality(Holders(devlist[s]))

IInv == TypeOK /\ HeldShape /\ SlotShape /\ HeldDevicesPinned /\ RefCount

-----------------------------------------------------------------------------
(* The initial state has no devices and no references.                     *)
LEMMA InitIInv == Init => IInv
  <1> SUFFICES ASSUME Init PROVE IInv
    OBVIOUS
  <1>1. TypeOK
    BY DevMgrAssumption, NoDevAssumption DEF Init, TypeOK, NoIds, States, PCs, Slots
  <1>2. HeldShape /\ SlotShape /\ HeldDevicesPinned /\ RefCount
    BY DEF Init, HeldShape, SlotShape, HeldDevicesPinned, RefCount, Occupied
  <1> QED BY <1>1, <1>2 DEF IInv

(* Taking one reference on each slot of S, for a use the user holds nothing *)
(* for, keeps the count exact.                                             *)
LEMMA TakeKeepsCount ==
    ASSUME IInv, NEW u \in Users, NEW use \in Uses, NEW S \in SUBSET Slots,
           (\A s \in S : CanGet(s)), held[<<u, use>>] = {}, Take(u, use, S)
    PROVE  /\ RefCount' /\ HeldDevicesPinned' /\ SlotShape'
           /\ refs' \in [Slots -> 0 .. MaxRefs]
           /\ held' \in [Users \X Uses -> SUBSET Desc]
           /\ held' = [held EXCEPT ![<<u, use>>] = {devlist[s] : s \in S}]
           /\ devlist' = devlist /\ state' = state /\ generation' = generation
           /\ \A s \in S : devlist[s] \in Desc /\ devlist[s].id = s
  <1>0. TypeOK /\ HeldShape /\ SlotShape /\ HeldDevicesPinned /\ RefCount
    BY DEF IInv
  <1> DEFINE h0 == <<u, use>>
             D == {devlist[s] : s \in S}
  <1>1. \A s \in S : devlist[s] \in Desc /\ devlist[s].id = s /\ refs[s] < MaxRefs
    BY <1>0 DEF TypeOK, CanGet, IsLive, Occupied, SlotShape
  <1>2. /\ devlist' = devlist /\ state' = state /\ generation' = generation
        /\ refs' = [s \in Slots |-> IF s \in S THEN refs[s] + 1 ELSE refs[s]]
        /\ held' = [held EXCEPT ![h0] = D]
        /\ h0 \in Users \X Uses /\ held[h0] = {}
    BY DEF Take, GetAll
  <1>3. refs' \in [Slots -> 0 .. MaxRefs]
    BY <1>0, <1>1, <1>2, DevMgrAssumption DEF TypeOK
  <1>4. D \subseteq Desc
    BY <1>1
  <1>5. held' \in [Users \X Uses -> SUBSET Desc]
    BY <1>0, <1>2, <1>4 DEF TypeOK
  <1>6. HeldDevicesPinned'
    BY <1>0, <1>1, <1>2 DEF TypeOK, HeldDevicesPinned
  <1>7. SlotShape'
    BY <1>0, <1>2 DEF TypeOK, SlotShape, Occupied
  <1>8. RefCount'
    <2> SUFFICES ASSUME NEW s \in Slots, Occupied(s)
                 PROVE  /\ IsFiniteSet(Holders(devlist[s])')
                        /\ refs'[s] = Cardinality(Holders(devlist[s])')
      BY <1>2 DEF RefCount, Occupied
    <2> DEFINE H == Holders(devlist[s])
    <2>1. IsFiniteSet(H) /\ refs[s] = Cardinality(H) /\ devlist[s].id = s
      BY <1>0 DEF RefCount, SlotShape
    <2>2. devlist[s] \in D <=> s \in S
      BY <1>1, <2>1
    <2>3. CASE s \in S
      <3>1. Holders(devlist[s])' = H \cup {h0} /\ h0 \notin H
        BY Zenon, <1>0, <1>2, <2>2, <2>3 DEF Holders, TypeOK
      <3>2. IsFiniteSet(H \cup {h0}) /\ Cardinality(H \cup {h0}) = Cardinality(H) + 1
        BY <2>1, <3>1, FS_AddElement
      <3> QED BY <1>2, <2>1, <2>3, <3>1, <3>2
    <2>4. CASE s \notin S
      <3>1. Holders(devlist[s])' = H
        BY Zenon, <1>0, <1>2, <2>2, <2>4 DEF Holders, TypeOK
      <3> QED BY <1>2, <2>1, <2>4, <3>1
    <2> QED BY <2>3, <2>4
  <1> QED BY <1>1, <1>2, <1>3, <1>5, <1>6, <1>7, <1>8

(* Dropping a reference in hand keeps the count exact: one holder goes, and *)
(* the descriptor is retired only when that was the last holder.           *)
LEMMA DropKeepsCount ==
    ASSUME IInv, NEW u \in Users, NEW use \in Uses, NEW d \in held[<<u, use>>],
           Drop(u, use, d)
    PROVE  /\ RefCount' /\ HeldDevicesPinned' /\ SlotShape'
           /\ devlist' \in [Slots -> Desc \cup {NoDev}]
           /\ state' \in [Slots -> States]
           /\ refs' \in [Slots -> 0 .. MaxRefs]
           /\ held' \in [Users \X Uses -> SUBSET Desc]
           /\ held' = [held EXCEPT ![<<u, use>>] = held[<<u, use>>] \ {d}]
           /\ locked' = locked /\ generation' = generation
  <1>0. TypeOK /\ HeldShape /\ SlotShape /\ HeldDevicesPinned /\ RefCount
    BY DEF IInv
  <1> DEFINE h0 == <<u, use>>
             k == d.id
             H == Holders(d)
             gone == CanRetire(state[k], refs[k] - 1)
  <1>1. h0 \in Users \X Uses /\ d \in Desc /\ k \in Slots /\ devlist[k] = d /\ d # NoDev
    BY <1>0, NoDevAssumption DEF TypeOK, HeldDevicesPinned, Desc
  <1>2. IsFiniteSet(H) /\ refs[k] = Cardinality(H) /\ h0 \in H
    BY <1>0, <1>1 DEF RefCount, Occupied, Holders
  <1>3. IsFiniteSet(H \ {h0}) /\ Cardinality(H \ {h0}) = refs[k] - 1
    BY Zenon, <1>2, FS_RemoveElement
  <1>4. refs[k] # 0
    BY <1>2, FS_EmptySet
  <1>5. /\ devlist' = IF gone THEN [devlist EXCEPT ![k] = NoDev] ELSE devlist
        /\ state' = [state EXCEPT ![k] = IF gone THEN "DEAD" ELSE state[k]]
        /\ refs' = [refs EXCEPT ![k] = refs[k] - 1]
        /\ held' = [held EXCEPT ![h0] = held[h0] \ {d}]
        /\ locked' = locked /\ generation' = generation
    BY <1>0, <1>1, <1>4 DEF TypeOK, Drop, Put, StoreOrRetire
  <1>6. refs[k] - 1 \in 0 .. MaxRefs
    <2>1. refs[k] \in 0 .. MaxRefs
      BY <1>0, <1>1 DEF TypeOK
    <2> QED BY <2>1, <1>4, DevMgrAssumption
  <1>7. /\ devlist' \in [Slots -> Desc \cup {NoDev}]
        /\ refs' \in [Slots -> 0 .. MaxRefs]
        /\ held' \in [Users \X Uses -> SUBSET Desc]
    BY <1>0, <1>1, <1>5, <1>6 DEF TypeOK
  <1>8. state' \in [Slots -> States]
    BY <1>0, <1>1, <1>5 DEF TypeOK, States
  <1>10. gone => H \ {h0} = {}
    BY <1>3, FS_EmptySet DEF CanRetire
  <1>11. HeldDevicesPinned'
    <2> SUFFICES ASSUME NEW h \in Users \X Uses, NEW e \in held'[h]
                 PROVE  devlist'[e.id] = e
      BY DEF HeldDevicesPinned
    <2>0. e \in held[h]
      BY Zenon, <1>0, <1>1, <1>5 DEF TypeOK
    <2>1. e \in Desc /\ e.id \in Slots /\ devlist[e.id] = e
      BY <1>0, <2>0 DEF TypeOK, HeldDevicesPinned, Desc
    <2>2. e = d => h \in H \ {h0}
      BY <1>0, <1>1, <1>5, <2>0 DEF TypeOK, Holders
    <2>3. e = d => ~gone
      BY <2>2, <1>10
    <2> QED BY <1>0, <1>1, <1>5, <2>1, <2>3 DEF TypeOK
  <1>12. SlotShape'
    BY <1>0, <1>1, <1>4, <1>5, <1>6, NoDevAssumption
       DEF TypeOK, SlotShape, Occupied, CanRetire
  <1>13. RefCount'
    <2> SUFFICES ASSUME NEW s \in Slots, devlist'[s] # NoDev
                 PROVE  /\ IsFiniteSet(Holders(devlist[s])')
                        /\ refs'[s] = Cardinality(Holders(devlist[s])')
      BY DEF RefCount, Occupied
    <2>1. Holders(devlist[s])' = IF devlist'[s] = d THEN H \ {h0} ELSE Holders(devlist'[s])
      BY Zenon, <1>0, <1>1, <1>5 DEF TypeOK, Holders
    <2>2. CASE s = k
      <3>1. devlist'[s] = d /\ refs'[s] = refs[k] - 1
        BY <1>0, <1>1, <1>5, <2>2 DEF TypeOK
      <3> QED BY <3>1, <1>3, <2>1
    <2>3. CASE s # k
      <3>1. devlist'[s] = devlist[s] /\ refs'[s] = refs[s] /\ devlist[s] # d
        BY <1>0, <1>1, <1>5, <2>3 DEF TypeOK, SlotShape, Occupied
      <3> QED BY <1>0, <3>1, <2>1 DEF RefCount, Occupied
    <2> QED BY <2>2, <2>3
  <1> QED BY <1>5, <1>7, <1>8, <1>11, <1>12, <1>13

(* The rest of IInv, for a step whose user u uses only its own references. *)
LEMMA ShapeOfOthers ==
    ASSUME IInv, NEW u \in Users, NEW use \in Uses, NEW D, NEW p \in PCs,
           held' = [held EXCEPT ![<<u, use>>] = D],
           pc' = [pc EXCEPT ![u] = p],
           D # {} => use \in UsesAt(p),
           p # "flush" => \A d, e \in D : d = e,
           \A w \in Uses : w # use /\ w \notin UsesAt(p) => held[<<u, w>>] = {},
           p # "flush" => pc[u] # "flush" \/ \A w \in Uses : w # use => held[<<u, w>>] = {}
    PROVE  HeldShape' /\ pc' \in [Users -> PCs]
  <1>0. TypeOK /\ HeldShape
    BY DEF IInv
  <1>1. pc' \in [Users -> PCs]
    BY <1>0 DEF TypeOK
  <1> SUFFICES ASSUME NEW v \in Users, NEW w \in Uses
               PROVE  /\ w \notin UsesAt(pc'[v]) => held'[<<v, w>>] = {}
                      /\ pc'[v] # "flush" => \A d, e \in held'[<<v, w>>] : d = e
    BY <1>1 DEF HeldShape
  <1>2. CASE v = u /\ w = use
    BY <1>0, <1>2 DEF TypeOK
  <1>3. CASE v = u /\ w # use
    <2>1. held'[<<v, w>>] = held[<<v, w>>] /\ pc'[v] = p
      BY <1>0, <1>3 DEF TypeOK
    <2> QED BY <1>0, <1>3, <2>1 DEF HeldShape
  <1>4. CASE v # u
    <2>1. held'[<<v, w>>] = held[<<v, w>>] /\ pc'[v] = pc[v]
      BY <1>0, <1>4 DEF TypeOK
    <2> QED BY <1>0, <2>1 DEF HeldShape
  <1> QED BY <1>2, <1>3, <1>4

-----------------------------------------------------------------------------
(* One step per action.                                                    *)

LEMMA RegisterInv == ASSUME IInv, NEW name \in Names, Register(name) PROVE IInv'
  <1>0. TypeOK /\ HeldShape /\ SlotShape /\ HeldDevicesPinned /\ RefCount
    BY DEF IInv
  <1>1. PICK s \in Slots :
          /\ FirstFree(s) /\ generation[s] < MaxGen
          /\ devlist' = [devlist EXCEPT ![s] =
                            [id |-> s, name |-> name, gen |-> generation[s] + 1]]
          /\ refs' = [refs EXCEPT ![s] = 0]
          /\ locked' = [locked EXCEPT ![s] = FALSE]
          /\ generation' = [generation EXCEPT ![s] = @ + 1]
          /\ state' = [state EXCEPT ![s] = "LIVE"]
          /\ pc' = pc /\ ids' = ids /\ held' = held
    BY Zenon DEF Register
  <1> DEFINE new == [id |-> s, name |-> name, gen |-> generation[s] + 1]
  <1>2. /\ devlist[s] = NoDev /\ new \in Desc /\ new # NoDev
        /\ generation[s] + 1 \in 0 .. MaxGen
    BY <1>0, <1>1, NoDevAssumption, DevMgrAssumption DEF TypeOK, FirstFree, Occupied, Desc
  <1>3. TypeOK'
    BY <1>0, <1>1, <1>2, DevMgrAssumption DEF TypeOK, States
  <1>4. HeldShape'
    BY <1>0, <1>1 DEF HeldShape
  <1>5. SlotShape'
    BY <1>0, <1>1, <1>2 DEF TypeOK, SlotShape, Occupied
  <1>6. \A h \in Users \X Uses : \A d \in held[h] : d.id \in Slots /\ d.id # s
    BY <1>0, <1>2, NoDevAssumption DEF TypeOK, HeldDevicesPinned, Desc
  <1>7. HeldDevicesPinned'
    BY <1>0, <1>1, <1>6 DEF TypeOK, HeldDevicesPinned
  <1>8. Holders(new) = {}
    BY <1>6 DEF Holders
  <1>9. RefCount'
    <2> SUFFICES ASSUME NEW t \in Slots, devlist'[t] # NoDev
                 PROVE  /\ IsFiniteSet(Holders(devlist'[t]))
                        /\ refs'[t] = Cardinality(Holders(devlist'[t]))
      BY SMTT(30), <1>1 DEF RefCount, Occupied, Holders
    <2>1. CASE t = s
      BY Zenon, <1>0, <1>1, <1>8, <2>1, FS_EmptySet DEF TypeOK
    <2>2. CASE t # s
      BY <1>0, <1>1, <2>2 DEF TypeOK, RefCount, Occupied
    <2> QED BY <2>1, <2>2
  <1> QED BY <1>3, <1>4, <1>5, <1>7, <1>9 DEF IInv

(* Quiescing a slot, by either removal call, retires it at once exactly    *)
(* when nobody holds its descriptor.                                       *)
LEMMA QuiesceInv ==
    ASSUME IInv, NEW s \in Slots, Occupied(s),
           StoreOrRetire(s, Quiesced(state[s]), refs[s]),
           UNCHANGED <<locked, generation, pc, ids, held>>
    PROVE  IInv'
  <1>0. TypeOK /\ HeldShape /\ SlotShape /\ HeldDevicesPinned /\ RefCount
    BY DEF IInv
  <1> DEFINE gone == refs[s] = 0
  <1>1. /\ devlist' = IF gone THEN [devlist EXCEPT ![s] = NoDev] ELSE devlist
        /\ state' = [state EXCEPT ![s] = IF gone THEN "DEAD" ELSE "QUIESCING"]
        /\ refs' = refs
    BY Zenon, <1>0 DEF TypeOK, SlotShape, StoreOrRetire, Quiesced, CanRetire
  <1>2. TypeOK'
    BY <1>0, <1>1 DEF TypeOK, States
  <1>3. HeldShape'
    BY <1>0 DEF HeldShape
  <1>4. SlotShape'
    BY <1>0, <1>1 DEF TypeOK, SlotShape, Occupied
  <1>5. gone => Holders(devlist[s]) = {}
    BY <1>0, FS_EmptySet DEF RefCount
  <1>6. HeldDevicesPinned'
    <2> SUFFICES ASSUME NEW h \in Users \X Uses, NEW d \in held[h]
                 PROVE  devlist'[d.id] = d
      BY DEF HeldDevicesPinned
    <2>1. devlist[d.id] = d /\ d.id \in Slots /\ h \in Holders(d)
      BY <1>0 DEF TypeOK, HeldDevicesPinned, Desc, Holders
    <2>2. d.id = s => ~gone
      BY <2>1, <1>5
    <2> QED BY <1>0, <1>1, <2>1, <2>2 DEF TypeOK
  <1>7. RefCount'
    BY Zenon, <1>0, <1>1 DEF TypeOK, RefCount, Occupied, Holders
  <1> QED BY <1>2, <1>3, <1>4, <1>6, <1>7 DEF IInv

IdsType == [Users -> [fs : Slots \cup {NoDev}, dev : Slots \cup {NoDev}]]

(* A user step that takes references and moves to p.                       *)
LEMMA TakeInv ==
    ASSUME IInv, NEW u \in Users, NEW use \in Uses, NEW S \in SUBSET Slots,
           NEW p \in PCs,
           (\A s \in S : CanGet(s)), held[<<u, use>>] = {}, Take(u, use, S),
           pc' = [pc EXCEPT ![u] = p], pc[u] # "flush",
           use \in UsesAt(p),
           p # "flush" => \A s, t \in S : s = t,
           (\A w \in Uses : w # use /\ w \notin UsesAt(p) => held[<<u, w>>] = {}),
           locked' \in [Slots -> BOOLEAN], ids' = ids
    PROVE  IInv'
  <1> DEFINE D == {devlist[s] : s \in S}
  <1>1. /\ RefCount' /\ HeldDevicesPinned' /\ SlotShape'
        /\ refs' \in [Slots -> 0 .. MaxRefs]
        /\ held' \in [Users \X Uses -> SUBSET Desc]
        /\ held' = [held EXCEPT ![<<u, use>>] = D]
        /\ devlist' = devlist /\ state' = state /\ generation' = generation
    BY Zenon, TakeKeepsCount
  <1>2. p # "flush" => \A d, e \in D : d = e
    OBVIOUS
  <1> HIDE DEF D
  <1>3. HeldShape' /\ pc' \in [Users -> PCs]
    BY Zenon, <1>1, <1>2, ShapeOfOthers
  <1>4. TypeOK'
    BY <1>1, <1>3 DEF IInv, TypeOK
  <1> QED BY <1>1, <1>3, <1>4 DEF IInv

(* A user step that drops one reference and moves to p.                    *)
LEMMA DropInv ==
    ASSUME IInv, NEW u \in Users, NEW use \in Uses, NEW d \in held[<<u, use>>],
           NEW p \in PCs,
           Drop(u, use, d), pc' = [pc EXCEPT ![u] = p],
           p = "flush" <=> pc[u] = "flush",
           use \notin UsesAt(p) => pc[u] # "flush",
           (\A w \in Uses : w # use /\ w \notin UsesAt(p) => held[<<u, w>>] = {}),
           ids' \in IdsType
    PROVE  IInv'
  <1> DEFINE D == held[<<u, use>>] \ {d}
  <1>1. /\ RefCount' /\ HeldDevicesPinned' /\ SlotShape'
        /\ devlist' \in [Slots -> Desc \cup {NoDev}]
        /\ state' \in [Slots -> States]
        /\ refs' \in [Slots -> 0 .. MaxRefs]
        /\ held' \in [Users \X Uses -> SUBSET Desc]
        /\ held' = [held EXCEPT ![<<u, use>>] = D]
        /\ locked' = locked /\ generation' = generation
    BY Zenon, DropKeepsCount
  <1>2. pc[u] # "flush" => D = {}
    BY DEF IInv, HeldShape
  <1>3. p # "flush" => \A e, f \in D : e = f
    BY <1>2
  <1>4. D # {} => use \in UsesAt(p)
    BY <1>2
  <1> HIDE DEF D
  <1>5. HeldShape' /\ pc' \in [Users -> PCs]
    BY Zenon, <1>1, <1>3, <1>4, ShapeOfOthers
  <1>6. TypeOK'
    BY <1>1, <1>5 DEF IInv, TypeOK, IdsType
  <1> QED BY <1>1, <1>5, <1>6 DEF IInv

(* A user step that touches no reference count and no reference.           *)
LEMMA MoveInv ==
    ASSUME IInv, NEW u \in Users, NEW p \in PCs,
           UNCHANGED <<devlist, state, refs, generation, held>>,
           locked' \in [Slots -> BOOLEAN], ids' \in IdsType,
           pc' = [pc EXCEPT ![u] = p], p # "flush",
           \A w \in Uses : w \notin UsesAt(p) => held[<<u, w>>] = {},
           pc[u] = "flush" => \A w \in Uses : held[<<u, w>>] = {}
    PROVE  IInv'
  <1>0. TypeOK /\ HeldShape /\ SlotShape /\ HeldDevicesPinned /\ RefCount
    BY DEF IInv
  <1>1. TypeOK'
    BY <1>0 DEF TypeOK, IdsType
  <1>2. SlotShape' /\ HeldDevicesPinned' /\ RefCount'
    BY <1>0 DEF SlotShape, HeldDevicesPinned, RefCount, Occupied, Holders
  <1>3. HeldShape'
    BY <1>0 DEF HeldShape, TypeOK
  <1> QED BY <1>1, <1>2, <1>3 DEF IInv

(* Live names being unique, devmgr_finddevice returns a slot or -1, and -1 *)
(* only when no live device has the name.                                  *)
LEMMA FindDeviceResult ==
    ASSUME UniqueLiveNames, NEW name
    PROVE  /\ FindDevice(name) \in Slots \cup {NoDev}
           /\ FindDevice(name) = NoDev =>
                \A s \in Slots : IsLive(s) => devlist[s].name # name
  <1> DEFINE hits == {s \in Slots : IsLive(s) /\ devlist[s].name = name}
  <1>1. CASE hits = {}
    BY <1>1 DEF FindDevice
  <1>2. CASE hits # {}
    <2>1. \E s \in hits : \A t \in hits : s <= t
      BY <1>2, DevMgrAssumption DEF UniqueLiveNames, Slots
    <2>2. (CHOOSE s \in hits : \A t \in hits : s <= t) \in hits
      BY <2>1
    <2>3. FindDevice(name) \in hits
      BY <1>2, <2>2 DEF FindDevice
    <2> QED BY <2>3, NoDevAssumption
  <1> QED BY <1>1, <1>2

LEMMA UserStepInv ==
    ASSUME IInv, UniqueLiveNames, NEW u \in Users,
           \/ \E s \in Slots : OpGet(u, s)
           \/ FlushSnapshot(u) \/ MountStep(u) \/ Release(u)
    PROVE  IInv'
  <1>0. TypeOK /\ HeldShape
    BY DEF IInv
  <1>1. ASSUME NEW s \in Slots, OpGet(u, s) PROVE IInv'
    <2>1. \A w \in Uses : held[<<u, w>>] = {}
      BY <1>0, <1>1 DEF HeldShape, OpGet, Goto, UsesAt
    <2>2. "op" \in UsesAt("op") /\ "op" \in PCs /\ "op" \in Uses
      BY DEF UsesAt, PCs, Uses
    <2> DEFINE S == {s}
    <2>3. /\ S \in SUBSET Slots /\ (\A r \in S : CanGet(r)) /\ Take(u, "op", S)
          /\ \A r, t \in S : r = t
      BY <1>1 DEF OpGet
    <2> HIDE DEF S
    <2> QED BY Zenon, <1>0, <1>1, <2>1, <2>2, <2>3, TakeInv DEF OpGet, Goto, TypeOK
  <1>2. CASE FlushSnapshot(u)
    <2> DEFINE S == {s \in Slots : CanGet(s) /\ devlist[s].name \in BlockNames}
    <2>1. \A w \in Uses : held[<<u, w>>] = {}
      BY <1>0, <1>2 DEF HeldShape, FlushSnapshot, Goto, UsesAt
    <2>2. "op" \in UsesAt("flush") /\ "flush" \in PCs /\ "op" \in Uses
      BY DEF UsesAt, PCs, Uses
    <2>3. S \in SUBSET Slots /\ (\A s \in S : CanGet(s)) /\ Take(u, "op", S)
      BY <1>2 DEF FlushSnapshot
    <2> HIDE DEF S
    <2> QED BY Zenon, <1>0, <1>2, <2>1, <2>2, <2>3, TakeInv DEF FlushSnapshot, Goto, TypeOK
  <1>3. CASE MountGetFs(u)
    <2> DEFINE S == {s \in Slots : s = ids[u].fs /\ CanGet(s)}
    <2>1. \A w \in Uses : held[<<u, w>>] = {}
      BY <1>0, <1>3 DEF HeldShape, MountGetFs, Goto, UsesAt
    <2>2. "fs" \in UsesAt("claimDev") /\ "claimDev" \in PCs /\ "fs" \in Uses
      BY DEF UsesAt, PCs, Uses
    <2>3. /\ S \in SUBSET Slots /\ (\A s \in S : CanGet(s)) /\ Take(u, "fs", S)
          /\ \A s, t \in S : s = t
      BY <1>3 DEF MountGetFs
    <2> HIDE DEF S
    <2> QED BY Zenon, <1>0, <1>3, <2>1, <2>2, <2>3, TakeInv DEF MountGetFs, Goto, TypeOK
  <1>4. CASE MountClaimDev(u)
    <2> DEFINE S == {s \in Slots : s = ids[u].dev /\ CanClaim(s)}
    <2>1. \A w \in Uses : w # "fs" => held[<<u, w>>] = {}
      BY <1>0, <1>4 DEF HeldShape, MountClaimDev, UsesAt
    <2>2. \A p \in {"mounted", "unlock", "putFs"} :
             {"fs", "dev"} = UsesAt(p) /\ p \in PCs /\ p # "flush"
      BY DEF UsesAt, PCs
    <2>3. /\ S \in SUBSET Slots /\ (\A s \in S : CanGet(s)) /\ Take(u, "dev", S)
          /\ \A s, t \in S : s = t
      BY <1>4 DEF MountClaimDev, CanClaim
    <2>4. \E p \in {"mounted", "unlock", "putFs"} : pc' = [pc EXCEPT ![u] = p]
      BY <1>4 DEF MountClaimDev, Goto
    <2>5. locked' \in [Slots -> BOOLEAN] /\ ids' = ids /\ pc[u] = "claimDev"
      BY <1>0, <1>4 DEF TypeOK, MountClaimDev
    <2>6. "dev" \in Uses
      BY DEF Uses
    <2> HIDE DEF S
    <2>7. PICK p \in {"mounted", "unlock", "putFs"} : pc' = [pc EXCEPT ![u] = p]
      BY Zenon, <2>4
    <2> QED BY Zenon, <2>1, <2>2, <2>3, <2>5, <2>6, <2>7, TakeInv
  <1>5. ASSUME NEW name, MountFindFs(u, name) PROVE IInv'
    <2>1. ids' \in IdsType
      BY <1>0, <1>5, FindDeviceResult DEF MountFindFs, TypeOK, IdsType
    <2>2. \A w \in Uses : held[<<u, w>>] = {}
      BY <1>0, <1>5 DEF HeldShape, MountFindFs, Goto, UsesAt
    <2>3. "findDev" \in PCs
      BY SMTT(30) DEF PCs
    <2> QED BY Zenon, <1>0, <1>5, <2>1, <2>2, <2>3, MoveInv DEF MountFindFs, Goto, registry, TypeOK
  <1>6. ASSUME NEW name, MountFindDev(u, name) PROVE IInv'
    <2>1. ids' \in IdsType
      BY Zenon, <1>0, <1>6, FindDeviceResult DEF MountFindDev, TypeOK, IdsType, NoIds
    <2>2. \A w \in Uses : held[<<u, w>>] = {}
      BY <1>0, <1>6 DEF HeldShape, MountFindDev, Goto, UsesAt
    <2>3. \E p \in {"idle", "getFs"} : pc' = [pc EXCEPT ![u] = p]
      BY Zenon, <1>6 DEF MountFindDev, Goto
    <2>4. {"idle", "getFs"} \subseteq PCs
      BY DEF PCs
    <2>5. locked' \in [Slots -> BOOLEAN] /\ UNCHANGED <<devlist, state, refs, generation, held>>
      BY <1>0, <1>6 DEF MountFindDev, registry, TypeOK
    <2> QED BY Zenon, <2>1, <2>2, <2>3, <2>4, <2>5, MoveInv
  <1>7. CASE Unmount(u)
    <2>1. \A w \in Uses : w \notin UsesAt("unlock") => held[<<u, w>>] = {}
      BY <1>0, <1>7 DEF HeldShape, Unmount, Goto, UsesAt
    <2>2. "unlock" \in PCs /\ pc[u] = "mounted"
      BY <1>7 DEF PCs, Unmount, Goto
    <2> QED BY Zenon, <1>0, <1>7, <2>1, <2>2, MoveInv DEF Unmount, Goto, registry, TypeOK, IdsType
  <1>8. CASE MountUnlock(u)
    <2>1. \A w \in Uses : w \notin UsesAt("putFs") => held[<<u, w>>] = {}
      BY <1>0, <1>8 DEF HeldShape, MountUnlock, Goto, UsesAt
    <2>2. "putFs" \in PCs /\ pc[u] = "unlock"
      BY <1>8 DEF PCs, MountUnlock, Goto
    <2>3. locked' \in [Slots -> BOOLEAN]
      BY Zenon, <1>0, <1>8 DEF MountUnlock, ClearLock, TypeOK
    <2> QED BY Zenon, <1>0, <1>8, <2>1, <2>2, <2>3, MoveInv
            DEF MountUnlock, ClearLock, Goto, TypeOK, IdsType
  <1>9. CASE FlushDone(u)
    <2>1. \A w \in Uses : held[<<u, w>>] = {}
      BY <1>0, <1>9 DEF HeldShape, FlushDone, Goto, UsesAt
    <2>2. "idle" \in PCs
      BY DEF PCs
    <2> QED BY Zenon, <1>0, <1>9, <2>1, <2>2, MoveInv DEF FlushDone, Goto, registry, TypeOK, IdsType
  <1>10. CASE OpPut(u)
    <2>1. PICK d \in held[<<u, "op">>] : Drop(u, "op", d)
      BY <1>10 DEF OpPut
    <2>2. \A w \in Uses : w # "op" => held[<<u, w>>] = {}
      BY <1>0, <1>10 DEF HeldShape, OpPut, Goto, UsesAt
    <2>3. "idle" \in PCs /\ "op" \in Uses
      BY DEF PCs, Uses
    <2> QED BY Zenon, <1>0, <1>10, <2>1, <2>2, <2>3, DropInv DEF OpPut, Goto, TypeOK, IdsType
  <1>11. CASE FlushOne(u)
    <2>1. PICK d \in held[<<u, "op">>] : Drop(u, "op", d)
      BY <1>11 DEF FlushOne
    <2>2. \A w \in Uses : w # "op" => held[<<u, w>>] = {}
      BY <1>0, <1>11 DEF HeldShape, FlushOne, UsesAt
    <2>3. "flush" \in PCs /\ "op" \in Uses /\ "op" \in UsesAt("flush")
      BY DEF PCs, Uses, UsesAt
    <2>4. pc' = [pc EXCEPT ![u] = "flush"] /\ pc[u] = "flush" /\ ids' \in IdsType
      BY <1>0, <1>11 DEF FlushOne, TypeOK, IdsType
    <2> QED BY Zenon, <2>1, <2>2, <2>3, <2>4, DropInv
  <1>12. CASE MountPutFs(u)
    <2>1. \A w \in Uses : w \notin {"fs", "dev"} => held[<<u, w>>] = {}
      BY <1>0, <1>12 DEF HeldShape, MountPutFs, Goto, UsesAt
    <2>2. UsesAt("putDev") = {"dev"} /\ "putDev" \in PCs /\ "fs" \in Uses
      BY DEF PCs, Uses, UsesAt
    <2>3. pc[u] = "putFs" /\ pc' = [pc EXCEPT ![u] = "putDev"] /\ ids' \in IdsType
      BY SMTT(30), <1>0, <1>12 DEF MountPutFs, Goto, TypeOK, IdsType
    <2>4. ASSUME NEW d \in held[<<u, "fs">>], Drop(u, "fs", d) PROVE IInv'
      BY Zenon, <2>1, <2>2, <2>3, <2>4, DropInv
    <2>5. CASE held[<<u, "fs">>] = {} /\ UNCHANGED <<registry, held>>
      BY Zenon, <1>0, <2>1, <2>2, <2>3, <2>5, MoveInv DEF registry, TypeOK
    <2> QED BY <1>12, <2>4, <2>5 DEF MountPutFs, PutUse
  <1>13. CASE MountPutDev(u)
    <2>1. \A w \in Uses : w # "dev" => held[<<u, w>>] = {}
      BY <1>0, <1>13 DEF HeldShape, MountPutDev, Goto, UsesAt
    <2>2. "idle" \in PCs /\ "dev" \in Uses
      BY DEF PCs, Uses
    <2>3. pc[u] = "putDev" /\ pc' = [pc EXCEPT ![u] = "idle"] /\ ids' \in IdsType
      BY SMTT(30), <1>0, <1>13 DEF MountPutDev, Goto, TypeOK, IdsType, NoIds
    <2>4. ASSUME NEW d \in held[<<u, "dev">>], Drop(u, "dev", d) PROVE IInv'
      BY Zenon, <2>1, <2>2, <2>3, <2>4, DropInv
    <2>5. CASE held[<<u, "dev">>] = {} /\ UNCHANGED <<registry, held>>
      BY Zenon, <1>0, <2>1, <2>2, <2>3, <2>5, MoveInv DEF registry, TypeOK
    <2> QED BY <1>13, <2>4, <2>5 DEF MountPutDev, PutUse
  <1> QED
    BY <1>1, <1>2, <1>3, <1>4, <1>5, <1>6, <1>7, <1>8, <1>9, <1>10, <1>11, <1>12, <1>13
       DEF MountStep, Release

(* No step makes two devices of one name live: only devmgr_register adds a *)
(* live device, and it looked the name up in the same critical section.    *)
LEMMA UniqueNamesStep ==
    ASSUME IInv, UniqueLiveNames, Next PROVE UniqueLiveNames'
  <1>0. TypeOK /\ SlotShape /\ HeldDevicesPinned
    BY DEF IInv
  <1>1. ASSUME NEW name \in Names, Register(name) PROVE UniqueLiveNames'
    <2>1. \A s \in Slots : IsLive(s) => devlist[s].name # name
      BY <1>1, FindDeviceResult DEF Register
    <2>2. PICK s \in Slots :
            /\ devlist' = [devlist EXCEPT ![s] =
                            [id |-> s, name |-> name, gen |-> generation[s] + 1]]
            /\ state' = [state EXCEPT ![s] = "LIVE"]
      BY Zenon, <1>1 DEF Register
    <2> QED BY <1>0, <2>1, <2>2 DEF UniqueLiveNames, IsLive, Occupied, TypeOK
  <1>2. ASSUME \A s \in Slots : IsLive(s)' => IsLive(s) /\ devlist'[s] = devlist[s]
        PROVE  UniqueLiveNames'
    BY <1>2 DEF UniqueLiveNames
  <1>3. ASSUME NEW s \in Slots, RemoveDevice(s) \/ QuiesceDevice(s)
        PROVE  UniqueLiveNames'
    BY <1>0, <1>2, <1>3
       DEF RemoveDevice, QuiesceDevice, StoreOrRetire, Quiesced, CanRetire, TypeOK,
           IsLive, Occupied
  <1>4. ASSUME NEW u \in Users, NEW use \in Uses, NEW d \in held[<<u, use>>],
               Drop(u, use, d)
        PROVE  UniqueLiveNames'
    <2>1. d \in Desc /\ d.id \in Slots
      BY <1>0 DEF TypeOK, Desc
    <2> QED BY <1>0, <1>2, <1>4, <2>1
            DEF Drop, Put, StoreOrRetire, CanRetire, TypeOK, IsLive, Occupied
  <1>5. ASSUME UNCHANGED <<devlist, state>> PROVE UniqueLiveNames'
    BY <1>5 DEF UniqueLiveNames, IsLive, Occupied
  <1>6. "op" \in Uses /\ "fs" \in Uses /\ "dev" \in Uses
    BY DEF Uses
  <1>7. ASSUME NEW u \in Users, NEW use \in Uses, PutUse(u, use) PROVE UniqueLiveNames'
    BY SMTT(30), <1>4, <1>5, <1>7 DEF PutUse, registry
  <1>8. ASSUME NEW u \in Users, Release(u) PROVE UniqueLiveNames'
    BY <1>4, <1>5, <1>6, <1>7, <1>8
       DEF Release, OpPut, FlushOne, FlushDone, MountUnlock, MountPutFs, MountPutDev,
           ClearLock, registry
  <1>9. ASSUME NEW u \in Users,
               (\E s \in Slots : OpGet(u, s)) \/ FlushSnapshot(u) \/ MountStep(u)
        PROVE  UniqueLiveNames'
    BY <1>5, <1>9
       DEF OpGet, FlushSnapshot, MountStep, MountFindFs, MountFindDev, MountGetFs,
           MountClaimDev, Unmount, Take, GetAll, registry
  <1> QED BY <1>1, <1>3, <1>8, <1>9 DEF Next, Registry

(* The claim a mount took is on the device it holds.                       *)
ClaimShape ==
    \A u \in Users : pc[u] \in {"mounted", "unlock"} =>
        \E d \in held[<<u, "dev">>] : d.id = ids[u].dev

FullInv == IInv /\ UniqueLiveNames /\ ClaimShape /\ ClaimExclusive

(* A step that leaves locks alone, and leaves every mount as it is.        *)
LEMMA ClaimsKept ==
    ASSUME ClaimShape, ClaimExclusive, locked' = locked,
           \A v \in Users :
              /\ pc'[v] \in {"mounted", "unlock"} <=> pc[v] \in {"mounted", "unlock"}
              /\ pc[v] \in {"mounted", "unlock"} =>
                    held'[<<v, "dev">>] = held[<<v, "dev">>] /\ ids'[v] = ids[v]
    PROVE  ClaimShape' /\ ClaimExclusive'
  <1>1. ClaimShape'
    BY Zenon DEF ClaimShape
  <1>2. \A s \in Slots : Claimants(s)' = Claimants(s)
    BY DEF Claimants
  <1>3. ClaimExclusive'
    BY <1>2 DEF ClaimExclusive
  <1> QED BY <1>1, <1>3

LEMMA ClaimStep == ASSUME FullInv, Next PROVE ClaimShape' /\ ClaimExclusive'
  <1> DEFINE M == {"mounted", "unlock"}
             Goal == ClaimShape' /\ ClaimExclusive'
  <1>0. /\ TypeOK /\ HeldShape /\ SlotShape /\ HeldDevicesPinned
        /\ ClaimShape /\ ClaimExclusive
    BY DEF FullInv, IInv
  <1>1. ASSUME NEW name \in Names, Register(name) PROVE Goal
    <2>1. PICK s \in Slots :
            /\ ~Occupied(s) /\ locked' = [locked EXCEPT ![s] = FALSE]
            /\ pc' = pc /\ ids' = ids /\ held' = held
      BY Zenon, <1>1 DEF Register, FirstFree
    <2>2. Claimants(s) = {}
      BY <1>0, <2>1, NoDevAssumption
         DEF Claimants, HeldDevicesPinned, Occupied, TypeOK, Uses
    <2>3. \A t \in Slots : Claimants(t)' = Claimants(t)
      BY <2>1 DEF Claimants
    <2>4. locked' = locked
      BY <1>0, <2>1, <2>2 DEF ClaimExclusive, TypeOK
    <2> QED BY <1>0, <2>1, <2>4, ClaimsKept
  <1>2. ASSUME NEW s \in Slots, RemoveDevice(s) \/ QuiesceDevice(s) PROVE Goal
    BY <1>0, <1>2, ClaimsKept DEF RemoveDevice, QuiesceDevice
  <1>3. ASSUME NEW u \in Users, NEW p, NEW use \in Uses, NEW D,
               pc[u] \notin M, p \notin M, locked' = locked,
               pc' = [pc EXCEPT ![u] = p], held' = [held EXCEPT ![<<u, use>>] = D],
               \A v \in Users : v # u => ids'[v] = ids[v]
        PROVE  Goal
    <2>1. \A v \in Users : v # u =>
             pc'[v] = pc[v] /\ held'[<<v, "dev">>] = held[<<v, "dev">>]
      BY <1>0, <1>3 DEF TypeOK, Uses
    <2>2. pc'[u] = p
      BY <1>0, <1>3 DEF TypeOK
    <2> QED BY <1>0, <1>3, <2>1, <2>2, ClaimsKept
  <1>4. ASSUME NEW u \in Users, NEW p, pc[u] \in M <=> p \in M, locked' = locked,
               pc' = [pc EXCEPT ![u] = p], held' = held,
               pc[u] \in M => ids'[u] = ids[u],
               \A v \in Users : v # u => ids'[v] = ids[v]
        PROVE  Goal
    <2>1. \A v \in Users : v # u => pc'[v] = pc[v]
      BY <1>0, <1>4 DEF TypeOK
    <2>2. pc'[u] = p
      BY <1>0, <1>4 DEF TypeOK
    <2> QED BY <1>0, <1>4, <2>1, <2>2, ClaimsKept
  <1>5. "op" \in Uses /\ "fs" \in Uses /\ "dev" \in Uses
    BY DEF Uses
  <1>6. ASSUME NEW u \in Users, NEW p, NEW use \in Uses, pc[u] \notin M, p \notin M,
               pc' = [pc EXCEPT ![u] = p], PutUse(u, use),
               \A v \in Users : v # u => ids'[v] = ids[v]
        PROVE  Goal
    <2>1. CASE UNCHANGED <<registry, held>>
      BY Zenon, <1>4, <1>6, <2>1 DEF registry
    <2>2. ASSUME NEW d \in held[<<u, use>>], Drop(u, use, d) PROVE Goal
      BY Zenon, <1>3, <1>6, <2>2 DEF Drop, Put
    <2> QED BY <1>6, <2>1, <2>2 DEF PutUse
  <1>7. ASSUME NEW u \in Users, NEW s \in Slots, OpGet(u, s) PROVE Goal
    BY Zenon, <1>3, <1>5, <1>7 DEF OpGet, Goto, Take
  <1>8. ASSUME NEW u \in Users, FlushSnapshot(u) PROVE Goal
    BY Zenon, <1>3, <1>5, <1>8 DEF FlushSnapshot, Goto, Take
  <1>9. ASSUME NEW u \in Users, MountGetFs(u) PROVE Goal
    BY Zenon, <1>3, <1>5, <1>9 DEF MountGetFs, Goto, Take
  <1>10. ASSUME NEW u \in Users, NEW name, MountFindFs(u, name) PROVE Goal
    <2>1. \A v \in Users : v # u => ids'[v] = ids[v]
      BY <1>0, <1>10 DEF MountFindFs, TypeOK
    <2> QED BY Zenon, <1>4, <1>10, <2>1 DEF MountFindFs, Goto, registry
  <1>11. ASSUME NEW u \in Users, NEW name, MountFindDev(u, name) PROVE Goal
    <2>1. \A v \in Users : v # u => ids'[v] = ids[v]
      BY <1>0, <1>11 DEF MountFindDev, TypeOK
    <2>2. PICK p \in {"idle", "getFs"} : pc' = [pc EXCEPT ![u] = p]
      BY Zenon, <1>11 DEF MountFindDev, Goto
    <2>3. pc[u] \notin M /\ p \notin M /\ locked' = locked /\ held' = held
      BY <1>11 DEF MountFindDev, Goto, registry
    <2> QED BY Zenon, <1>4, <2>1, <2>2, <2>3
  <1>12. ASSUME NEW u \in Users, Unmount(u) PROVE Goal
    BY Zenon, <1>4, <1>12 DEF Unmount, Goto, registry
  <1>13. ASSUME NEW u \in Users, FlushDone(u) PROVE Goal
    BY Zenon, <1>4, <1>13 DEF FlushDone, Goto, registry
  <1>14. ASSUME NEW u \in Users, OpPut(u) PROVE Goal
    BY Zenon, <1>5, <1>6, <1>14 DEF OpPut, Goto, PutUse
  <1>15. ASSUME NEW u \in Users, FlushOne(u) PROVE Goal
    <2>1. pc' = [pc EXCEPT ![u] = "flush"]
      BY <1>0, <1>15 DEF FlushOne, TypeOK
    <2> QED BY Zenon, <1>5, <1>6, <1>15, <2>1 DEF FlushOne, PutUse
  <1>16. ASSUME NEW u \in Users, MountPutFs(u) PROVE Goal
    BY Zenon, <1>5, <1>6, <1>16 DEF MountPutFs, Goto
  <1>17. ASSUME NEW u \in Users, MountPutDev(u) PROVE Goal
    <2>1. \A v \in Users : v # u => ids'[v] = ids[v]
      BY <1>0, <1>17 DEF MountPutDev, TypeOK
    <2> QED BY Zenon, <1>5, <1>6, <1>17, <2>1 DEF MountPutDev, Goto
  <1>18. ASSUME NEW u \in Users, MountUnlock(u) PROVE Goal
    <2> DEFINE s == ids[u].dev
    <2>1. pc[u] = "unlock" /\ pc' = [pc EXCEPT ![u] = "putFs"] /\ ids' = ids /\ held' = held
      BY <1>18 DEF MountUnlock, Goto
    <2>2. PICK d \in held[<<u, "dev">>] : d.id = s
      BY <1>0, <2>1 DEF ClaimShape
    <2>3. s \in Slots /\ devlist[s] = d /\ d # NoDev
      BY <1>0, <1>5, <2>2, NoDevAssumption DEF TypeOK, Desc, HeldDevicesPinned
    <2>4. locked' = [locked EXCEPT ![s] = FALSE]
      BY <1>18, <2>3 DEF MountUnlock, ClearLock, Occupied
    <2>5. \A v \in Users : v # u => pc'[v] = pc[v]
      BY <1>0, <2>1 DEF TypeOK
    <2>6. pc'[u] = "putFs"
      BY <1>0, <2>1 DEF TypeOK
    <2>7. ClaimShape'
      BY Zenon, <1>0, <2>1, <2>5, <2>6 DEF ClaimShape
    <2>8. \A t \in Slots : Claimants(t)' = Claimants(t) \ {u}
      BY SMTT(30), <2>1, <2>5, <2>6 DEF Claimants
    <2>9. Claimants(s) = {u}
      BY SMTT(30), <1>0, <2>1, <2>2, <2>3 DEF Claimants, ClaimExclusive
    <2>10. \A t \in Slots : t # s => u \notin Claimants(t)
      BY <1>0, <1>5, <2>1, <2>2 DEF Claimants, HeldShape
    <2>11. \A t \in Slots : t # s => locked'[t] = locked[t]
      BY <1>0, <2>4 DEF TypeOK
    <2>12. locked'[s] = FALSE
      BY <1>0, <2>3, <2>4 DEF TypeOK
    <2> HIDE DEF s
    <2>13. ClaimExclusive'
      BY <1>0, <2>8, <2>9, <2>10, <2>11, <2>12 DEF ClaimExclusive
    <2> QED BY <2>7, <2>13
  <1>19. ASSUME NEW u \in Users, MountClaimDev(u) PROVE Goal
    <2> DEFINE S == {s \in Slots : s = ids[u].dev /\ CanClaim(s)}
               D == held[<<u, "dev">>] \cup {devlist[s] : s \in S}
    <2>1. /\ pc[u] = "claimDev" /\ ids' = ids
          /\ held' = [held EXCEPT ![<<u, "dev">>] = D]
          /\ locked' = [s \in Slots |-> locked[s] \/ s \in S]
      BY SMTT(30), <1>19 DEF MountClaimDev, Take
    <2>2. CASE S = {}
      <3>1. pc' = [pc EXCEPT ![u] = "putFs"]
        BY <1>19, <2>2 DEF MountClaimDev, Goto
      <3>2. locked' = locked
        BY <1>0, <2>1, <2>2 DEF TypeOK
      <3> HIDE DEF D
      <3> QED BY Zenon, <1>3, <1>5, <2>1, <3>1, <3>2
    <2>3. CASE S # {}
      <3>1. PICK p \in M : pc' = [pc EXCEPT ![u] = p]
        BY <1>19, <2>3 DEF MountClaimDev, Goto
      <3>2. PICK s \in Slots : s = ids[u].dev /\ CanGet(s) /\ ~locked[s] /\ S = {s}
        BY <2>3 DEF CanClaim
      <3>3. devlist[s] \in Desc /\ devlist[s].id = s
        BY <1>0, <3>2 DEF TypeOK, SlotShape, CanGet, IsLive, Occupied
      <3>4. held[<<u, "dev">>] = {}
        BY <1>0, <1>5, <2>1 DEF HeldShape, UsesAt
      <3>5. D = {devlist[s]}
        BY <3>2, <3>4
      <3> HIDE DEF D, S
      <3>6. \A v \in Users : v # u =>
               pc'[v] = pc[v] /\ held'[<<v, "dev">>] = held[<<v, "dev">>]
        BY <1>0, <2>1, <3>1 DEF TypeOK
      <3>7. pc'[u] \in M /\ held'[<<u, "dev">>] = {devlist[s]}
        BY SMTT(30), <1>0, <1>5, <2>1, <3>1, <3>5 DEF TypeOK
      <3>8. ClaimShape'
        BY Zenon, <1>0, <2>1, <3>2, <3>3, <3>6, <3>7 DEF ClaimShape
      <3>9. Claimants(s) = {}
        BY SMTT(30), <1>0, <3>2 DEF ClaimExclusive
      <3>10. \A t \in Slots :
               Claimants(t)' = IF t = s THEN {u} ELSE Claimants(t)
        BY <2>1, <3>3, <3>6, <3>7, <3>9 DEF Claimants
      <3>11. \A t \in Slots : locked'[t] <=> (locked[t] \/ t = s)
        BY Zenon, <2>1, <3>2
      <3>12. ClaimExclusive'
        BY <1>0, <3>10, <3>11 DEF ClaimExclusive
      <3> QED BY <3>8, <3>12
    <2> QED BY SMTT(30), <2>2, <2>3
  <1> QED
    BY <1>1, <1>2, <1>7, <1>8, <1>9, <1>10, <1>11, <1>12, <1>13, <1>14, <1>15, <1>16,
       <1>17, <1>18, <1>19 DEF Next, Registry, MountStep, Release

-----------------------------------------------------------------------------
(* The inductive invariant holds, whatever the number of slots, names and  *)
(* users: every critical section of the registry preserves it.             *)
THEOREM DevMgrInvariant == Spec => []FullInv
  <1>1. Init => FullInv
    <2> SUFFICES ASSUME Init PROVE FullInv
      OBVIOUS
    <2>1. UniqueLiveNames
      BY DEF Init, UniqueLiveNames, IsLive, Occupied
    <2>2. ClaimShape /\ ClaimExclusive
      BY Zenon DEF Init, ClaimShape, ClaimExclusive, Claimants
    <2> QED BY InitIInv, <2>1, <2>2 DEF FullInv
  <1>2. FullInv /\ [Next]_vars => FullInv'
    <2> SUFFICES ASSUME FullInv, [Next]_vars PROVE FullInv'
      OBVIOUS
    <2>1. CASE Next
      <3>1. IInv'
        <4>1. ASSUME NEW s \in Slots, RemoveDevice(s) \/ QuiesceDevice(s) PROVE IInv'
          BY <4>1, QuiesceInv DEF FullInv, RemoveDevice, QuiesceDevice
        <4> QED BY <2>1, <4>1, RegisterInv, UserStepInv DEF FullInv, Next, Registry
      <3> QED BY <2>1, <3>1, UniqueNamesStep, ClaimStep DEF FullInv
    <2>2. CASE UNCHANGED vars
      <3>0. UNCHANGED <<devlist, state, refs, locked, generation, pc, ids, held>>
        BY SMTT(30), <2>2 DEF vars, registry
      <3>1. TypeOK' /\ HeldShape'
        BY SMTT(30), <3>0 DEF FullInv, IInv, TypeOK, HeldShape
      <3>2. SlotShape' /\ HeldDevicesPinned'
        BY <3>0 DEF FullInv, IInv, SlotShape, HeldDevicesPinned, Occupied
      <3>3. RefCount'
        BY <3>0 DEF FullInv, IInv, RefCount, Holders, Occupied
      <3>4. UniqueLiveNames' /\ ClaimShape'
        BY <3>0 DEF FullInv, UniqueLiveNames, IsLive, Occupied, ClaimShape
      <3>5. ClaimExclusive'
        BY SMTT(30), <3>0 DEF FullInv, ClaimExclusive, Claimants
      <3> QED BY <3>1, <3>2, <3>3, <3>4, <3>5 DEF FullInv, IInv
    <2> QED BY <2>1, <2>2
  <1> QED BY <1>1, <1>2, PTL DEF Spec

(* Every registry entry keeps its C type: in particular a reference count  *)
(* never wraps past the largest DWORD nor below zero.                      *)
THEOREM TypeCorrect == Spec => []TypeOK
  <1>1. FullInv => TypeOK
    BY DEF FullInv, IInv
  <1> QED BY <1>1, DevMgrInvariant, PTL

(* devmgr_lifecycle_get and devmgr_lifecycle_put count exactly the         *)
(* references in callers' hands.                                           *)
THEOREM RefCountCorrect == Spec => []RefCountExact
  <1>1. FullInv => RefCountExact
    BY DEF FullInv, IInv, RefCount, RefCountExact
  <1> QED BY <1>1, DevMgrInvariant, PTL

(* A device in use is never detached from its slot, so no caller runs an   *)
(* operation table devmgr_retire_locked has dropped.                       *)
THEOREM HeldPinned == Spec => []HeldDevicesPinned
  <1>1. FullInv => HeldDevicesPinned
    BY DEF FullInv, IInv
  <1> QED BY <1>1, DevMgrInvariant, PTL

(* A quiescing slot always has a user whose devmgr_putdevice will retire   *)
(* it.                                                                     *)
THEOREM NoForgottenRemoval == Spec => []QuiescingHasUsers
  <1>1. FullInv => QuiescingHasUsers
    <2> SUFFICES ASSUME FullInv, NEW s \in Slots, state[s] = "QUIESCING"
                 PROVE  Holders(devlist[s]) # {}
      BY DEF QuiescingHasUsers
    <2>1. Occupied(s) /\ refs[s] # 0
      BY DEF FullInv, IInv, SlotShape
    <2>2. refs[s] = Cardinality(Holders(devlist[s]))
      BY <2>1 DEF FullInv, IInv, RefCount
    <2> QED BY <2>1, <2>2, FS_EmptySet
  <1> QED BY <1>1, DevMgrInvariant, PTL

(* devmgr_finddevice is unambiguous.                                       *)
THEOREM NamesUnique == Spec => []UniqueLiveNames
  <1>1. FullInv => UniqueLiveNames
    BY DEF FullInv
  <1> QED BY <1>1, DevMgrInvariant, PTL

(* devmgr_claimdevice_ref and devmgr_setlock keep the mount claim          *)
(* exclusive and exact.                                                    *)
THEOREM ClaimsExclusive == Spec => []ClaimExclusive
  <1>1. FullInv => ClaimExclusive
    BY DEF FullInv
  <1> QED BY <1>1, DevMgrInvariant, PTL

(* After devmgr_quiesce_device or devmgr_removedevice the slot only drains. *)
THEOREM QuiescingOnlyDrains == Spec => DrainOnly
  <1> DEFINE A == \A s \in Slots : state[s] = "QUIESCING" =>
                    /\ refs'[s] <= refs[s]
                    /\ state'[s] \in {"QUIESCING", "DEAD"}
  <1>1. FullInv /\ [Next]_vars => [A]_vars
    <2> SUFFICES ASSUME FullInv, Next, NEW s \in Slots, state[s] = "QUIESCING"
                 PROVE  refs'[s] <= refs[s] /\ state'[s] \in {"QUIESCING", "DEAD"}
      OBVIOUS
    <2> DEFINE Goal == refs'[s] <= refs[s] /\ state'[s] \in {"QUIESCING", "DEAD"}
    <2>0. TypeOK /\ SlotShape /\ HeldDevicesPinned
      BY DEF FullInv, IInv
    <2>1. Occupied(s) /\ refs[s] \in Nat /\ refs[s] # 0
      BY <2>0, DevMgrAssumption DEF SlotShape, TypeOK
    <2>2. ASSUME NEW name \in Names, Register(name) PROVE Goal
      BY SMTT(30), <2>0, <2>1, <2>2 DEF Register, FirstFree, TypeOK
    <2>3. ASSUME NEW t \in Slots, RemoveDevice(t) \/ QuiesceDevice(t) PROVE Goal
      BY <2>0, <2>1, <2>3
         DEF RemoveDevice, QuiesceDevice, StoreOrRetire, Quiesced, CanRetire, TypeOK
    <2>4. ASSUME NEW S \in SUBSET Slots, GetAll(S), \A r \in S : CanGet(r) PROVE Goal
      BY SMTT(30), <2>0, <2>1, <2>4 DEF GetAll, CanGet, IsLive, TypeOK
    <2>5. ASSUME NEW u \in Users, NEW use \in Uses, NEW d \in held[<<u, use>>],
                 Drop(u, use, d)
          PROVE  Goal
      <3>1. d.id \in Slots /\ refs[d.id] \in Nat
        BY SMTT(30), <2>0, DevMgrAssumption DEF TypeOK, Desc
      <3> QED BY SMTT(90), <2>0, <2>1, <2>5, <3>1 DEF Drop, Put, StoreOrRetire, CanRetire, TypeOK
    <2>6. ASSUME UNCHANGED <<state, refs>> PROVE Goal
      BY <2>1, <2>6
    <2>7. "op" \in Uses /\ "fs" \in Uses /\ "dev" \in Uses
      BY SMTT(30) DEF Uses
    <2>8. ASSUME NEW u \in Users, Release(u) PROVE Goal
      BY SMTT(90), <2>5, <2>6, <2>7, <2>8
         DEF Release, OpPut, FlushOne, FlushDone, MountUnlock, MountPutFs, MountPutDev,
             PutUse, ClearLock, registry
    <2>9. ASSUME NEW u \in Users, NEW t \in Slots, OpGet(u, t) PROVE Goal
      <3>1. {t} \in SUBSET Slots /\ \A r \in {t} : CanGet(r)
        BY <2>9 DEF OpGet
      <3> QED BY <2>4, <2>9, <3>1 DEF OpGet, Take
    <2>10. ASSUME NEW u \in Users, FlushSnapshot(u) \/ MountGetFs(u) \/ MountClaimDev(u)
           PROVE  Goal
      <3>1. \E S \in SUBSET Slots : GetAll(S) /\ \A r \in S : CanGet(r)
        <4>1. CASE FlushSnapshot(u)
          <5> WITNESS {r \in Slots : CanGet(r) /\ devlist[r].name \in BlockNames}
                        \in SUBSET Slots
          <5> QED BY <4>1 DEF FlushSnapshot, Take
        <4>2. CASE MountGetFs(u)
          <5> WITNESS {r \in Slots : r = ids[u].fs /\ CanGet(r)} \in SUBSET Slots
          <5> QED BY <4>2 DEF MountGetFs, Take
        <4>3. CASE MountClaimDev(u)
          <5> WITNESS {r \in Slots : r = ids[u].dev /\ CanClaim(r)}
                        \in SUBSET Slots
          <5> QED BY <4>3 DEF MountClaimDev, CanClaim, Take
        <4> QED BY <2>10, <4>1, <4>2, <4>3
      <3> QED BY <2>4, <3>1
    <2>11. ASSUME NEW u \in Users, MountStep(u) PROVE Goal
      BY <2>6, <2>10, <2>11 DEF MountStep, MountFindFs, MountFindDev, Unmount, registry
    <2> QED BY <2>2, <2>3, <2>8, <2>9, <2>10, <2>11 DEF Next, Registry
  <1> QED BY <1>1, DevMgrInvariant, PTL DEF Spec, DrainOnly
====
