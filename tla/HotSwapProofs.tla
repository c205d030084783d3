--------------------------- MODULE HotSwapProofs ---------------------------
(***************************************************************************)
(* Proofs about HotSwap for every number of chains, snapshots, threads and *)
(* libraries.  The argument: the owner sets of the Arcs are exact (who is  *)
(* recorded as an owner is who can reach the library), a running exec      *)
(* keeps its chain, its chain keeps the snapshot, the snapshot keeps the   *)
(* libraries; so every call an exec can make goes into an open library.    *)
(***************************************************************************)
EXTENDS HotSwap, SequenceTheorems, TLAPS

IInv == TypeOK /\ SnapRefsExact /\ LibRefsExact /\ Borrowed /\ FreedEmpty

(* Removing an element of a vector leaves a shorter vector of the same kind *)
(* (Vec::remove).                                                          *)
LEMMA RemoveAtType ==
    ASSUME NEW S, NEW v \in Seq(S), NEW i \in DOMAIN v
    PROVE  RemoveAt(v, i) \in Seq(S) /\ Len(RemoveAt(v, i)) <= Len(v)
BY SMT DEF RemoveAt

(* Replacing the snapshot of a chain nobody executes preserves the          *)
(* invariant (add, set and remove).                                        *)
LEMMA InstallInv ==
    ASSUME IInv, ConstantsAssumption,
           NEW h \in Handles, handle[h] # None, Exclusive(h),
           NEW v \in Seq(Libs), Len(v) <= MaxLen,
           NEW moved, Install(h, v, moved),
           \/ moved = {} /\ UNCHANGED node
           \/ \E w \in Writers : moved = {NodeOwner(w)} /\ node' = [node EXCEPT ![w] = None],
           UNCHANGED <<registry, plugin, exec>>
    PROVE  IInv'
<1>1. PICK s \in Snaps :
        /\ snapRefs[s] = {}
        /\ handle' = [handle EXCEPT ![h] = s]
        /\ heap' = [x \in Snaps |-> IF x = s THEN v
                                    ELSE IF x \in Dying(h) THEN <<>> ELSE heap[x]]
        /\ snapRefs' = [x \in Snaps |-> IF x = s THEN {h} ELSE snapRefs[x] \ {h}]
        /\ libRefs' = [l \in Libs |-> Released(l, Dying(h), moved) \cup SlotOwners(s, v, l)]
  BY DEF Install
<1>2. TypeOK'
  <2>1. handle' \in [Handles -> Snaps \cup {None}] /\ snapRefs' \in [Snaps -> SUBSET Handles]
    BY <1>1 DEF IInv, TypeOK
  <2>2. heap' \in [Snaps -> Seq(Libs)] /\ \A x \in Snaps : Len(heap'[x]) <= MaxLen
    BY <1>1 DEF IInv, TypeOK, ConstantsAssumption
  <2>3. \A l \in Libs : SlotOwners(s, v, l) \subseteq Owners
    BY DEF SlotOwners, SlotOwner, Owners
  <2>4. libRefs' \in [Libs -> SUBSET Owners]
    BY <1>1, <2>3 DEF IInv, TypeOK, Released
  <2>5. node' \in [Writers -> Libs \cup {None}]
    BY DEF IInv, TypeOK
  <2> QED BY <2>1, <2>2, <2>4, <2>5 DEF IInv, TypeOK
<1>3. SnapRefsExact'
  BY <1>1 DEF IInv, TypeOK, SnapRefsExact, ConstantsAssumption
<1>4. LibRefsExact'
  <2> SUFFICES ASSUME NEW l \in Libs, NEW o
               PROVE  o \in libRefs'[l] <=> o \in OwnersOf(l)'
    BY <1>2 DEF LibRefsExact, OwnersOf, TypeOK
  <2> DEFINE InSlot(hp, x) == \E i \in DOMAIN hp[x] : hp[x][i] = l /\ o = <<"slot", x, i>>
             InPlugin == \E w \in Writers : plugin[w] = l /\ o = <<"plugin", w, 0>>
             InNode(nd) == \E w \in Writers : nd[w] = l /\ o = <<"node", w, 0>>
             InName == \E n \in Names : registry[n] = l /\ o = <<"name", n, 0>>
  <2>1. o \in libRefs[l] <=> (\E x \in Snaps : InSlot(heap, x)) \/ InPlugin \/ InNode(node) \/ InName
    BY DEF IInv, LibRefsExact, OwnersOf, SlotOwners, SlotOwner, PluginOwner, NodeOwner, NameOwner
  <2>2. o \in OwnersOf(l)' <=> (\E x \in Snaps : InSlot(heap', x)) \/ InPlugin \/ InNode(node') \/ InName
    BY DEF OwnersOf, SlotOwners, SlotOwner, PluginOwner, NodeOwner, NameOwner
  <2>3. \A x \in Snaps : InSlot(heap', x) <=> IF x = s THEN o \in SlotOwners(s, v, l)
                                              ELSE x \notin Dying(h) /\ InSlot(heap, x)
    BY <1>1 DEF SlotOwners, SlotOwner
  <2>4. o \in libRefs'[l] <=> \/ /\ o \in libRefs[l] /\ o \notin moved
                                 /\ ~\E x \in Dying(h) : InSlot(heap, x)
                              \/ o \in SlotOwners(s, v, l)
    BY <1>1 DEF Released, SlotOwners, SlotOwner
  <2>5. InNode(node') <=> InNode(node) /\ o \notin moved
    BY DEF IInv, TypeOK, NodeOwner
  <2>6. ~InSlot(heap, s)
    BY <1>1 DEF IInv, FreedEmpty
  <2>7. \A x, y \in Snaps : InSlot(heap, x) /\ InSlot(heap, y) => x = y
    OBVIOUS
  <2>8. o \in moved => ~InPlugin /\ ~InName /\ \A x \in Snaps : ~InSlot(heap, x)
    BY DEF NodeOwner
  <2>9. (\E x \in Snaps : InSlot(heap, x)) => ~InPlugin /\ ~InName /\ ~InNode(node)
    OBVIOUS
  <2> HIDE DEF InSlot, InPlugin, InNode, InName
  <2> QED BY <2>1, <2>2, <2>3, <2>4, <2>5, <2>6, <2>7, <2>8, <2>9 DEF Dying
<1>5. Borrowed'
  BY <1>1 DEF IInv, TypeOK, Borrowed, Exclusive, ConstantsAssumption
<1>6. FreedEmpty'
  <2> SUFFICES ASSUME NEW x \in Snaps, snapRefs'[x] = {} PROVE heap'[x] = <<>>
    BY DEF FreedEmpty
  <2>1. x # s /\ (snapRefs[x] = {} \/ snapRefs[x] = {h})
    BY <1>1
  <2> QED BY <1>1, <2>1 DEF IInv, FreedEmpty, Dying
<1> QED BY <1>2, <1>3, <1>4, <1>5, <1>6 DEF IInv

(* Dropping a chain nobody executes, and with its last owner the snapshot.  *)
LEMMA DropChainInv ==
    ASSUME IInv, ConstantsAssumption, NEW h \in Handles, DropChain(h)
    PROVE  IInv'
<1> USE DEF DropChain
<1>1. TypeOK'
  <2>1. libRefs' \in [Libs -> SUBSET Owners]
    BY DEF IInv, TypeOK, Released
  <2>2. heap' \in [Snaps -> Seq(Libs)] /\ \A x \in Snaps : Len(heap'[x]) <= MaxLen
    BY DEF IInv, TypeOK, ConstantsAssumption
  <2> QED BY <2>1, <2>2 DEF IInv, TypeOK
<1>2. SnapRefsExact'
  BY DEF IInv, TypeOK, SnapRefsExact, ConstantsAssumption
<1>3. LibRefsExact'
  <2> SUFFICES ASSUME NEW l \in Libs, NEW o
               PROVE  o \in libRefs'[l] <=> o \in OwnersOf(l)'
    BY <1>1 DEF LibRefsExact, OwnersOf, TypeOK
  <2> DEFINE InSlot(hp, x) == \E i \in DOMAIN hp[x] : hp[x][i] = l /\ o = <<"slot", x, i>>
             Other == \/ \E w \in Writers : plugin[w] = l /\ o = <<"plugin", w, 0>>
                      \/ \E w \in Writers : node[w] = l /\ o = <<"node", w, 0>>
                      \/ \E n \in Names : registry[n] = l /\ o = <<"name", n, 0>>
  <2>1. o \in libRefs[l] <=> (\E x \in Snaps : InSlot(heap, x)) \/ Other
    BY DEF IInv, LibRefsExact, OwnersOf, SlotOwners, SlotOwner, PluginOwner, NodeOwner, NameOwner
  <2>2. o \in OwnersOf(l)' <=> (\E x \in Snaps : InSlot(heap', x)) \/ Other
    BY DEF OwnersOf, SlotOwners, SlotOwner, PluginOwner, NodeOwner, NameOwner
  <2>3. \A x \in Snaps : InSlot(heap', x) <=> x \notin Dying(h) /\ InSlot(heap, x)
    OBVIOUS
  <2>4. o \in libRefs'[l] <=> o \in libRefs[l] /\ ~\E x \in Dying(h) : InSlot(heap, x)
    BY DEF Released, SlotOwners, SlotOwner
  <2>5. \A x, y \in Snaps : InSlot(heap, x) /\ InSlot(heap, y) => x = y
    OBVIOUS
  <2>6. (\E x \in Snaps : InSlot(heap, x)) => ~Other
    OBVIOUS
  <2> HIDE DEF InSlot, Other
  <2> QED BY <2>1, <2>2, <2>3, <2>4, <2>5, <2>6 DEF Dying
<1>4. Borrowed'
  BY DEF IInv, TypeOK, Borrowed, Exclusive
<1>5. FreedEmpty'
  <2> SUFFICES ASSUME NEW x \in Snaps, snapRefs'[x] = {} PROVE heap'[x] = <<>>
    BY DEF FreedEmpty
  <2>1. snapRefs[x] = {} \/ snapRefs[x] = {h}
    OBVIOUS
  <2> QED BY <2>1 DEF IInv, FreedEmpty, Dying
<1> QED BY <1>1, <1>2, <1>3, <1>4, <1>5 DEF IInv

(* The slots that own library l.                                            *)
SlotsHolding(l) == UNION {SlotOwners(s, heap[s], l) : s \in Snaps}

(* The owners of a library, one kind of owner at a time.                    *)
LEMMA LocalOwners ==
    ASSUME IInv, NEW l \in Libs, NEW o
    PROVE  o \in libRefs[l] <=>
              \/ o \in SlotsHolding(l)
              \/ \E w \in Writers : plugin[w] = l /\ o = PluginOwner(w)
              \/ \E w \in Writers : node[w] = l /\ o = NodeOwner(w)
              \/ \E n \in Names : registry[n] = l /\ o = NameOwner(n)
BY DEF IInv, LibRefsExact, OwnersOf, SlotsHolding

(* A writer's actions on plugins, nodes and the registry.                   *)
LEMMA LocalInv ==
    ASSUME IInv, ConstantsAssumption,
           UNCHANGED <<handle, heap, snapRefs, exec>>,
           registry' \in [Names -> Libs \cup {None}],
           plugin' \in [Writers -> Libs \cup {None}],
           node' \in [Writers -> Libs \cup {None}],
           DOMAIN libRefs' = Libs, libRefs' = [l \in Libs |-> libRefs'[l]],
           \A l \in Libs : \A o : o \in libRefs'[l] <=>
              \/ o \in SlotsHolding(l)
              \/ \E w \in Writers : plugin'[w] = l /\ o = PluginOwner(w)
              \/ \E w \in Writers : node'[w] = l /\ o = NodeOwner(w)
              \/ \E n \in Names : registry'[n] = l /\ o = NameOwner(n)
    PROVE  IInv'
<1>1. \A l \in Libs : libRefs'[l] \subseteq Owners
  <2> SUFFICES ASSUME NEW l \in Libs, NEW o \in libRefs'[l] PROVE o \in Owners
    OBVIOUS
  <2>1. CASE o \in SlotsHolding(l)
    BY <2>1 DEF SlotsHolding, SlotOwners, SlotOwner, Owners, IInv, TypeOK, ConstantsAssumption
  <2>2. CASE ~(o \in SlotsHolding(l))
    BY <2>2 DEF PluginOwner, NodeOwner, NameOwner, Owners
  <2> QED BY <2>1, <2>2
<1>2. TypeOK'
  BY <1>1 DEF IInv, TypeOK
<1>3. LibRefsExact'
  BY DEF LibRefsExact, OwnersOf, SlotsHolding
<1> QED BY <1>2, <1>3 DEF IInv, SnapRefsExact, Borrowed, FreedEmpty

(* One step of a writer preserves the invariant.                            *)
LEMMA WriterInv ==
    ASSUME IInv, ConstantsAssumption, NEW w \in Writers, WriterStep(w)
    PROVE  IInv'
<1> USE DEF IInv, TypeOK
<1>1. ASSUME NEW l \in Libs, Load(w, l) PROVE IInv'
  <2>1. \A x \in Libs : libRefs'[x] = IF x = l THEN {PluginOwner(w)} ELSE libRefs[x]
    BY <1>1 DEF Load
  <2>2. libRefs[l] = {}
    BY <1>1 DEF Load, Open
  <2>3. /\ plugin[w] = None /\ plugin' = [plugin EXCEPT ![w] = l]
        /\ UNCHANGED <<handle, heap, snapRefs, registry, node, exec>>
        /\ DOMAIN libRefs' = Libs /\ libRefs' = [x \in Libs |-> libRefs'[x]]
    BY <1>1 DEF Load
  <2>4. ASSUME NEW k \in Libs, NEW o
        PROVE  o \in libRefs'[k] <=>
                  \/ o \in SlotsHolding(k)
                  \/ \E x \in Writers : plugin'[x] = k /\ o = PluginOwner(x)
                  \/ \E x \in Writers : node'[x] = k /\ o = NodeOwner(x)
                  \/ \E n \in Names : registry'[n] = k /\ o = NameOwner(n)
    <3>0. o \in libRefs[k] <=>
              \/ o \in SlotsHolding(k)
              \/ \E x \in Writers : plugin[x] = k /\ o = PluginOwner(x)
              \/ \E x \in Writers : node[x] = k /\ o = NodeOwner(x)
              \/ \E n \in Names : registry[n] = k /\ o = NameOwner(n)
      BY LocalOwners
    <3>1. \A x \in Writers : plugin'[x] = k /\ o = PluginOwner(x) <=>
                \/ plugin[x] = k /\ o = PluginOwner(x)
                \/ x = w /\ k = l /\ o = PluginOwner(w)
      BY <2>3, ConstantsAssumption DEF ConstantsAssumption
    <3>2. o \in libRefs'[k] <=> o \in libRefs[k] \/ (k = l /\ o = PluginOwner(w))
      BY <2>1, <2>2
    <3>3. node' = node /\ registry' = registry
      BY <2>3
    <3> HIDE DEF IInv, TypeOK
    <3> QED BY <3>0, <3>1, <3>2, <3>3
  <2>5. plugin' \in [Writers -> Libs \cup {None}]
    BY <2>3
  <2> QED BY <2>3, <2>4, <2>5, LocalInv
<1>2. CASE DropPlugin(w)
  <2>1. \A x \in Libs : \A o : o \in libRefs'[x] <=> o \in libRefs[x] /\ o # PluginOwner(w)
    BY <1>2 DEF DropPlugin, Released
  <2>2. /\ plugin' = [plugin EXCEPT ![w] = None]
        /\ UNCHANGED <<handle, heap, snapRefs, registry, node, exec>>
        /\ DOMAIN libRefs' = Libs /\ libRefs' = [x \in Libs |-> libRefs'[x]]
    BY <1>2 DEF DropPlugin
  <2>3. ASSUME NEW l \in Libs, NEW o
        PROVE  o \in libRefs'[l] <=>
                  \/ o \in SlotsHolding(l)
                  \/ \E x \in Writers : plugin'[x] = l /\ o = PluginOwner(x)
                  \/ \E x \in Writers : node'[x] = l /\ o = NodeOwner(x)
                  \/ \E n \in Names : registry'[n] = l /\ o = NameOwner(n)
    <3>0. o \in libRefs[l] <=>
              \/ o \in SlotsHolding(l)
              \/ \E x \in Writers : plugin[x] = l /\ o = PluginOwner(x)
              \/ \E x \in Writers : node[x] = l /\ o = NodeOwner(x)
              \/ \E n \in Names : registry[n] = l /\ o = NameOwner(n)
      BY LocalOwners
    <3>1. \A x \in Writers : plugin'[x] = l /\ o = PluginOwner(x) <=>
                plugin[x] = l /\ o = PluginOwner(x) /\ o # PluginOwner(w)
      BY <2>2, ConstantsAssumption DEF ConstantsAssumption, PluginOwner
    <3>2. o \in SlotsHolding(l) => o # PluginOwner(w)
      BY DEF SlotsHolding, SlotOwners, SlotOwner, PluginOwner
    <3>3. \A x : NodeOwner(x) # PluginOwner(w) /\ NameOwner(x) # PluginOwner(w)
      BY DEF NodeOwner, NameOwner, PluginOwner
    <3> HIDE DEF IInv, TypeOK
    <3>4. o \in libRefs'[l] <=> o \in libRefs[l] /\ o # PluginOwner(w)
      BY <2>1
    <3>5. node' = node /\ registry' = registry
      BY <2>2
    <3> QED BY <3>0, <3>1, <3>2, <3>3, <3>4, <3>5
  <2> QED BY <2>2, <2>3, LocalInv
<1>3. CASE ToNode(w)
  <2>1. \A x \in Libs : \A o : o \in libRefs'[x] <=>
                                 o \in libRefs[x] \/ (x = plugin[w] /\ o = NodeOwner(w))
    BY <1>3 DEF ToNode
  <2>2. /\ node[w] = None /\ plugin[w] \in Libs /\ node' = [node EXCEPT ![w] = plugin[w]]
        /\ UNCHANGED <<handle, heap, snapRefs, registry, plugin, exec>>
        /\ DOMAIN libRefs' = Libs /\ libRefs' = [x \in Libs |-> libRefs'[x]]
    BY <1>3 DEF ToNode
  <2>3. ASSUME NEW l \in Libs, NEW o
        PROVE  o \in libRefs'[l] <=>
                  \/ o \in SlotsHolding(l)
                  \/ \E x \in Writers : plugin'[x] = l /\ o = PluginOwner(x)
                  \/ \E x \in Writers : node'[x] = l /\ o = NodeOwner(x)
                  \/ \E n \in Names : registry'[n] = l /\ o = NameOwner(n)
    <3>0. o \in libRefs[l] <=>
              \/ o \in SlotsHolding(l)
              \/ \E x \in Writers : plugin[x] = l /\ o = PluginOwner(x)
              \/ \E x \in Writers : node[x] = l /\ o = NodeOwner(x)
              \/ \E n \in Names : registry[n] = l /\ o = NameOwner(n)
      BY LocalOwners
    <3>1. \A x \in Writers : node'[x] = l /\ o = NodeOwner(x) <=>
                \/ node[x] = l /\ o = NodeOwner(x)
                \/ x = w /\ l = plugin[w] /\ o = NodeOwner(w)
      BY <2>2, ConstantsAssumption DEF ConstantsAssumption
    <3> HIDE DEF IInv, TypeOK
    <3> QED BY <2>1, <2>2, <3>0, <3>1
  <2>4. node' \in [Writers -> Libs \cup {None}]
    BY <2>2
  <2> QED BY <2>2, <2>3, <2>4, LocalInv
<1>4. ASSUME NEW n \in Names, Register(w, n) PROVE IInv'
  BY <1>4, LocalOwners, LocalInv DEF Register, Released, SlotsHolding, SlotOwners, SlotOwner, PluginOwner, NodeOwner, NameOwner, ConstantsAssumption
<1>5. ASSUME NEW n \in Names, GetNode(w, n) PROVE IInv'
  <2>1. \A x \in Libs : \A o : o \in libRefs'[x] <=>
                                 o \in libRefs[x] \/ (x = registry[n] /\ o = NodeOwner(w))
    BY <1>5 DEF GetNode
  <2>2. /\ node[w] = None /\ registry[n] \in Libs /\ node' = [node EXCEPT ![w] = registry[n]]
        /\ UNCHANGED <<handle, heap, snapRefs, registry, plugin, exec>>
        /\ DOMAIN libRefs' = Libs /\ libRefs' = [x \in Libs |-> libRefs'[x]]
    BY <1>5 DEF GetNode
  <2>3. ASSUME NEW l \in Libs, NEW o
        PROVE  o \in libRefs'[l] <=>
                  \/ o \in SlotsHolding(l)
                  \/ \E x \in Writers : plugin'[x] = l /\ o = PluginOwner(x)
                  \/ \E x \in Writers : node'[x] = l /\ o = NodeOwner(x)
                  \/ \E m \in Names : registry'[m] = l /\ o = NameOwner(m)
    <3>0. o \in libRefs[l] <=>
              \/ o \in SlotsHolding(l)
              \/ \E x \in Writers : plugin[x] = l /\ o = PluginOwner(x)
              \/ \E x \in Writers : node[x] = l /\ o = NodeOwner(x)
              \/ \E m \in Names : registry[m] = l /\ o = NameOwner(m)
      BY LocalOwners
    <3>1. \A x \in Writers : node'[x] = l /\ o = NodeOwner(x) <=>
                \/ node[x] = l /\ o = NodeOwner(x)
                \/ x = w /\ l = registry[n] /\ o = NodeOwner(w)
      BY <2>2, ConstantsAssumption DEF ConstantsAssumption
    <3> HIDE DEF IInv, TypeOK
    <3> QED BY <2>1, <2>2, <3>0, <3>1
  <2>4. node' \in [Writers -> Libs \cup {None}]
    BY <2>2
  <2> QED BY <2>2, <2>3, <2>4, LocalInv
<1>6. ASSUME NEW h \in Handles, NEW i \in 1..(MaxLen + 1), SetOutOfRange(w, h, i) PROVE IInv'
  BY <1>6, LocalOwners, LocalInv DEF SetOutOfRange, Released, SlotsHolding, SlotOwners, SlotOwner, PluginOwner, NodeOwner, NameOwner, ConstantsAssumption
<1>7. ASSUME NEW h \in Handles, AddNode(w, h) PROVE IInv'
  <2> DEFINE v == Append(heap[handle[h]], node[w])
  <2>1. v \in Seq(Libs) /\ Len(v) <= MaxLen
    BY <1>7 DEF AddNode, ConstantsAssumption
  <2> HIDE DEF v, IInv, TypeOK
  <2> QED BY <1>7, <2>1, InstallInv DEF AddNode, v
<1>8. ASSUME NEW h \in Handles, NEW i \in 1..(MaxLen + 1), SetNode(w, h, i) PROVE IInv'
  <2> DEFINE v == [heap[handle[h]] EXCEPT ![i] = node[w]]
  <2>1. v \in Seq(Libs) /\ Len(v) <= MaxLen
    BY <1>8 DEF SetNode, ConstantsAssumption
  <2> HIDE DEF v, IInv, TypeOK
  <2> QED BY <1>8, <2>1, InstallInv DEF SetNode, v
<1> QED BY <1>1, <1>2, <1>3, <1>4, <1>5, <1>6, <1>7, <1>8 DEF WriterStep

(* One step of an execution only moves its place in the chain.              *)
LEMMA ExecInv ==
    ASSUME IInv, NEW r \in Readers, ExecStep(r) \/ \E h \in Handles : Begin(r, h)
    PROVE  IInv'
<1> USE DEF IInv, TypeOK
<1>1. UNCHANGED <<handle, heap, snapRefs, libRefs, registry, plugin, node>>
  BY DEF ExecStep, Begin, Enter, Core, Exit, Return
<1>2. /\ exec' \in [Readers -> [pc : {"idle", "enter", "exit"}, on : Handles \cup {None}, idx : Nat]]
      /\ Borrowed'
  <2>1. ASSUME NEW h \in Handles, Begin(r, h) PROVE <1>2!1 /\ <1>2!2
    BY <2>1 DEF Begin, Borrowed
  <2>2. ASSUME NEW e \in [pc : {"idle", "enter", "exit"}, on : Handles \cup {None}, idx : Nat],
               exec' = [exec EXCEPT ![r] = e],
               e.pc = "idle" \/ (exec[r].pc # "idle" /\ e.on = exec[r].on)
        PROVE  <1>2!1 /\ <1>2!2
    BY <1>1, <2>2 DEF Borrowed
  <2>3. Idle \in [pc : {"idle", "enter", "exit"}, on : Handles \cup {None}, idx : Nat]
        /\ Idle.pc = "idle"
    BY DEF Idle
  <2>4. CASE Enter(r)
    <3> DEFINE e == [pc |-> exec[r].pc, on |-> exec[r].on, idx |-> exec[r].idx + 1]
    <3>1. e \in [pc : {"idle", "enter", "exit"}, on : Handles \cup {None}, idx : Nat]
          /\ e.on = exec[r].on
      OBVIOUS
    <3>2. exec' = [exec EXCEPT ![r] = e] \/ exec' = [exec EXCEPT ![r] = Idle]
      BY <2>4 DEF Enter
    <3>3. exec[r].pc # "idle"
      BY <2>4 DEF Enter
    <3> QED BY <2>2, <2>3, <3>1, <3>2, <3>3
  <2>5. CASE Core(r)
    <3> DEFINE e == [exec[r] EXCEPT !.pc = "exit", !.idx = Len(Running(r))]
    <3>1. Len(Running(r)) \in Nat
      BY <2>5 DEF Core, Running, Borrowed
    <3>2. e \in [pc : {"idle", "enter", "exit"}, on : Handles \cup {None}, idx : Nat]
          /\ e.on = exec[r].on
      BY <3>1
    <3>3. exec' = [exec EXCEPT ![r] = e] \/ exec' = [exec EXCEPT ![r] = Idle]
      BY <2>5 DEF Core
    <3>4. exec[r].pc # "idle"
      BY <2>5 DEF Core
    <3> QED BY <2>2, <2>3, <3>2, <3>3, <3>4
  <2>6. CASE Exit(r)
    <3> DEFINE e == [pc |-> exec[r].pc, on |-> exec[r].on, idx |-> exec[r].idx - 1]
    <3>1. e \in [pc : {"idle", "enter", "exit"}, on : Handles \cup {None}, idx : Nat]
          /\ e.on = exec[r].on /\ exec[r].pc # "idle"
      BY <2>6 DEF Exit
    <3>2. e = [exec[r] EXCEPT !.idx = @ - 1]
      OBVIOUS
    <3>3. exec' = [exec EXCEPT ![r] = [exec[r] EXCEPT !.idx = @ - 1]]
      BY <2>6 DEF Exit
    <3> QED BY <2>2, <3>1, <3>2, <3>3
  <2>7. CASE Return(r)
    BY <2>2, <2>3, <2>7 DEF Return
  <2> QED BY <2>1, <2>4, <2>5, <2>6, <2>7 DEF ExecStep
<1>3. TypeOK'
  BY <1>1, <1>2
<1> HIDE DEF TypeOK
<1> QED BY <1>1, <1>2, <1>3 DEF SnapRefsExact, LibRefsExact, OwnersOf, FreedEmpty

(* The invariant holds at the start and is preserved by every step.         *)
LEMMA IInvInit == Init => IInv
<1> SUFFICES ASSUME Init PROVE IInv
  OBVIOUS
<1> USE ConstantsAssumption DEF Init
<1>1. TypeOK
  BY DEF TypeOK, Idle, ConstantsAssumption
<1>2. SnapRefsExact /\ FreedEmpty /\ Borrowed
  BY DEF SnapRefsExact, FreedEmpty, Borrowed, Idle
<1>3. \A l \in Libs : OwnersOf(l) = {}
  BY DEF OwnersOf, SlotOwners, ConstantsAssumption
<1> QED BY <1>1, <1>2, <1>3 DEF IInv, LibRefsExact

LEMMA IInvStep == IInv /\ ConstantsAssumption /\ [Next]_vars => IInv'
<1> SUFFICES ASSUME IInv, ConstantsAssumption, [Next]_vars PROVE IInv'
  OBVIOUS
<1>1. ASSUME NEW h \in Handles, NEW g \in Handles, CloneChain(h, g) PROVE IInv'
  <2>1. /\ handle' = [handle EXCEPT ![g] = handle[h]] /\ handle[g] = None
        /\ snapRefs' = [snapRefs EXCEPT ![handle[h]] = @ \cup {g}] /\ handle[h] \in Snaps
        /\ UNCHANGED <<heap, libRefs, registry, plugin, node, exec>>
    BY <1>1 DEF CloneChain, IInv, TypeOK
  <2>2. TypeOK'
    BY <2>1 DEF IInv, TypeOK
  <2>3. SnapRefsExact'
    BY <2>1 DEF IInv, TypeOK, SnapRefsExact, ConstantsAssumption
  <2>4. Borrowed' /\ FreedEmpty'
    BY <2>1 DEF IInv, TypeOK, Borrowed, FreedEmpty, ConstantsAssumption
  <2>5. LibRefsExact'
    BY <2>1 DEF IInv, LibRefsExact, OwnersOf
  <2> QED BY <2>2, <2>3, <2>4, <2>5 DEF IInv
<1>2. ASSUME NEW h \in Handles, DropChain(h) PROVE IInv'
  BY <1>2, DropChainInv
<1>3. ASSUME NEW h \in Handles, NEW i \in 1..(MaxLen + 1), RemoveNode(h, i) PROVE IInv'
  <2> DEFINE v == IF i \in DOMAIN heap[handle[h]] THEN RemoveAt(heap[handle[h]], i)
                                                  ELSE heap[handle[h]]
  <2>1. v \in Seq(Libs) /\ Len(v) <= MaxLen
    BY <1>3, RemoveAtType DEF RemoveNode, IInv, TypeOK, ConstantsAssumption
  <2> HIDE DEF v
  <2> QED BY <1>3, <2>1, InstallInv DEF RemoveNode, v
<1>4. ASSUME NEW w \in Writers, WriterStep(w) PROVE IInv'
  BY <1>4, WriterInv
<1>5. ASSUME NEW r \in Readers, ExecStep(r) \/ \E h \in Handles : Begin(r, h) PROVE IInv'
  BY <1>5, ExecInv
<1>6. CASE UNCHANGED vars
  BY <1>6 DEF vars, IInv, TypeOK, SnapRefsExact, LibRefsExact, OwnersOf, Borrowed, FreedEmpty
<1> QED BY <1>1, <1>2, <1>3, <1>4, <1>5, <1>6 DEF Next

(* The state keeps its shape, whatever chains, threads and libraries.       *)
THEOREM TypeCorrect == Spec => []TypeOK
<1>1. Spec => []IInv
  BY IInvInit, IInvStep, ConstantsAssumption, PTL DEF Spec
<1> QED BY <1>1, PTL DEF IInv

(* The owners of a snapshot are exactly the chains that point at it: it is  *)
(* not freed while one does and does not stay allocated when none does.     *)
THEOREM SnapshotsExact == Spec => []SnapRefsExact
<1>1. Spec => []IInv
  BY IInvInit, IInvStep, ConstantsAssumption, PTL DEF Spec
<1> QED BY <1>1, PTL DEF IInv

(* The owners of a library are exactly the nodes and plugins that can still *)
(* reach it: none dangles and none leaks.                                   *)
THEOREM RefsExact == Spec => []LibRefsExact
<1>1. Spec => []IInv
  BY IInvInit, IInvStep, ConstantsAssumption, PTL DEF Spec
<1> QED BY <1>1, PTL DEF IInv

(* No execution calls into a closed library.                                *)
THEOREM KeepaliveSafe == Spec => []CallsOpen
<1>1. Spec => []IInv
  BY IInvInit, IInvStep, ConstantsAssumption, PTL DEF Spec
<1>2. IInv /\ ConstantsAssumption => CallsOpen
  <2> SUFFICES ASSUME IInv, ConstantsAssumption, NEW r \in Readers, exec[r].pc # "idle",
                      NEW i \in DOMAIN Running(r)
               PROVE  Open(Running(r)[i])
    BY DEF CallsOpen
  <2>1. PICK s \in Snaps : handle[exec[r].on] = s /\ Running(r) = heap[s]
    BY DEF IInv, TypeOK, Borrowed, Running
  <2>2. heap[s][i] \in Libs /\ SlotOwner(s, i) \in SlotOwners(s, heap[s], heap[s][i])
    BY <2>1 DEF IInv, TypeOK, SlotOwners
  <2>3. SlotOwner(s, i) \in libRefs[heap[s][i]]
    BY <2>2 DEF IInv, LibRefsExact, OwnersOf
  <2> QED BY <2>1, <2>3 DEF Open
<1> QED BY <1>1, <1>2, ConstantsAssumption, PTL

(* A change of one chain leaves the nodes of every other chain as they      *)
(* were: its new snapshot is fresh, and the old one is dropped only with    *)
(* its last owner.                                                         *)
LEMMA OthersKept ==
    ASSUME IInv, ConstantsAssumption, NEW h \in Handles, NEW g \in Handles,
           g # h, handle[g] # None,
           \/ DropChain(h)
           \/ \E v, moved : Install(h, v, moved)
    PROVE  handle'[g] = handle[g] /\ heap'[handle'[g]] = heap[handle[g]]
<1>1. handle[g] \in Snaps /\ g \in snapRefs[handle[g]]
  BY DEF IInv, TypeOK, SnapRefsExact
<1>2. handle[g] \notin Dying(h)
  BY <1>1 DEF Dying
<1>3. CASE DropChain(h)
  BY <1>1, <1>2, <1>3 DEF DropChain, IInv, TypeOK
<1>4. CASE \E v, moved : Install(h, v, moved)
  BY <1>1, <1>2, <1>4 DEF Install, IInv, TypeOK
<1> QED BY <1>3, <1>4

(* What each kind of step does to a running execution.                      *)
LEMMA PinnedStep ==
    ASSUME IInv, ConstantsAssumption, [Next]_vars, NEW r \in Readers,
           exec[r].pc # "idle", exec'[r].pc # "idle"
    PROVE  Running(r)' = Running(r)
<1>1. exec[r].on \in Handles /\ handle[exec[r].on] # None
  BY DEF IInv, Borrowed
<1>2. ASSUME NEW h \in Handles, Exclusive(h), UNCHANGED exec,
             DropChain(h) \/ \E v, moved : Install(h, v, moved)
      PROVE  Running(r)' = Running(r)
  <2>1. exec[r].on # h
    BY <1>2 DEF Exclusive
  <2> QED BY <1>1, <1>2, <2>1, OthersKept DEF Running
<1>3. ASSUME UNCHANGED <<handle, heap>>, exec'[r].on = exec[r].on
      PROVE  Running(r)' = Running(r)
  BY <1>3 DEF Running
<1>4. ASSUME NEW h \in Handles, NEW g \in Handles, CloneChain(h, g)
      PROVE  Running(r)' = Running(r)
  BY <1>1, <1>4 DEF CloneChain, Running, IInv, TypeOK
<1>5. ASSUME NEW h \in Handles, DropChain(h) PROVE Running(r)' = Running(r)
  BY <1>2, <1>5 DEF DropChain
<1>6. ASSUME NEW h \in Handles, NEW i \in 1..(MaxLen + 1), RemoveNode(h, i)
      PROVE  Running(r)' = Running(r)
  BY <1>2, <1>6 DEF RemoveNode
<1>7. ASSUME NEW w \in Writers, WriterStep(w) PROVE Running(r)' = Running(r)
  <2>1. ASSUME NEW h \in Handles, AddNode(w, h) PROVE Running(r)' = Running(r)
    BY <1>2, <2>1 DEF AddNode
  <2>2. ASSUME NEW h \in Handles, NEW i \in 1..(MaxLen + 1), SetNode(w, h, i)
        PROVE  Running(r)' = Running(r)
    BY <1>2, <2>2 DEF SetNode
  <2>3. ASSUME UNCHANGED <<handle, heap, exec>> PROVE Running(r)' = Running(r)
    BY <1>3, <2>3
  <2> QED BY <1>7, <2>1, <2>2, <2>3 DEF WriterStep, Load, DropPlugin, ToNode, Register, GetNode,
                                         SetOutOfRange
<1>8. ASSUME NEW q \in Readers, ExecStep(q) \/ \E h \in Handles : Begin(q, h)
      PROVE  Running(r)' = Running(r)
  <2>1. UNCHANGED <<handle, heap>>
    BY <1>8 DEF ExecStep, Begin, Enter, Core, Exit, Return
  <2>2. exec'[r].on = exec[r].on
    <3>1. CASE q # r
      BY <1>8, <3>1 DEF ExecStep, Begin, Enter, Core, Exit, Return, IInv, TypeOK
    <3>2. CASE q = r
      BY <1>8, <3>2 DEF ExecStep, Begin, Enter, Core, Exit, Return, Idle, IInv, TypeOK
    <3> QED BY <3>1, <3>2
  <2> QED BY <1>3, <2>1, <2>2
<1>9. CASE UNCHANGED vars
  BY <1>3, <1>9 DEF vars
<1> QED BY <1>4, <1>5, <1>6, <1>7, <1>8, <1>9 DEF Next

(* No torn read, whatever chains, writers and readers there are.            *)
THEOREM SnapshotIsolation == Spec => ExecPinned
<1>1. Spec => []IInv
  BY IInvInit, IInvStep, ConstantsAssumption, PTL DEF Spec
<1>2. IInv /\ [Next]_vars => [\A r \in Readers : exec[r].pc # "idle" /\ exec'[r].pc # "idle"
                                                   => Running(r)' = Running(r)]_vars
  BY PinnedStep, ConstantsAssumption
<1> QED BY <1>1, <1>2, PTL DEF Spec, ExecPinned

-----------------------------------------------------------------------------
(* HotSwap implements ValueChain: sharing snapshots by reference, with      *)
(* copies on change, gives chains the semantics of plain values.            *)

LEMMA RefinesInit == Init /\ ConstantsAssumption => Abs!Init
<1> SUFFICES ASSUME Init, ConstantsAssumption PROVE Abs!Init
  OBVIOUS
<1>1. AbsVal = [g \in Handles |-> IF g = Main THEN <<>> ELSE None]
  BY DEF AbsVal, Init, ConstantsAssumption
<1>2. AbsRun = [r \in Readers |-> Abs!NotRunning]
  BY DEF AbsRun, Init, Idle, Abs!NotRunning
<1> QED BY <1>1, <1>2 DEF Abs!Init, ConstantsAssumption

(* A chain that is not dropped is a sequence of libraries in both views.    *)
LEMMA ValueOf ==
    ASSUME IInv, ConstantsAssumption, NEW h \in Handles
    PROVE  /\ handle[h] = None <=> AbsVal[h] = None
           /\ handle[h] # None => /\ handle[h] \in Snaps /\ AbsVal[h] = heap[handle[h]]
                                  /\ AbsVal[h] \in Seq(Libs) /\ Len(AbsVal[h]) <= MaxLen
BY DEF IInv, TypeOK, AbsVal, ConstantsAssumption

(* A step of the code that changes neither chains nor executions, for       *)
(* instance one of the plugins and the registry, cannot be seen.            *)
LEMMA Unseen ==
    ASSUME UNCHANGED <<handle, heap, exec>>
    PROVE  UNCHANGED Abs!vars
BY DEF Abs!vars, AbsVal, AbsRun, Running

(* What a change of chain h looks like: no other value and no execution     *)
(* changes.                                                                 *)
LEMMA OneValueChanges ==
    ASSUME IInv, ConstantsAssumption, [Next]_vars, NEW h \in Handles, UNCHANGED exec,
           DropChain(h) \/ \E v, moved : Install(h, v, moved)
    PROVE  /\ AbsVal' = [AbsVal EXCEPT ![h] = AbsVal'[h]]
           /\ AbsRun' = AbsRun
<1>1. ASSUME NEW g \in Handles, g # h PROVE AbsVal'[g] = AbsVal[g]
  <2>1. CASE handle[g] = None
    BY <1>1, <2>1 DEF DropChain, Install, AbsVal, IInv, TypeOK
  <2>2. CASE handle[g] # None
    <3>1. handle'[g] = handle[g] /\ heap'[handle'[g]] = heap[handle[g]]
      BY <1>1, <2>2, OthersKept
    <3> QED BY <2>2, <3>1 DEF AbsVal
  <2> QED BY <2>1, <2>2
<1>2. \A r \in Readers : exec[r].pc # "idle" => Running(r)' = Running(r)
  BY PinnedStep
<1>3. AbsRun' = AbsRun
  BY <1>2 DEF AbsRun
<1>4. AbsVal' \in [Handles -> {AbsVal'[g] : g \in Handles}] /\ DOMAIN AbsVal = Handles
  BY DEF AbsVal
<1> QED BY <1>1, <1>3, <1>4

(* Install puts v in the place of the chain's value.                        *)
LEMMA Installed ==
    ASSUME IInv, ConstantsAssumption, NEW h \in Handles, NEW v, NEW moved, Install(h, v, moved)
    PROVE  AbsVal'[h] = v
BY DEF Install, AbsVal, IInv, TypeOK, ConstantsAssumption

LEMMA RefinesStep == IInv /\ ConstantsAssumption /\ [Next]_vars => [Abs!Next]_(Abs!vars)
<1> SUFFICES ASSUME IInv, ConstantsAssumption, [Next]_vars PROVE [Abs!Next]_(Abs!vars)
  OBVIOUS
<1>1. ASSUME NEW h \in Handles, NEW g \in Handles, CloneChain(h, g) PROVE Abs!Next
  <2>1. /\ handle[h] # None /\ handle[g] = None /\ handle' = [handle EXCEPT ![g] = handle[h]]
        /\ UNCHANGED <<heap, exec>>
    BY <1>1 DEF CloneChain
  <2>2. AbsVal' = [AbsVal EXCEPT ![g] = AbsVal[h]]
    BY <2>1 DEF AbsVal, IInv, TypeOK
  <2>3. AbsRun' = AbsRun
    <3>1. \A r \in Readers : exec[r].pc # "idle" => exec[r].on # g /\ exec[r].on \in Handles
      BY <2>1 DEF IInv, Borrowed
    <3> QED BY <2>1, <3>1 DEF AbsRun, Running, IInv, TypeOK
  <2> QED BY <2>1, <2>2, <2>3, ValueOf DEF Abs!Next, Abs!Change, Abs!Clone
<1>2. ASSUME NEW h \in Handles, DropChain(h) PROVE Abs!Next
  <2>1. AbsVal'[h] = None /\ handle[h] # None /\ UNCHANGED exec
    BY <1>2 DEF DropChain, AbsVal, IInv, TypeOK
  <2>2. AbsVal' = [AbsVal EXCEPT ![h] = None] /\ AbsRun' = AbsRun
    BY <1>2, <2>1, OneValueChanges
  <2> QED BY <2>1, <2>2, ValueOf DEF Abs!Next, Abs!Change, Abs!Drop
<1>3. ASSUME NEW h \in Handles, NEW i \in 1..(MaxLen + 1), RemoveNode(h, i)
      PROVE  [Abs!Next]_(Abs!vars)
  <2> DEFINE v == IF i \in DOMAIN heap[handle[h]] THEN RemoveAt(heap[handle[h]], i)
                                                  ELSE heap[handle[h]]
  <2>1. handle[h] # None /\ Install(h, v, {}) /\ UNCHANGED exec
    BY <1>3 DEF RemoveNode
  <2>2. AbsVal'[h] = v
    BY <2>1, Installed
  <2>3. AbsVal' = [AbsVal EXCEPT ![h] = v] /\ AbsRun' = AbsRun
    BY <2>1, <2>2, OneValueChanges
  <2>4. CASE i \in DOMAIN heap[handle[h]]
    <3>1. i \in DOMAIN AbsVal[h] /\ i \in 1..MaxLen
      BY <2>1, <2>4, ValueOf
    <3>2. AbsVal' = [AbsVal EXCEPT ![h] = RemoveAt(AbsVal[h], i)]
      BY <2>1, <2>3, <2>4, ValueOf
    <3>3. RemoveAt(AbsVal[h], i) = Abs!RemoveAt(AbsVal[h], i)
      BY DEF RemoveAt, Abs!RemoveAt
    <3>4. Abs!Take(h, i)
      BY <2>1, <3>1, <3>2, <3>3, ValueOf DEF Abs!Take
    <3> QED BY <2>3, <3>1, <3>4 DEF Abs!Next, Abs!Change
  <2>5. CASE i \notin DOMAIN heap[handle[h]]
    <3>1. v = AbsVal[h]
      BY <2>1, <2>5, ValueOf
    <3>2. AbsVal' = AbsVal
      BY <2>3, <3>1 DEF AbsVal
    <3> QED BY <2>3, <3>2 DEF Abs!vars
  <2> QED BY <2>4, <2>5
<1>4. ASSUME NEW w \in Writers, WriterStep(w) PROVE [Abs!Next]_(Abs!vars)
  <2>1. ASSUME NEW h \in Handles, AddNode(w, h) PROVE Abs!Next
    <3>1. /\ handle[h] # None /\ UNCHANGED exec /\ Len(heap[handle[h]]) < MaxLen
          /\ Install(h, Append(heap[handle[h]], node[w]), {NodeOwner(w)}) /\ node[w] \in Libs
      BY <2>1 DEF AddNode, IInv, TypeOK
    <3>2. AbsVal'[h] = Append(AbsVal[h], node[w])
      BY <3>1, Installed, ValueOf
    <3>3. AbsVal' = [AbsVal EXCEPT ![h] = Append(@, node[w])] /\ AbsRun' = AbsRun
      BY <3>1, <3>2, OneValueChanges
    <3> QED BY <3>1, <3>3, ValueOf DEF Abs!Next, Abs!Change, Abs!Push
  <2>2. ASSUME NEW h \in Handles, NEW i \in 1..(MaxLen + 1), SetNode(w, h, i) PROVE Abs!Next
    <3>1. /\ handle[h] # None /\ UNCHANGED exec /\ i \in DOMAIN heap[handle[h]]
          /\ Install(h, [heap[handle[h]] EXCEPT ![i] = node[w]], {NodeOwner(w)})
          /\ node[w] \in Libs
      BY <2>2 DEF SetNode, IInv, TypeOK
    <3>2. AbsVal'[h] = [AbsVal[h] EXCEPT ![i] = node[w]]
      BY <3>1, Installed, ValueOf
    <3>3. AbsVal' = [AbsVal EXCEPT ![h][i] = node[w]] /\ AbsRun' = AbsRun
      BY <3>1, <3>2, OneValueChanges
    <3>4. i \in DOMAIN AbsVal[h] /\ i \in 1..MaxLen
      BY <3>1, ValueOf
    <3> QED BY <3>1, <3>3, <3>4, ValueOf DEF Abs!Next, Abs!Change, Abs!Put
  <2>3. CASE UNCHANGED <<handle, heap, exec>>
    BY <2>3, Unseen
  <2> QED BY <1>4, <2>1, <2>2, <2>3 DEF WriterStep, Load, DropPlugin, ToNode, Register, GetNode,
                                         SetOutOfRange
<1>5. ASSUME NEW r \in Readers, NEW h \in Handles, Begin(r, h) PROVE Abs!Next
  <2>1. /\ exec[r].pc = "idle" /\ handle[h] # None /\ UNCHANGED <<handle, heap>>
        /\ exec' = [exec EXCEPT ![r] = [pc |-> "enter", on |-> h, idx |-> 1]]
    BY <1>5 DEF Begin
  <2>2. AbsVal' = AbsVal
    BY <2>1 DEF AbsVal
  <2>3. AbsRun' = [AbsRun EXCEPT ![r] = [pc |-> "enter", nodes |-> AbsVal[h], idx |-> 1]]
    BY <2>1, ValueOf DEF AbsRun, Running, IInv, TypeOK
  <2>4. AbsRun[r].pc = "idle"
    BY <2>1 DEF AbsRun
  <2> QED BY <2>1, <2>2, <2>3, <2>4, ValueOf DEF Abs!Next, Abs!Begin
<1>6. ASSUME NEW r \in Readers, ExecStep(r) PROVE Abs!Next
  <2>1. UNCHANGED <<handle, heap>> /\ exec[r].pc # "idle"
    BY <1>6 DEF ExecStep, Enter, Core, Exit, Return
  <2>2. AbsVal' = AbsVal
    BY <2>1 DEF AbsVal
  <2>3. /\ AbsRun[r] = [pc |-> exec[r].pc, nodes |-> Running(r), idx |-> exec[r].idx]
        /\ exec[r] \in [pc : {"idle", "enter", "exit"}, on : Handles \cup {None}, idx : Nat]
    BY <2>1 DEF AbsRun, IInv, TypeOK
  <2>4. ASSUME exec' = [exec EXCEPT ![r] = Idle]
        PROVE  AbsRun' = [AbsRun EXCEPT ![r] = Abs!NotRunning]
    BY <2>1, <2>4 DEF AbsRun, Running, Idle, Abs!NotRunning, IInv, TypeOK
  <2>5. ASSUME NEW e, e.on = exec[r].on, e.pc # "idle", exec' = [exec EXCEPT ![r] = e]
        PROVE  AbsRun' = [AbsRun EXCEPT ![r] = [pc |-> e.pc, nodes |-> Running(r), idx |-> e.idx]]
    BY <2>1, <2>5 DEF AbsRun, Running, IInv, TypeOK
  <2>6. Abs!Advance(r)
    <3> DEFINE e(pc, idx) == [pc |-> pc, on |-> exec[r].on, idx |-> idx]
               a(pc, idx) == [pc |-> pc, nodes |-> Running(r), idx |-> idx]
    <3>0. ASSUME NEW pc \in {"enter", "exit"}, NEW idx, exec' = [exec EXCEPT ![r] = e(pc, idx)]
          PROVE  AbsRun' = [AbsRun EXCEPT ![r] = a(pc, idx)]
      <4>1. e(pc, idx).on = exec[r].on /\ e(pc, idx).pc = pc /\ e(pc, idx).idx = idx /\ pc # "idle"
        OBVIOUS
      <4> HIDE DEF e
      <4> QED BY <2>5, <3>0, <4>1
    <3>1. CASE Enter(r)
      <4>1. /\ AbsRun[r].pc = "enter" /\ AbsRun[r].idx <= Len(AbsRun[r].nodes)
            /\ \/ exec' = [exec EXCEPT ![r] = e("enter", exec[r].idx + 1)]
               \/ exec' = [exec EXCEPT ![r] = Idle]
        BY <2>3, <3>1 DEF Enter
      <4>2. [AbsRun EXCEPT ![r].idx = @ + 1] = [AbsRun EXCEPT ![r] = a("enter", exec[r].idx + 1)]
        <5>1. [AbsRun[r] EXCEPT !.idx = @ + 1] = a("enter", exec[r].idx + 1)
          BY <2>3, <3>1 DEF Enter
        <5> QED BY <5>1
      <4> QED BY <2>2, <2>4, <3>0, <4>1, <4>2 DEF Abs!Advance
    <3>2. CASE Core(r)
      <4>1. /\ AbsRun[r].pc = "enter" /\ AbsRun[r].idx > Len(AbsRun[r].nodes)
            /\ \/ exec' = [exec EXCEPT ![r] = e("exit", Len(Running(r)))]
               \/ exec' = [exec EXCEPT ![r] = Idle]
        BY <2>3, <3>2 DEF Core
      <4>2. [AbsRun EXCEPT ![r].pc = "exit", ![r].idx = Len(AbsRun[r].nodes)]
              = [AbsRun EXCEPT ![r] = a("exit", Len(Running(r)))]
        <5>1. [AbsRun[r] EXCEPT !.pc = "exit", !.idx = Len(AbsRun[r].nodes)]
                = a("exit", Len(Running(r)))
          <6>1. AbsRun[r].nodes = Running(r)
            BY <2>3
          <6>2. ASSUME NEW x, NEW n, x = [pc |-> "exit", nodes |-> Running(r), idx |-> exec[r].idx]
                PROVE  [x EXCEPT !.idx = n] = a("exit", n)
            BY <6>2
          <6>3. [AbsRun[r] EXCEPT !.pc = "exit"]
                  = [pc |-> "exit", nodes |-> Running(r), idx |-> exec[r].idx]
            BY <2>3
          <6> HIDE DEF a
          <6>4. [[AbsRun[r] EXCEPT !.pc = "exit"] EXCEPT !.idx = Len(Running(r))]
                  = a("exit", Len(Running(r)))
            BY <6>2, <6>3
          <6> QED BY <6>1, <6>4
        <5>2. r \in DOMAIN AbsRun
          BY DEF AbsRun
        <5> QED BY <5>1, <5>2
      <4> QED BY <2>2, <2>4, <3>0, <4>1, <4>2 DEF Abs!Advance
    <3>3. CASE Exit(r)
      <4>1. /\ AbsRun[r].pc = "exit" /\ AbsRun[r].idx > 0
            /\ exec' = [exec EXCEPT ![r] = e("exit", exec[r].idx - 1)]
        <5>1. [exec[r] EXCEPT !.idx = @ - 1] = e("exit", exec[r].idx - 1)
          BY <2>3, <3>3 DEF Exit
        <5>2. exec' = [exec EXCEPT ![r] = [exec[r] EXCEPT !.idx = @ - 1]]
          BY <3>3 DEF Exit
        <5>3. AbsRun[r].pc = "exit" /\ AbsRun[r].idx > 0
          BY <2>3, <3>3 DEF Exit
        <5> QED BY <5>1, <5>2, <5>3
      <4>2. [AbsRun EXCEPT ![r].idx = @ - 1] = [AbsRun EXCEPT ![r] = a("exit", exec[r].idx - 1)]
        <5>1. [AbsRun[r] EXCEPT !.idx = @ - 1] = a("exit", exec[r].idx - 1)
          BY <2>3, <3>3 DEF Exit
        <5> QED BY <5>1
      <4> QED BY <2>2, <3>0, <4>1, <4>2 DEF Abs!Advance
    <3>4. CASE Return(r)
      BY <2>2, <2>3, <2>4, <3>4 DEF Return, Abs!Advance
    <3> QED BY <1>6, <3>1, <3>2, <3>3, <3>4 DEF ExecStep
  <2> QED BY <2>6 DEF Abs!Next
<1>7. CASE UNCHANGED vars
  BY <1>7, Unseen DEF vars
<1> QED BY <1>1, <1>2, <1>3, <1>4, <1>5, <1>6, <1>7 DEF Next

(* Chains behave as values and each execution is one onion of the value     *)
(* its chain had when it began: the code implements ValueChain.             *)
THEOREM ChainsAreValues == Spec => ImplementsValueChain
<1>1. Spec => []IInv
  BY IInvInit, IInvStep, ConstantsAssumption, PTL DEF Spec
<1> QED BY <1>1, RefinesInit, RefinesStep, ConstantsAssumption, PTL
        DEF Spec, ImplementsValueChain, Abs!Spec
=============================================================================
