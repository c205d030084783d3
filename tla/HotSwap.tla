------------------------------ MODULE HotSwap ------------------------------
(***************************************************************************)
(* The run-time reloadable middleware chain (src/opaque.rs OpaqueChain,    *)
(* src/runtime.rs PluginOpaque and PluginRegistry).                        *)
(*                                                                         *)
(* A chain value owns an Arc of an immutable vector of nodes, a snapshot.  *)
(* add, remove and set copy the vector, change the copy and replace the    *)
(* Arc; a clone of the chain shares the snapshot.  Every node owns an Arc  *)
(* of the dlopened library its function pointers lead into (keepalive).    *)
(* The library is closed when the last of those Arcs is dropped, and the   *)
(* pointers of a node are called without any check.                        *)
(*                                                                         *)
(* The strong count of an Arc is modelled by the set of its owners, kept   *)
(* incrementally: a clone adds an owner, a drop removes one, and the drop  *)
(* of the last owner of a snapshot drops the nodes it holds.               *)
(***************************************************************************)
EXTENDS Naturals, Sequences, SequencesExt

CONSTANTS
    Handles,   \* OpaqueChain values: the shared one and the clones of it
    Main,      \* the handle the program starts with (inside its RwLock)
    Snaps,     \* addresses of the Arc<Vec<OpaqueNode>> allocations
    Readers,   \* threads that execute a chain
    Writers,   \* threads that load plugins and change chains
    Libs,      \* libloading::Library objects (a node is named by its library)
    Names,     \* names of the PluginRegistry
    None,      \* Option::None
    MaxLen     \* bound of the model: longest chain a writer builds

ASSUME ConstantsAssumption ==
    /\ Main \in Handles
    /\ None \notin Snaps \cup Libs /\ None \notin Seq(Libs)
    /\ MaxLen \in Nat

VARIABLES
    handle,    \* handle[h]: the snapshot chain h owns, None once dropped
    heap,      \* heap[s]: the nodes of snapshot s
    snapRefs,  \* snapRefs[s]: the chains that own a clone of Arc s
    libRefs,   \* libRefs[l]: the owners of a clone of the Arc of library l
    registry,  \* registry[n]: library of the plugin registered as n
    plugin,    \* plugin[w]: the PluginOpaque writer w holds
    node,      \* node[w]: the OpaqueNode writer w holds
    exec       \* exec[r]: where reader r is in OpaqueChain::exec

vars == <<handle, heap, snapRefs, libRefs, registry, plugin, node, exec>>

Idle == [pc |-> "idle", on |-> None, idx |-> 0]

(* The owners of an Arc<Library>: a slot of a snapshot, the plugin or the   *)
(* node in a writer's local variable, the plugin under a registry name.     *)
SlotOwner(s, i)  == <<"slot", s, i>>
PluginOwner(w)   == <<"plugin", w, 0>>
NodeOwner(w)     == <<"node", w, 0>>
NameOwner(n)     == <<"name", n, 0>>

Owners == ({"slot"} \X Snaps \X (1..MaxLen)) \cup ({"plugin", "node"} \X Writers \X {0})
            \cup ({"name"} \X Names \X {0})

Init ==
    /\ \E s \in Snaps : handle = [h \in Handles |-> IF h = Main THEN s ELSE None]
    /\ heap = [s \in Snaps |-> <<>>]
    /\ snapRefs = [s \in Snaps |-> {h \in Handles : handle[h] = s}]
    /\ libRefs = [l \in Libs |-> {}]
    /\ registry = [n \in Names |-> None]
    /\ plugin = [w \in Writers |-> None]
    /\ node = [w \in Writers |-> None]
    /\ exec = [r \in Readers |-> Idle]

(* A library is mapped while somebody owns its Arc: Library::drop closes it. *)
Open(l) == libRefs[l] # {}

(* exec borrows &self and add, remove, set and drop need the chain for      *)
(* themselves: the borrow checker and the RwLock around a shared chain.     *)
Exclusive(h) == \A r \in Readers : exec[r].on # h

-----------------------------------------------------------------------------
(* Arc bookkeeping *)

(* Mutant of SlotOwners: a node is raw function pointers only, no keepalive. *)
NoKeepalive(s, v, l) == {}

(* The owners in a vector v placed at s that hold library l: pushing or     *)
(* cloning a node clones its keepalive.                                     *)
SlotOwners(s, v, l) == {SlotOwner(s, i) : i \in {j \in DOMAIN v : v[j] = l}}

(* The snapshot that dies when chain h lets go of its Arc.                  *)
Dying(h) == {s \in Snaps : snapRefs[s] = {h}}

(* Mutant of Released: the nodes of a freed snapshot are not dropped.       *)
LeakyRelease(l, dead, gone) == libRefs[l] \ gone

(* What library l is still owned by once the snapshots in dead are dropped  *)
(* with their nodes, and the local variable or name in gone too.            *)
Released(l, dead, gone) ==
    (libRefs[l] \ UNION {SlotOwners(s, heap[s], l) : s \in dead}) \ gone

(* self.nodes = Arc::new(v): a fresh snapshot, the old Arc dropped.  moved  *)
(* is the owner whose node was moved into v.                                *)
Install(h, v, moved) ==
    \E s \in {x \in Snaps : snapRefs[x] = {}} :
        /\ handle' = [handle EXCEPT ![h] = s]
        /\ heap' = [x \in Snaps |-> IF x = s THEN v
                                    ELSE IF x \in Dying(h) THEN <<>> ELSE heap[x]]
        /\ snapRefs' = [x \in Snaps |-> IF x = s THEN {h} ELSE snapRefs[x] \ {h}]
        /\ libRefs' = [l \in Libs |-> Released(l, Dying(h), moved) \cup SlotOwners(s, v, l)]

-----------------------------------------------------------------------------
(* Chain values *)

(* Mutant of CloneChain: the snapshot is shared without counting the clone. *)
CloneUncounted(h, g) ==
    /\ handle[h] # None
    /\ handle[g] = None
    /\ handle' = [handle EXCEPT ![g] = handle[h]]
    /\ UNCHANGED <<heap, snapRefs, libRefs, registry, plugin, node, exec>>

(* #[derive(Clone)]: the clone shares the snapshot.  A reader takes one     *)
(* under the read lock and executes it after the lock is gone.              *)
CloneChain(h, g) ==
    /\ handle[h] # None
    /\ handle[g] = None
    /\ handle' = [handle EXCEPT ![g] = handle[h]]
    /\ snapRefs' = [snapRefs EXCEPT ![handle[h]] = @ \cup {g}]
    /\ UNCHANGED <<heap, libRefs, registry, plugin, node, exec>>

DropChain(h) ==
    /\ handle[h] # None
    /\ Exclusive(h)
    /\ handle' = [handle EXCEPT ![h] = None]
    /\ heap' = [s \in Snaps |-> IF s \in Dying(h) THEN <<>> ELSE heap[s]]
    /\ snapRefs' = [s \in Snaps |-> snapRefs[s] \ {h}]
    /\ libRefs' = [l \in Libs |-> Released(l, Dying(h), {})]
    /\ UNCHANGED <<registry, plugin, node, exec>>

(* add: push the node the writer holds onto a copy.                         *)
AddNode(w, h) ==
    /\ handle[h] # None
    /\ node[w] # None
    /\ Exclusive(h)
    /\ Len(heap[handle[h]]) < MaxLen
    /\ Install(h, Append(heap[handle[h]], node[w]), {NodeOwner(w)})
    /\ node' = [node EXCEPT ![w] = None]
    /\ UNCHANGED <<registry, plugin, exec>>

(* Mutant of SetNode: the vector is changed in place, under every clone.    *)
SetInPlace(w, h, i) ==
    /\ handle[h] # None
    /\ node[w] # None
    /\ Exclusive(h)
    /\ i \in DOMAIN heap[handle[h]]
    /\ heap' = [heap EXCEPT ![handle[h]][i] = node[w]]
    /\ node' = [node EXCEPT ![w] = None]
    /\ UNCHANGED <<handle, snapRefs, libRefs, registry, plugin, exec>>

(* set: put the node in place i of a copy.                                  *)
SetNode(w, h, i) ==
    /\ handle[h] # None
    /\ node[w] # None
    /\ Exclusive(h)
    /\ i \in DOMAIN heap[handle[h]]
    /\ Install(h, [heap[handle[h]] EXCEPT ![i] = node[w]], {NodeOwner(w)})
    /\ node' = [node EXCEPT ![w] = None]
    /\ UNCHANGED <<registry, plugin, exec>>

(* set out of range answers false: the copy and the node are dropped.       *)
SetOutOfRange(w, h, i) ==
    /\ handle[h] # None
    /\ node[w] # None
    /\ Exclusive(h)
    /\ i \notin DOMAIN heap[handle[h]]
    /\ node' = [node EXCEPT ![w] = None]
    /\ libRefs' = [l \in Libs |-> Released(l, {}, {NodeOwner(w)})]
    /\ UNCHANGED <<handle, heap, snapRefs, registry, plugin, exec>>

(* remove: out of range it installs an unchanged copy.                      *)
RemoveNode(h, i) ==
    /\ handle[h] # None
    /\ Exclusive(h)
    /\ Install(h, IF i \in DOMAIN heap[handle[h]]
                  THEN RemoveAt(heap[handle[h]], i)
                  ELSE heap[handle[h]], {})
    /\ UNCHANGED <<registry, plugin, node, exec>>

-----------------------------------------------------------------------------
(* Plugins and the registry *)

(* PluginOpaque::load of a good library.  A library that fails the ABI      *)
(* check is closed before load returns and leaves no trace here.            *)
Load(w, l) ==
    /\ plugin[w] = None
    /\ ~Open(l)
    /\ plugin' = [plugin EXCEPT ![w] = l]
    /\ libRefs' = [libRefs EXCEPT ![l] = {PluginOwner(w)}]
    /\ UNCHANGED <<handle, heap, snapRefs, registry, node, exec>>

DropPlugin(w) ==
    /\ plugin[w] # None
    /\ plugin' = [plugin EXCEPT ![w] = None]
    /\ libRefs' = [l \in Libs |-> Released(l, {}, {PluginOwner(w)})]
    /\ UNCHANGED <<handle, heap, snapRefs, registry, node, exec>>

(* to_node: the node gets a clone of the library's Arc.                     *)
ToNode(w) ==
    /\ plugin[w] # None
    /\ node[w] = None
    /\ node' = [node EXCEPT ![w] = plugin[w]]
    /\ libRefs' = [libRefs EXCEPT ![plugin[w]] = @ \cup {NodeOwner(w)}]
    /\ UNCHANGED <<handle, heap, snapRefs, registry, plugin, exec>>

(* register: moves the plugin in and drops the one it replaces.             *)
Register(w, n) ==
    /\ plugin[w] # None
    /\ registry' = [registry EXCEPT ![n] = plugin[w]]
    /\ plugin' = [plugin EXCEPT ![w] = None]
    /\ libRefs' = [l \in Libs |->
                     Released(l, {}, {PluginOwner(w), NameOwner(n)})
                       \cup (IF l = plugin[w] THEN {NameOwner(n)} ELSE {})]
    /\ UNCHANGED <<handle, heap, snapRefs, node, exec>>

GetNode(w, n) ==
    /\ registry[n] # None
    /\ node[w] = None
    /\ node' = [node EXCEPT ![w] = registry[n]]
    /\ libRefs' = [libRefs EXCEPT ![registry[n]] = @ \cup {NodeOwner(w)}]
    /\ UNCHANGED <<handle, heap, snapRefs, registry, plugin, exec>>

-----------------------------------------------------------------------------
(* Executions *)

(* The nodes reader r is running: exec reads them through the Arc.          *)
Running(r) == heap[handle[exec[r].on]]

Begin(r, h) ==
    /\ exec[r].pc = "idle"
    /\ handle[h] # None
    /\ exec' = [exec EXCEPT ![r] = [pc |-> "enter", on |-> h, idx |-> 1]]
    /\ UNCHANGED <<handle, heap, snapRefs, libRefs, registry, plugin, node>>

(* One enter call.  It goes on, or the short circuit or rejection ends exec *)
(* with no core and no exit.                                                *)
Enter(r) ==
    /\ exec[r].pc = "enter"
    /\ exec[r].idx <= Len(Running(r))
    /\ \/ exec' = [exec EXCEPT ![r].idx = @ + 1]
       \/ exec' = [exec EXCEPT ![r] = Idle]
    /\ UNCHANGED <<handle, heap, snapRefs, libRefs, registry, plugin, node>>

(* Mutant of Core: the reverse loop starts one short of the last node.      *)
CoreSkipsLastExit(r) ==
    /\ exec[r].pc = "enter"
    /\ exec[r].idx > Len(Running(r))
    /\ \/ exec' = [exec EXCEPT ![r].pc = "exit",
                               ![r].idx = IF Running(r) = <<>> THEN 0 ELSE Len(Running(r)) - 1]
       \/ exec' = [exec EXCEPT ![r] = Idle]
    /\ UNCHANGED <<handle, heap, snapRefs, libRefs, registry, plugin, node>>

(* The core, after the last enter.  A panic unwinds past the exits.         *)
Core(r) ==
    /\ exec[r].pc = "enter"
    /\ exec[r].idx > Len(Running(r))
    /\ \/ exec' = [exec EXCEPT ![r].pc = "exit", ![r].idx = Len(Running(r))]
       \/ exec' = [exec EXCEPT ![r] = Idle]
    /\ UNCHANGED <<handle, heap, snapRefs, libRefs, registry, plugin, node>>

(* Mutant of Exit: the reverse loop runs past the first node.               *)
ExitPastFirst(r) ==
    /\ exec[r].pc = "exit"
    /\ exec' = [exec EXCEPT ![r].idx = @ - 1]
    /\ UNCHANGED <<handle, heap, snapRefs, libRefs, registry, plugin, node>>

(* One exit call, in reverse order.                                         *)
Exit(r) ==
    /\ exec[r].pc = "exit"
    /\ exec[r].idx > 0
    /\ exec' = [exec EXCEPT ![r].idx = @ - 1]
    /\ UNCHANGED <<handle, heap, snapRefs, libRefs, registry, plugin, node>>

Return(r) ==
    /\ exec[r].pc = "exit"
    /\ exec[r].idx = 0
    /\ exec' = [exec EXCEPT ![r] = Idle]
    /\ UNCHANGED <<handle, heap, snapRefs, libRefs, registry, plugin, node>>

ExecStep(r) == Enter(r) \/ Core(r) \/ Exit(r) \/ Return(r)

-----------------------------------------------------------------------------
WriterStep(w) ==
    \/ \E l \in Libs : Load(w, l)
    \/ DropPlugin(w)
    \/ ToNode(w)
    \/ \E n \in Names : Register(w, n) \/ GetNode(w, n)
    \/ \E h \in Handles : AddNode(w, h)
    \/ \E h \in Handles, i \in 1..(MaxLen + 1) : SetNode(w, h, i) \/ SetOutOfRange(w, h, i)

Next ==
    \/ \E h, g \in Handles : CloneChain(h, g)
    \/ \E h \in Handles : DropChain(h)
    \/ \E h \in Handles, i \in 1..(MaxLen + 1) : RemoveNode(h, i)
    \/ \E w \in Writers : WriterStep(w)
    \/ \E r \in Readers, h \in Handles : Begin(r, h)
    \/ \E r \in Readers : ExecStep(r)

Spec == Init /\ [][Next]_vars

-----------------------------------------------------------------------------
(* The shape of the state: chains point at snapshots, snapshots hold        *)
(* libraries, an execution is idle or runs a chain at a place in it.        *)
TypeOK ==
    /\ handle \in [Handles -> Snaps \cup {None}]
    /\ heap \in [Snaps -> Seq(Libs)]
    /\ \A s \in Snaps : Len(heap[s]) <= MaxLen
    /\ snapRefs \in [Snaps -> SUBSET Handles]
    /\ libRefs \in [Libs -> SUBSET Owners]
    /\ registry \in [Names -> Libs \cup {None}]
    /\ plugin \in [Writers -> Libs \cup {None}]
    /\ node \in [Writers -> Libs \cup {None}]
    /\ exec \in [Readers -> [pc : {"idle", "enter", "exit"},
                             on : Handles \cup {None}, idx : Nat]]

(* Arc counts are exact: a snapshot is owned by exactly the chains that     *)
(* point at it, and a library by exactly the nodes and plugins that can     *)
(* still reach it: nothing dangles and nothing leaks.                       *)
SnapRefsExact == \A s \in Snaps : snapRefs[s] = {h \in Handles : handle[h] = s}

OwnersOf(l) ==
    (UNION {SlotOwners(s, heap[s], l) : s \in Snaps})
    \cup {PluginOwner(w) : w \in {x \in Writers : plugin[x] = l}}
    \cup {NodeOwner(w) : w \in {x \in Writers : node[x] = l}}
    \cup {NameOwner(n) : n \in {x \in Names : registry[x] = l}}

LibRefsExact == \A l \in Libs : libRefs[l] = OwnersOf(l)

(* A chain stays where it is while an execution borrows it, and a freed     *)
(* snapshot holds nothing.                                                  *)
Borrowed == \A r \in Readers :
                exec[r].pc # "idle" => exec[r].on \in Handles /\ handle[exec[r].on] # None
FreedEmpty == \A s \in Snaps : snapRefs[s] = {} => heap[s] = <<>>

(* No call into a closed library: whatever enter or exit an execution still *)
(* has to make, the library of that node is open (keepalive, runtime.rs).   *)
CallsOpen ==
    \A r \in Readers :
        exec[r].pc # "idle" => \A i \in DOMAIN Running(r) : Open(Running(r)[i])

(* No torn read: from its first enter to its last exit an execution sees    *)
(* one vector of nodes, whatever writers do meanwhile.                      *)
ExecPinned ==
    [][\A r \in Readers : exec[r].pc # "idle" /\ exec'[r].pc # "idle"
                              => Running(r)' = Running(r)]_vars

(* What the source says of libraries (runtime.rs:9-10, 22, opaque.rs:22):   *)
(* once loaded they are never unloaded.                                     *)
NeverUnloaded == [][\A l \in Libs : Open(l) => Open(l)']_vars

-----------------------------------------------------------------------------
(* Sharing snapshots by reference gives chains the semantics of values.     *)
AbsVal == [h \in Handles |-> IF handle[h] = None THEN None ELSE heap[handle[h]]]
AbsRun == [r \in Readers |->
             [pc |-> exec[r].pc,
              nodes |-> IF exec[r].pc = "idle" THEN <<>> ELSE Running(r),
              idx |-> exec[r].idx]]

Abs == INSTANCE ValueChain WITH val <- AbsVal, run <- AbsRun

(* Chains behave as values: no change of one chain shows in another or in   *)
(* an execution that began before it, and each execution is one onion.      *)
ImplementsValueChain == Abs!Spec
=============================================================================
