------------------------------ MODULE Upgrade ------------------------------
(***************************************************************************)
(* What a host does with a plugin it has loaded (src/runtime.rs).  It      *)
(* moves the state of the running version into it and sets it into the     *)
(* chain, as tests/opaque.rs does, or it registers it under a name, which  *)
(* later builds of a chain refer to (src/config.rs).                       *)
(*                                                                         *)
(* The chain is shared as RwLock<OpaqueChain>.  Executions run on a clone  *)
(* taken under the read lock (tests/opaque.rs) or under the read lock      *)
(* itself (tests/d3_snapshot.rs); each one adds 1 to the state of the      *)
(* version it enters.  The state is moved without a lock                   *)
(* (tests/opaque.rs:239): only OpaqueChain::set is done under the write    *)
(* lock.  Versions are numbered in the order of their loads.               *)
(*                                                                         *)
(* The names every specification has carry a prefix here, so that a module *)
(* can speak of this one and of HotSwap together.                          *)
(***************************************************************************)
EXTENDS Naturals, Sequences

CONSTANTS
    Callers,        \* threads that execute the chain
    RegistryNames,  \* names of the registry
    Items,          \* the configuration, a sequence of "@name" items
    MaxVersion,     \* bound of the model: plugins loaded
    MaxEntered      \* bound of the model: executions

ASSUME BoundsAssumption ==
    MaxVersion \in Nat \ {0} /\ MaxEntered \in Nat /\ Items \in Seq(RegistryNames)

Versions == 1..MaxVersion

VARIABLES
    loaded,   \* the last version loaded
    host,     \* where the host is, the version it loaded, the state it read
    chain,    \* the version in the chain
    caller,   \* caller[c]: where c is and the version it is going to enter
    count,    \* count[v]: the static counter of version v
    entered,  \* history: executions that entered some version
    pending,  \* history: those since a running upgrade has read the state
    late,     \* history: those on a version whose state had been moved on
    plugins,  \* PluginRegistry.plugins, 0 for none
    latest,   \* history: the last version registered under each name
    build     \* a build of a chain: its nodes so far, latest when it began

chainVars == <<chain, caller, count, entered, pending, late>>
registryVars == <<plugins, latest>>
hostVars == <<loaded, host, chainVars, registryVars, build>>

HostIdle == [at |-> "idle", new |-> 0, state |-> 0]
CallerIdle == [at |-> "idle", v |-> 0]
Unregistered == [n \in RegistryNames |-> 0]

HostInit ==
    /\ loaded = 1 /\ chain = 1
    /\ host = HostIdle
    /\ caller = [c \in Callers |-> CallerIdle]
    /\ count = [v \in Versions |-> 0]
    /\ entered = 0 /\ pending = 0 /\ late = 0
    /\ plugins = Unregistered /\ latest = Unregistered
    /\ build = [at |-> "none", nodes |-> <<>>, floor |-> Unregistered]

ReadLocked == \E c \in Callers : caller[c].at \in {"guard", "held"}

-----------------------------------------------------------------------------
(* The host *)

(* load_with_layout: a library that does not open, has the wrong ABI or     *)
(* another layout is dropped and nothing else changes.                      *)
LoadVersion ==
    /\ host = HostIdle
    /\ loaded < MaxVersion
    /\ loaded' = loaded + 1
    /\ host' \in {HostIdle, [HostIdle EXCEPT !.at = "loaded", !.new = loaded + 1]}
    /\ UNCHANGED <<chainVars, registryVars, build>>

(* get_extra_symbol_u64 of the running version; a plugin without the symbol *)
(* ends the upgrade.                                                        *)
GetState ==
    /\ host.at = "loaded"
    /\ host' \in {HostIdle, [host EXCEPT !.at = "read", !.state = count[chain]]}
    /\ UNCHANGED <<loaded, chainVars, registryVars, build>>

(* The new version has no such symbol: the chain keeps the one it has.      *)
GiveUp ==
    /\ host' = HostIdle
    /\ pending' = 0
    /\ UNCHANGED count

(* Mutant of SetState: that the new version took no state is not noticed.   *)
SetStateUnchecked ==
    /\ host.at = "read"
    /\ host' = [host EXCEPT !.at = "written"]
    /\ \/ count' = [count EXCEPT ![host.new] = host.state]
       \/ UNCHANGED count
    /\ UNCHANGED <<loaded, chain, caller, entered, pending, late, registryVars, build>>

(* set_extra_symbol_u64 of the new version.                                 *)
SetState ==
    /\ host.at = "read"
    /\ \/ /\ count' = [count EXCEPT ![host.new] = host.state]
          /\ host' = [host EXCEPT !.at = "written"]
          /\ UNCHANGED pending
       \/ GiveUp
    /\ UNCHANGED <<loaded, chain, caller, entered, late, registryVars, build>>

(* OpaqueChain::set, under the write lock.                                  *)
Publish ==
    /\ host.at = "written"
    /\ ~ReadLocked
    /\ chain' = host.new
    /\ host' = HostIdle
    /\ late' = late + pending /\ pending' = 0
    /\ UNCHANGED <<loaded, caller, count, entered, registryVars, build>>

(* Mutant of RegisterVersion: a name that is taken keeps its plugin.        *)
RegisterVersionOnce(n) ==
    /\ host.at = "loaded"
    /\ plugins' = IF plugins[n] = 0 THEN [plugins EXCEPT ![n] = host.new] ELSE plugins
    /\ latest' = [latest EXCEPT ![n] = host.new]
    /\ host' = HostIdle
    /\ UNCHANGED <<loaded, chainVars, build>>

(* PluginRegistry::register takes the plugin for good: its state cannot be  *)
(* read or written any more.                                                *)
RegisterVersion(n) ==
    /\ host.at = "loaded"
    /\ plugins' = [plugins EXCEPT ![n] = host.new]
    /\ latest' = [latest EXCEPT ![n] = host.new]
    /\ host' = HostIdle
    /\ UNCHANGED <<loaded, chainVars, build>>

-----------------------------------------------------------------------------
(* Executions *)

Take(c, how) ==
    /\ caller[c] = CallerIdle
    /\ caller' = [caller EXCEPT ![c] = [at |-> how, v |-> chain]]
    /\ UNCHANGED <<loaded, host, chain, count, entered, pending, late, registryVars, build>>

(* enter of the plugin; a clone is dropped afterwards, the lock only when   *)
(* the execution is over.                                                   *)
EnterVersion(c) ==
    LET v == caller[c].v
        cloned == caller[c].at = "clone"
        loses == v # chain
        risks == v = chain /\ host.at \in {"read", "written"}
    IN  /\ caller[c].at \in {"clone", "guard"}
        /\ entered < MaxEntered
        /\ entered' = entered + 1
        /\ count' = [count EXCEPT ![v] = @ + 1]
        /\ late' = IF loses THEN late + 1 ELSE late
        /\ pending' = IF risks THEN pending + 1 ELSE pending
        /\ caller' = [caller EXCEPT ![c] =
                         IF cloned THEN CallerIdle ELSE [at |-> "held", v |-> v]]
        /\ UNCHANGED <<loaded, host, chain, registryVars, build>>

Release(c) ==
    /\ caller[c].at = "held"
    /\ caller' = [caller EXCEPT ![c] = CallerIdle]
    /\ UNCHANGED <<loaded, host, chain, count, entered, pending, late, registryVars, build>>

-----------------------------------------------------------------------------
(* Builds of a chain *)

BeginBuild ==
    /\ build.at # "running"
    /\ build' = [at |-> "running", nodes |-> <<>>, floor |-> latest]
    /\ UNCHANGED <<loaded, host, chainVars, registryVars>>

(* Mutant of BuildItem: an unknown name is not refused.                     *)
BuildItemUnchecked ==
    /\ build.at = "running"
    /\ Len(build.nodes) < Len(Items)
    /\ build' = [build EXCEPT !.nodes = Append(@, plugins[Items[Len(build.nodes) + 1]])]
    /\ UNCHANGED <<loaded, host, chainVars, registryVars>>

(* build_opaque_chain_with_registry takes one node after another from the   *)
(* registry, each under its mutex; the first unknown name is an error.      *)
BuildItem ==
    /\ build.at = "running"
    /\ Len(build.nodes) < Len(Items)
    /\ LET v == plugins[Items[Len(build.nodes) + 1]]
       IN  build' = IF v = 0 THEN [build EXCEPT !.at = "failed"]
                    ELSE [build EXCEPT !.nodes = Append(@, v)]
    /\ UNCHANGED <<loaded, host, chainVars, registryVars>>

EndBuild ==
    /\ build.at = "running"
    /\ Len(build.nodes) = Len(Items)
    /\ build' = [build EXCEPT !.at = "built"]
    /\ UNCHANGED <<loaded, host, chainVars, registryVars>>

HostNext ==
    \/ LoadVersion \/ GetState \/ SetState \/ Publish
    \/ \E n \in RegistryNames : RegisterVersion(n)
    \/ \E c \in Callers : Take(c, "clone") \/ Take(c, "guard") \/ EnterVersion(c) \/ Release(c)
    \/ BeginBuild \/ BuildItem \/ EndBuild

HostSpec == HostInit /\ [][HostNext]_hostVars

-----------------------------------------------------------------------------
HostTypeOK ==
    /\ loaded \in Versions /\ chain \in 1..loaded
    /\ host \in [at : {"idle", "loaded", "read", "written"},
                 new : 0..loaded, state : 0..entered]
    /\ caller \in [Callers -> [at : {"idle", "clone", "guard", "held"}, v : 0..chain]]
    /\ count \in [Versions -> 0..entered]
    /\ entered \in 0..MaxEntered /\ late \in 0..entered /\ pending \in 0..entered
    /\ plugins \in [RegistryNames -> 0..loaded] /\ latest \in [RegistryNames -> 0..loaded]
    /\ build \in [at : {"none", "running", "built", "failed"},
                  nodes : Seq(Versions), floor : [RegistryNames -> 0..loaded]]

(* The state goes on across upgrades, as far as moving it without a lock    *)
(* can make it: the version in the chain has counted every execution so     *)
(* far, whichever version it ran on, and none twice.  What an execution     *)
(* adds is lost only if it enters a version whose state has been read for   *)
(* the upgrade that replaces it, be it on the chain itself between the      *)
(* read and set or on an older clone; an upgrade that is given up loses     *)
(* nothing.                                                                 *)
StateContinues == count[chain] = entered - late

(* A chain built from the registry while its names are registered again is  *)
(* never behind what was registered when the build began, does not go back  *)
(* in time between two uses of a name, and fails only for a name that had   *)
(* no plugin then.                                                          *)
BuiltFresh ==
    /\ \A i \in DOMAIN build.nodes :
         /\ build.floor[Items[i]] <= build.nodes[i] /\ build.nodes[i] <= latest[Items[i]]
         /\ \A j \in 1..i : Items[j] = Items[i] => build.nodes[j] <= build.nodes[i]
    /\ build.at = "failed" => build.floor[Items[Len(build.nodes) + 1]] = 0
=============================================================================
