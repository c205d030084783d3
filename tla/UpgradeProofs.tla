--------------------------- MODULE UpgradeProofs ---------------------------
(***************************************************************************)
(* Proofs about Upgrade for any callers, number of versions and items.     *)
(* No lock is held while the state is moved, so callers enter the running  *)
(* version all the while: what the new version is going to take up is what *)
(* the running one has counted but for those executions.                   *)
(***************************************************************************)
EXTENDS Upgrade, SequenceTheorems, TLAPS

HostStates ==
    [at : {"idle", "loaded", "read", "written"}, new : 0..loaded, state : 0..entered]

(* The host works on the last version it loaded, newer than the chain's.    *)
Hosting == host.at # "idle" => host.new = loaded /\ chain < loaded

(* What the chain has counted, and what the new version is going to take up. *)
Counted ==
    /\ StateContinues
    /\ pending # 0 => host.at \in {"read", "written"}
    /\ host.at \in {"read", "written"} => host.state = entered - late - pending
    /\ host.at = "written" => count[host.new] = host.state

(* A build takes versions that are not newer than the last registration.    *)
Registered ==
    /\ plugins = latest
    /\ \A n \in RegistryNames : build.floor[n] <= latest[n]
    /\ Len(build.nodes) <= Len(Items)
    /\ build.at = "failed" => Len(build.nodes) < Len(Items)

StateInv == Hosting /\ Counted
BuildInv == Registered /\ BuiltFresh
IInv == HostTypeOK /\ StateInv /\ BuildInv

-----------------------------------------------------------------------------
LEMMA Numbers ==
    HostTypeOK => /\ loaded \in Nat /\ chain \in Nat /\ chain \in Versions /\ loaded \in Versions
                  /\ entered \in Nat /\ late \in Nat /\ pending \in Nat
                  /\ host \in HostStates /\ 0 \in 0..loaded /\ 0 \in 0..entered
                  /\ count[chain] \in 0..entered
BY BoundsAssumption, SMTT(30) DEF HostTypeOK, Versions, HostStates

LEMMA IInvInit == HostInit => IInv
<1> SUFFICES ASSUME HostInit PROVE IInv
  OBVIOUS
<1> USE BoundsAssumption DEF HostInit, HostIdle, CallerIdle, Unregistered, Versions
<1>1. HostTypeOK
  BY DEF HostTypeOK
<1>2. Hosting /\ Counted
  BY DEF Hosting, Counted, StateContinues
<1>3. BuildInv
  BY DEF BuildInv, Registered, BuiltFresh
<1> QED BY <1>1, <1>2, <1>3 DEF IInv, StateInv

-----------------------------------------------------------------------------
(* The chain.  An execution counts on the version it entered.               *)
LEMMA EnterInv ==
    ASSUME HostTypeOK, StateInv, NEW c \in Callers, EnterVersion(c)
    PROVE  HostTypeOK' /\ StateInv'
<1> DEFINE v == caller[c].v
           risks == v = chain /\ host.at \in {"read", "written"}
<1> USE BoundsAssumption DEF Versions
<1>1. /\ v \in 0..chain /\ v \in Nat /\ entered < MaxEntered /\ entered' = entered + 1
      /\ count' = [count EXCEPT ![v] = @ + 1]
      /\ late' = (IF v # chain THEN late + 1 ELSE late)
      /\ pending' = (IF risks THEN pending + 1 ELSE pending)
      /\ caller' = [caller EXCEPT ![c] =
                       IF caller[c].at = "clone" THEN CallerIdle ELSE [at |-> "held", v |-> v]]
      /\ UNCHANGED <<loaded, host, chain, registryVars, build>>
  BY DEF EnterVersion, HostTypeOK
<1>2. entered \in Nat /\ late \in Nat /\ pending \in Nat /\ chain \in Nat /\ loaded \in Nat
  BY Numbers
<1>3. HostTypeOK'
  <2>1. caller' \in [Callers -> [at : {"idle", "clone", "guard", "held"}, v : 0..chain]]
    BY <1>1 DEF HostTypeOK, CallerIdle
  <2>2. count' \in [Versions -> 0..entered']
    <3>1. 0..entered \subseteq 0..entered' /\ \A n \in 0..entered : n + 1 \in 0..entered'
      BY <1>1, <1>2, SMTT(30)
    <3> QED BY <1>1, <3>1 DEF HostTypeOK
  <2>3. host' \in HostStates'
    BY <1>1, <1>2 DEF HostTypeOK, HostStates
  <2>4. entered' \in 0..MaxEntered /\ late' \in 0..entered' /\ pending' \in 0..entered'
    BY <1>1 DEF HostTypeOK
  <2>5. /\ loaded' \in Versions /\ chain' \in 1..loaded'
        /\ plugins' \in [RegistryNames -> 0..loaded'] /\ latest' \in [RegistryNames -> 0..loaded']
        /\ build' \in [at : {"none", "running", "built", "failed"},
                       nodes : Seq(Versions), floor : [RegistryNames -> 0..loaded']]
    BY <1>1 DEF HostTypeOK, registryVars
  <2>6. UNCHANGED <<chain, loaded>>
    BY <1>1
  <2> QED BY <2>1, <2>2, <2>3, <2>4, <2>5, <2>6 DEF HostTypeOK, HostStates
<1>4. Hosting'
  BY <1>1 DEF StateInv, Hosting
<1>5. Counted'
  <2>1. count'[chain] = IF v = chain THEN count[chain] + 1 ELSE count[chain]
    BY <1>1 DEF HostTypeOK
  <2>2. host.at = "written" => count'[host.new] = count[host.new]
    BY <1>1 DEF HostTypeOK, StateInv, Hosting
  <2>3. StateContinues'
    <3>1. count[chain] = entered - late
      BY DEF StateInv, Counted, StateContinues
    <3> QED BY <1>1, <1>2, <2>1, <3>1 DEF StateContinues
  <2>4. pending' # 0 => host'.at \in {"read", "written"}
    BY <1>1 DEF StateInv, Counted
  <2>5. ASSUME host.at \in {"read", "written"}
        PROVE  entered' - late' - pending' = entered - late - pending
    <3>1. CASE v = chain
      BY <1>1, <1>2, <2>5, <3>1
    <3>2. CASE v # chain
      BY <1>1, <1>2, <2>5, <3>2
    <3> QED BY <3>1, <3>2
  <2> QED BY <1>1, <2>2, <2>3, <2>4, <2>5 DEF StateInv, Counted
<1> QED BY <1>3, <1>4, <1>5 DEF StateInv

(* Taking the chain and letting it go.                                      *)
LEMMA CallerInv ==
    ASSUME HostTypeOK, StateInv, NEW c \in Callers,
           Take(c, "clone") \/ Take(c, "guard") \/ Release(c)
    PROVE  HostTypeOK' /\ StateInv'
<1>1. UNCHANGED <<loaded, host, chain, count, entered, pending, late, registryVars, build>>
  BY DEF Take, Release
<1>2. caller' \in [Callers -> [at : {"idle", "clone", "guard", "held"}, v : 0..chain]]
  <2>1. /\ [at |-> "clone", v |-> chain] \in [at : {"idle", "clone", "guard", "held"}, v : 0..chain]
        /\ [at |-> "guard", v |-> chain] \in [at : {"idle", "clone", "guard", "held"}, v : 0..chain]
        /\ CallerIdle \in [at : {"idle", "clone", "guard", "held"}, v : 0..chain]
    BY Numbers DEF CallerIdle
  <2> QED BY <2>1 DEF Take, Release, HostTypeOK
<1>3. HostTypeOK'
  BY <1>1, <1>2 DEF HostTypeOK, registryVars
<1>4. StateInv'
  BY <1>1 DEF StateInv, Hosting, Counted, StateContinues
<1> QED BY <1>3, <1>4

(* Publish makes the new version, with the state it was given, the chain's; *)
(* what has been added to the old one since is late.                        *)
LEMMA PublishInv ==
    ASSUME HostTypeOK, StateInv, Publish
    PROVE  HostTypeOK' /\ StateInv'
<1>1. /\ host.at = "written" /\ chain' = host.new /\ host' = HostIdle
      /\ late' = late + pending /\ pending' = 0
      /\ UNCHANGED <<loaded, caller, count, entered, registryVars, build>>
      /\ host.new = loaded /\ chain < loaded
  BY DEF Publish, StateInv, Hosting
<1>2. /\ host.state \in 0..entered /\ host.state = entered - late - pending
      /\ count[host.new] = host.state
  BY <1>1 DEF StateInv, Counted, HostTypeOK
<1>3. late' \in 0..entered' /\ chain' \in 1..loaded' /\ 0..chain \subseteq 0..chain'
  BY <1>1, <1>2, Numbers DEF HostTypeOK, Versions
<1>4. /\ host' \in HostStates' /\ pending' \in 0..entered'
      /\ caller' \in [Callers -> [at : {"idle", "clone", "guard", "held"}, v : 0..chain']]
  <2>1. caller \in [Callers -> [at : {"idle", "clone", "guard", "held"}, v : 0..chain']]
    BY <1>3 DEF HostTypeOK
  <2> QED BY <1>1, <2>1, Numbers DEF HostIdle, HostStates
<1>5. HostTypeOK'
  BY <1>1, <1>3, <1>4 DEF HostTypeOK, HostStates, registryVars
<1>6. StateInv'
  <2>1. StateContinues'
    BY <1>1, <1>2, Numbers DEF StateContinues
  <2> QED BY <1>1, <2>1 DEF StateInv, Hosting, Counted, HostIdle
<1> QED BY <1>5, <1>6

(* The other steps of the host.                                             *)
LEMMA HostInv ==
    ASSUME HostTypeOK, StateInv,
           LoadVersion \/ GetState \/ SetState \/ \E n \in RegistryNames : RegisterVersion(n)
    PROVE  HostTypeOK' /\ StateInv'
<1> USE BoundsAssumption DEF Versions
<1>1. UNCHANGED <<caller, chain, entered, late, build>>
  BY DEF LoadVersion, GetState, SetState, RegisterVersion, chainVars, registryVars
<1>2. HostIdle.at = "idle" /\ HostIdle \in HostStates
  BY Numbers DEF HostIdle, HostStates
<1>3. ASSUME host' = HostIdle, pending' = pending \/ pending' = 0, pending = 0 \/ pending' = 0,
             UNCHANGED <<loaded, count>>
      PROVE  StateInv' /\ host' \in HostStates' /\ pending' \in 0..entered'
  <2>1. pending' = 0
    BY <1>3
  <2>2. host' \in HostStates' /\ pending' \in 0..entered'
    BY <1>1, <1>2, <1>3, <2>1, Numbers DEF HostStates
  <2> QED BY <1>1, <1>2, <1>3, <2>1, <2>2 DEF StateInv, Hosting, Counted, StateContinues
<1>4. CASE LoadVersion
  <2>1. /\ host = HostIdle /\ loaded' = loaded + 1 /\ loaded < MaxVersion
        /\ host' = HostIdle \/ host' = [HostIdle EXCEPT !.at = "loaded", !.new = loaded + 1]
        /\ UNCHANGED <<count, pending, plugins, latest>>
    BY <1>4 DEF LoadVersion, chainVars, registryVars
  <2>2. host' \in HostStates' /\ host'.at \in {"idle", "loaded"} /\ (host'.at = "loaded" => host'.new = loaded')
    <3>1. loaded' \in Nat /\ entered' \in Nat
      BY <1>1, <2>1, Numbers
    <3>2. \/ host' = [at |-> "idle", new |-> 0, state |-> 0]
          \/ host' = [at |-> "loaded", new |-> loaded', state |-> 0]
      BY <2>1 DEF HostIdle
    <3> QED BY <3>1, <3>2 DEF HostStates
  <2>3. 0..loaded \subseteq 0..loaded' /\ loaded' \in Versions /\ chain \in 1..loaded'
    BY <2>1, SMTT(30) DEF HostTypeOK
  <2>4. build \in [at : {"none", "running", "built", "failed"},
                  nodes : Seq(Versions), floor : [RegistryNames -> 0..loaded']]
    BY <2>3 DEF HostTypeOK
  <2>5. HostTypeOK'
    BY <1>1, <2>1, <2>2, <2>3, <2>4 DEF HostTypeOK, HostStates
  <2>6. StateInv'
    <3>1. chain < loaded'
      BY <2>1, Numbers DEF HostTypeOK
    <3>2. pending = 0
      BY <1>2, <2>1 DEF StateInv, Counted
    <3> QED BY <1>1, <2>1, <2>2, <3>1, <3>2 DEF StateInv, Hosting, Counted, StateContinues
  <2> QED BY <2>5, <2>6
<1>5. CASE GetState
  <2>0. /\ host.at = "loaded" /\ host' \in {HostIdle, [host EXCEPT !.at = "read", !.state = count[chain]]}
        /\ UNCHANGED <<loaded, count, pending, plugins, latest>> /\ pending = 0
    BY <1>5 DEF GetState, StateInv, Counted, chainVars, registryVars
  <2>1. CASE host' = HostIdle
    BY <1>1, <1>3, <2>0, <2>1 DEF HostTypeOK, HostStates
  <2>2. CASE host' = [host EXCEPT !.at = "read", !.state = count[chain]]
    <3>1. /\ host'.at = "read" /\ host'.new = host.new /\ host'.state = count[chain]
          /\ host' \in HostStates
      BY <2>2, Numbers DEF HostStates
    <3>2. HostTypeOK'
      BY <1>1, <2>0, <3>1 DEF HostTypeOK, HostStates
    <3>3. StateInv'
      BY <1>1, <2>0, <3>1, Numbers DEF StateInv, Hosting, Counted, StateContinues
    <3> QED BY <3>2, <3>3
  <2> QED BY <2>0, <2>1, <2>2
<1>6. CASE SetState
  <2>1. /\ host.at = "read" /\ UNCHANGED <<loaded, plugins, latest>>
        /\ host.new = loaded /\ chain < loaded
    BY <1>6 DEF SetState, registryVars, StateInv, Hosting
  <2>2. CASE count' = [count EXCEPT ![host.new] = host.state] /\ UNCHANGED pending
             /\ host' = [host EXCEPT !.at = "written"]
    <3>1. /\ host'.at = "written" /\ host'.new = host.new /\ host'.state = host.state
          /\ host' \in HostStates /\ host.state \in 0..entered
      BY <2>2, Numbers DEF HostStates
    <3>2. count' \in [Versions -> 0..entered] /\ count'[loaded] = host.state
          /\ count'[chain] = count[chain]
      <4>1. loaded \in Versions /\ chain \in Versions /\ chain # loaded
        BY <2>1, Numbers
      <4> QED BY <2>1, <2>2, <3>1, <4>1 DEF HostTypeOK
    <3>3. HostTypeOK'
      BY <1>1, <2>1, <2>2, <3>1, <3>2 DEF HostTypeOK, HostStates
    <3>4. StateInv'
      BY <1>1, <2>1, <2>2, <3>1, <3>2 DEF StateInv, Hosting, Counted, StateContinues
    <3> QED BY <3>3, <3>4
  <2>3. CASE GiveUp
    BY <1>1, <1>3, <2>1, <2>3 DEF GiveUp, HostTypeOK, HostStates
  <2> QED BY <1>6, <2>2, <2>3 DEF SetState
<1>7. ASSUME NEW n \in RegistryNames, RegisterVersion(n) PROVE HostTypeOK' /\ StateInv'
  <2>1. /\ host.at = "loaded" /\ host.new \in 0..loaded /\ host' = HostIdle
        /\ plugins' = [plugins EXCEPT ![n] = host.new] /\ latest' = [latest EXCEPT ![n] = host.new]
        /\ UNCHANGED <<loaded, count, pending>> /\ pending = 0
    BY <1>7 DEF RegisterVersion, HostTypeOK, chainVars, StateInv, Counted
  <2>2. plugins' \in [RegistryNames -> 0..loaded] /\ latest' \in [RegistryNames -> 0..loaded]
    BY <2>1 DEF HostTypeOK
  <2> QED BY <1>1, <1>3, <2>1, <2>2 DEF HostTypeOK, HostStates
<1> QED BY <1>4, <1>5, <1>6, <1>7

-----------------------------------------------------------------------------
(* Builds: a node is taken from the registry as it is, and registrations    *)
(* only move a name to a later version.                                     *)
LEMMA BuildStep ==
    ASSUME HostTypeOK, BuildInv, BeginBuild \/ BuildItem \/ EndBuild
    PROVE  HostTypeOK' /\ BuildInv'
<1> USE BoundsAssumption DEF Versions, BuildInv, Registered
<1>1. /\ UNCHANGED <<loaded, host, chain, caller, count, entered, pending, late, plugins, latest>>
      /\ latest \in [RegistryNames -> 0..loaded] /\ loaded \in Nat
  <2>1. latest \in [RegistryNames -> 0..loaded] /\ loaded \in Nat
    BY DEF HostTypeOK
  <2> QED BY <2>1 DEF BeginBuild, BuildItem, EndBuild, chainVars, registryVars
<1>2. build' \in [at : {"none", "running", "built", "failed"},
                  nodes : Seq(Versions), floor : [RegistryNames -> 0..loaded]] => HostTypeOK'
  BY <1>1 DEF HostTypeOK
<1>3. CASE BeginBuild
  BY <1>1, <1>2, <1>3 DEF BeginBuild, BuiltFresh
<1>4. CASE BuildItem
  <2> DEFINE k == Len(build.nodes) + 1
             v == plugins[Items[k]]
  <2>1. k \in 1..Len(Items) /\ Items[k] \in RegistryNames /\ v = latest[Items[k]] /\ v \in 0..loaded
    <3>1. build.nodes \in Seq(Versions) /\ Len(build.nodes) < Len(Items)
      BY <1>4 DEF BuildItem, HostTypeOK
    <3>2. k \in 1..Len(Items) /\ Items[k] \in RegistryNames
      BY <3>1
    <3> QED BY <1>1, <3>2
  <2>0. build.at = "running" /\ build' = IF v = 0 THEN [build EXCEPT !.at = "failed"]
                                        ELSE [build EXCEPT !.nodes = Append(build.nodes, v)]
    BY <1>4 DEF BuildItem
  <2>2. CASE v = 0
    <3>1. /\ build'.at = "failed" /\ build'.nodes = build.nodes /\ build'.floor = build.floor
          /\ build' = [build EXCEPT !.at = "failed"]
      BY <1>4, <2>2 DEF BuildItem, HostTypeOK
    <3>2. build.floor[Items[k]] = 0
      BY <2>1, <2>2, SMTT(30) DEF HostTypeOK
    <3>3. build' \in [at : {"none", "running", "built", "failed"},
                     nodes : Seq(Versions), floor : [RegistryNames -> 0..loaded]]
      BY <3>1 DEF HostTypeOK
    <3>4. Len(build.nodes) < Len(Items)
      BY <1>4 DEF BuildItem
    <3>5. Registered' /\ BuiltFresh'
      BY <1>1, <3>1, <3>2, <3>4 DEF BuiltFresh
    <3> QED BY <1>2, <3>3, <3>5
  <2>3. CASE v # 0
    <3>1. build' = [build EXCEPT !.nodes = Append(build.nodes, v)] /\ v \in Versions
      <4>1. v \in Versions
        <5>1. loaded \in Nat /\ 1..loaded \subseteq Versions
          BY DEF HostTypeOK
        <5>2. \A x \in 0..loaded : x # 0 => x \in 1..loaded
          BY <5>1
        <5> QED BY <2>1, <2>3, <5>1, <5>2
      <4> QED BY <2>0, <2>3, <4>1
    <3>2. build'.nodes = Append(build.nodes, v) /\ build'.floor = build.floor /\ build'.at = "running"
      BY <2>0, <3>1 DEF HostTypeOK
    <3>3. build' \in [at : {"none", "running", "built", "failed"},
                     nodes : Seq(Versions), floor : [RegistryNames -> 0..loaded]]
      <4>1. Append(build.nodes, v) \in Seq(Versions)
        BY <3>1 DEF HostTypeOK
      <4> QED BY <3>1, <4>1 DEF HostTypeOK
    <3>4. Registered'
      BY <1>1, <2>1, <3>1, <3>2 DEF HostTypeOK
    <3>5. BuiltFresh'
      <4>1. \A i \in 1..(k - 1) : build'.nodes[i] = build.nodes[i]
        BY <3>1, <3>2 DEF HostTypeOK
      <4>2. DOMAIN build'.nodes = 1..k /\ DOMAIN build.nodes = 1..(k - 1) /\ build'.nodes[k] = v
        BY <3>1, <3>2 DEF HostTypeOK
      <4>3. build.floor[Items[k]] <= v
        BY <2>1
      <4>4. ASSUME NEW i \in 1..k
            PROVE  /\ build.floor[Items[i]] <= build'.nodes[i] /\ build'.nodes[i] <= latest[Items[i]]
                   /\ \A j \in 1..i : Items[j] = Items[i] => build'.nodes[j] <= build'.nodes[i]
        <5>1. CASE i = k
          <6>1. ASSUME NEW j \in 1..k, Items[j] = Items[k] PROVE build'.nodes[j] <= v
            BY <2>1, <4>1, <4>2, <6>1, SMTT(30) DEF BuiltFresh
          <6> QED BY <2>1, <4>2, <4>3, <5>1, <6>1
        <5>2. CASE i # k
          <6>1. i \in DOMAIN build.nodes /\ build'.nodes[i] = build.nodes[i]
            BY <2>1, <4>1, <4>2, <5>2
          <6>2. /\ build.floor[Items[i]] <= build.nodes[i] /\ build.nodes[i] <= latest[Items[i]]
                /\ \A j \in 1..i : Items[j] = Items[i] => build.nodes[j] <= build.nodes[i]
            BY <6>1 DEF BuiltFresh
          <6>3. \A j \in 1..i : build'.nodes[j] = build.nodes[j]
            BY <2>1, <4>1, <5>2
          <6> QED BY <6>1, <6>2, <6>3
        <5> QED BY <5>1, <5>2
      <4> QED BY <1>1, <3>2, <4>2, <4>4 DEF BuiltFresh
    <3> QED BY <1>2, <3>3, <3>4, <3>5
  <2> QED BY <2>2, <2>3
<1>5. CASE EndBuild
  <2>1. /\ build' = [build EXCEPT !.at = "built"] /\ build'.at = "built"
        /\ build'.nodes = build.nodes /\ build'.floor = build.floor
    BY <1>5 DEF EndBuild, HostTypeOK
  <2> QED BY <1>1, <1>2, <2>1 DEF HostTypeOK, BuiltFresh
<1> QED BY <1>3, <1>4, <1>5

LEMMA RegisterStep ==
    ASSUME HostTypeOK, StateInv, BuildInv, NEW n \in RegistryNames, RegisterVersion(n)
    PROVE  BuildInv'
<1> USE BoundsAssumption DEF Versions
<1>1. /\ latest' = [latest EXCEPT ![n] = loaded] /\ plugins' = [plugins EXCEPT ![n] = loaded]
      /\ UNCHANGED <<loaded, build>> /\ loaded \in Nat
  BY Numbers DEF RegisterVersion, StateInv, Hosting
<1>2. \A m \in RegistryNames : latest[m] <= latest'[m] /\ latest[m] \in Nat /\ latest'[m] \in Nat
  BY <1>1 DEF HostTypeOK
<1>3. Registered'
  BY <1>1, <1>2 DEF BuildInv, Registered, HostTypeOK
<1>4. \A i \in DOMAIN build.nodes : Items[i] \in RegistryNames /\ build.nodes[i] \in Nat
  <2>1. build.nodes \in Seq(Versions) /\ Len(build.nodes) <= Len(Items)
    BY DEF BuildInv, Registered, HostTypeOK
  <2> QED BY <2>1
<1>5. BuiltFresh'
  BY <1>1, <1>2, <1>4 DEF BuildInv, BuiltFresh
<1> QED BY <1>3, <1>5 DEF BuildInv

-----------------------------------------------------------------------------
LEMMA IInvStep == IInv /\ [HostNext]_hostVars => IInv'
<1> SUFFICES ASSUME IInv, [HostNext]_hostVars PROVE IInv'
  OBVIOUS
<1>1. ASSUME UNCHANGED <<registryVars, build>> PROVE BuildInv'
  BY <1>1 DEF IInv, BuildInv, Registered, BuiltFresh, registryVars
<1>2. ASSUME UNCHANGED <<loaded, host, chainVars>> PROVE StateInv'
  BY <1>2 DEF IInv, StateInv, Hosting, Counted, StateContinues, chainVars
<1>3. CASE LoadVersion \/ GetState \/ SetState
  BY <1>1, <1>3, HostInv DEF IInv, LoadVersion, GetState, SetState
<1>4. CASE Publish
  BY <1>1, <1>4, PublishInv DEF IInv, Publish
<1>5. ASSUME NEW n \in RegistryNames, RegisterVersion(n) PROVE IInv'
  BY <1>5, HostInv, RegisterStep DEF IInv
<1>6. ASSUME NEW c \in Callers, Take(c, "clone") \/ Take(c, "guard") \/ Release(c) PROVE IInv'
  BY <1>1, <1>6, CallerInv DEF IInv, Take, Release
<1>7. ASSUME NEW c \in Callers, EnterVersion(c) PROVE IInv'
  BY <1>1, <1>7, EnterInv DEF IInv, EnterVersion
<1>8. CASE BeginBuild \/ BuildItem \/ EndBuild
  BY <1>2, <1>8, BuildStep DEF IInv, BeginBuild, BuildItem, EndBuild
<1>9. CASE UNCHANGED hostVars
  BY <1>1, <1>2, <1>9 DEF hostVars, IInv, HostTypeOK, chainVars, registryVars
<1> QED BY <1>3, <1>4, <1>5, <1>6, <1>7, <1>8, <1>9 DEF HostNext

LEMMA IInvAlways == HostSpec => []IInv
BY IInvInit, IInvStep, PTL DEF HostSpec

(* The state keeps its shape, for any callers and versions.                 *)
THEOREM TypeCorrect == HostSpec => []HostTypeOK
BY IInvAlways, PTL DEF IInv

(* The state goes on across upgrades although no lock is held while it is   *)
(* moved: the chain has counted every execution once, however executions on *)
(* clones and guards and upgrades, given up or not, overlap, except those   *)
(* that entered a version after its state was read.                         *)
THEOREM StateGoesOn == HostSpec => []StateContinues
BY IInvAlways, PTL DEF IInv, StateInv, Counted

(* A build overlapped by registrations gets plugins between what was        *)
(* registered when it began and what is now, in order, for every            *)
(* configuration.                                                           *)
THEOREM BuildsAreFresh == HostSpec => []BuiltFresh
BY IInvAlways, PTL DEF IInv, BuildInv
=============================================================================
