---------------------------- MODULE MCHotUpdate ----------------------------
(* Hot updates seen from two sides side by side: what chains, nodes and     *)
(* plugins own (HotSwap) and what a host does with the versions it loads    *)
(* (Upgrade).  They share no state, so each behaviour moves one of the two  *)
(* and the other rests where it starts.  The configuration uses one name    *)
(* twice.                                                                   *)
EXTENDS MCHotSwap, Upgrade

CONSTANTS c1, c2, a, b

MCCallers == {c1, c2}
MCRegistryNames == {a, b}
MCItems == <<a, b, a>>

MCInit == Init /\ HostInit

MCNext ==
    \/ HostInit /\ Next /\ UNCHANGED hostVars
    \/ Init /\ HostNext /\ UNCHANGED vars

MCSpec == MCInit /\ [][MCNext]_<<vars, hostVars>>
=============================================================================
