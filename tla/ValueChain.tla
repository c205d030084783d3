----------------------------- MODULE ValueChain -----------------------------
(***************************************************************************)
(* What a middleware chain promises (src/opaque.rs, "exec on a snapshot,   *)
(* no tearing").  A chain is a plain value: a sequence of nodes.  Cloning  *)
(* copies it, a change to one chain is invisible to every other, and an    *)
(* execution runs the value its chain had when it began: the enters in     *)
(* order up to the first that refuses, then the core, then every exit in   *)
(* reverse order.  No snapshots, no reference counts, no borrows.          *)
(***************************************************************************)
EXTENDS Naturals, Sequences, SequencesExt

CONSTANTS Handles, Readers, Libs, None, MaxLen

VARIABLES
    val,   \* val[h]: the sequence of nodes of chain h, None once dropped
    run    \* run[r]: where an execution is and the nodes it runs

vars == <<val, run>>

NotRunning == [pc |-> "idle", nodes |-> <<>>, idx |-> 0]

Init ==
    /\ \E h \in Handles : val = [g \in Handles |-> IF g = h THEN <<>> ELSE None]
    /\ run = [r \in Readers |-> NotRunning]

(* Clone, drop, add, set and remove: each touches one chain.                *)
Clone(h, g) == val[h] # None /\ val[g] = None /\ val' = [val EXCEPT ![g] = val[h]]
Drop(h) == val[h] # None /\ val' = [val EXCEPT ![h] = None]
Push(h, l) == val[h] # None /\ Len(val[h]) < MaxLen /\ val' = [val EXCEPT ![h] = Append(@, l)]
Put(h, i, l) == val[h] # None /\ i \in DOMAIN val[h] /\ val' = [val EXCEPT ![h][i] = l]
Take(h, i) == val[h] # None /\ i \in DOMAIN val[h] /\ val' = [val EXCEPT ![h] = RemoveAt(@, i)]

Change ==
    /\ \E h \in Handles :
          \/ \E g \in Handles : Clone(h, g)
          \/ Drop(h)
          \/ \E l \in Libs : Push(h, l)
          \/ \E i \in 1..MaxLen : Take(h, i) \/ \E l \in Libs : Put(h, i, l)
    /\ UNCHANGED run

Begin(r) ==
    /\ run[r].pc = "idle"
    /\ \E h \in Handles :
          /\ val[h] # None
          /\ run' = [run EXCEPT ![r] = [pc |-> "enter", nodes |-> val[h], idx |-> 1]]
    /\ UNCHANGED val

Advance(r) ==
    /\ run[r].pc # "idle"
    /\ \/ /\ run[r].pc = "enter" /\ run[r].idx <= Len(run[r].nodes)
          /\ run' = [run EXCEPT ![r].idx = @ + 1]
       \/ /\ run[r].pc = "enter"
          /\ run' = [run EXCEPT ![r] = NotRunning]
       \/ /\ run[r].pc = "enter" /\ run[r].idx > Len(run[r].nodes)
          /\ run' = [run EXCEPT ![r].pc = "exit", ![r].idx = Len(run[r].nodes)]
       \/ /\ run[r].pc = "exit" /\ run[r].idx > 0
          /\ run' = [run EXCEPT ![r].idx = @ - 1]
       \/ /\ run[r].pc = "exit" /\ run[r].idx = 0
          /\ run' = [run EXCEPT ![r] = NotRunning]
    /\ UNCHANGED val

Next == Change \/ \E r \in Readers : Begin(r) \/ Advance(r)

Spec == Init /\ [][Next]_vars
=============================================================================
