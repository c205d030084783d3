----------------------------- MODULE MCHotSwap -----------------------------
(* HotSwap on a small instance: the shared chain and one clone of it.       *)
EXTENDS HotSwap, TLC

CONSTANTS m, c, s1, s2, s3, r1, r2, w1, w2, l1, l2, n1

(* One more snapshot than chains: a writer holds two while it swaps.        *)
MCHandles == {m, c}
MCSnaps == {s1, s2, s3}
MCReaders == {r1, r2}
MCWriters == {w1, w2}
MCLibs == {l1, l2}
MCNames == {n1}

Symmetry == Permutations(MCSnaps) \cup Permutations(MCReaders) \cup Permutations(MCLibs) \cup Permutations(MCWriters)
============================================================================
