---------------------------- MODULE MCParallel ----------------------------
(* Parallel on a batch of three inputs, so that an error can be followed    *)
(* by both a joined and an unjoined thread.                                 *)
EXTENDS Parallel
MCBoth == {"chain", "opaque"}
MCChain == {"chain"}
=============================================================================
