--------------------------- MODULE MCGovernance ---------------------------
(* Governance with the counter before and after the limiter, before and     *)
(* after the gate of a service, and alone.                                  *)
EXTENDS Governance, TLC

CONSTANTS c1, c2

MCCallers == {c1, c2}
MCQuotas == {1, 2}
MCChains == {<<"metrics", "limit">>, <<"limit", "metrics">>,
             <<"metrics", "gate">>, <<"gate", "metrics">>}
MCMetricsOnly == {<<"metrics">>}
Symmetry == Permutations(MCCallers)
=============================================================================
