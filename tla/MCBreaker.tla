----------------------------- MODULE MCBreaker -----------------------------
(* Breaker with four concurrent callers, more than the threshold.   *)
EXTENDS Breaker

CONSTANTS c1, c2, c3, c4, Nobody, None

MCCallers == {c1, c2, c3, c4}
=============================================================================
