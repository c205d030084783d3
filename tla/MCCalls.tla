------------------------------ MODULE MCCalls ------------------------------
(* Three ways to call a chain side by side: one call (Onion), a batch of    *)
(* calls (Parallel) and calls through a circuit breaker (Breaker).  They    *)
(* share no state, so each behaviour moves one of the three and the others  *)
(* rest: a call and a batch where they have ended, a circuit where it       *)
(* starts.  The chain has two nodes, so that its order shows.               *)
EXTENDS Onion, MCParallel, MCBreaker

CallOver ==
    /\ chan = "ctx" /\ op = "retry" /\ tries = 0
    /\ pc = "done" /\ idx = 1 /\ attempt = 0 /\ req = <<>> /\ work = <<>>
    /\ result = "halted" /\ cause = "none"

BatchOver ==
    /\ flavour = "opaque" /\ worker = [i \in Inputs |-> "ok"]
    /\ joined = Batch /\ results = [i \in Inputs |-> "ok"] /\ caller = "returned"

MCInit ==
    /\ CircuitInit
    /\ (Init /\ BatchOver) \/ (CallOver /\ BatchInit)

MCNext ==
    \/ Next /\ UNCHANGED <<batchVars, circuitVars>>
    \/ BatchNext /\ UNCHANGED <<vars, circuitVars>>
    \/ CallOver /\ BatchOver /\ CircuitNext /\ UNCHANGED <<vars, batchVars>>

(* The fairness of BatchSpec and of CircuitSpec.                            *)
MCSpec ==
    /\ MCInit /\ [][MCNext]_<<vars, batchVars, circuitVars>>
    /\ WF_batchVars(CallerStep) /\ \A i \in Inputs : WF_batchVars(Finish(i))
    /\ WF_circuitVars(Tick)
=============================================================================
