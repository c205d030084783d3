--------------------------- MODULE BreakerProofs ---------------------------
(***************************************************************************)
(* Proofs about Breaker for every number of callers, threshold and         *)
(* cooldown.  Each call in flight can add one failure, and none is         *)
(* admitted while the circuit is open: failures plus calls in flight never *)
(* exceed what a closed circuit with every caller in flight starts with.   *)
(***************************************************************************)
EXTENDS Breaker, FiniteSetTheorems, TLAPS

(* Each call in flight may still add one failure.                           *)
Budget == failures + Cardinality(running) <= Limit - 1 + Cardinality(Callers)

(* The time left and the time since the circuit opened add up.              *)
Clock == sinceTrip = IF open = Closed THEN Cooldown ELSE Cooldown - open

IInv == CircuitTypeOK /\ ClosedBelowThreshold /\ Budget /\ Clock

LEMMA LimitType == Limit \in Nat \ {0} /\ \A n \in Nat : n + 1 < Threshold => n + 1 < Limit
BY SettingsAssumption DEF Limit

(* The number of calls in flight, and what one call more or less makes it.  *)
LEMMA InFlight ==
    ASSUME running \subseteq Callers
    PROVE  /\ IsFiniteSet(running)
           /\ Cardinality(running) \in Nat /\ Cardinality(Callers) \in Nat
           /\ Cardinality(running) <= Cardinality(Callers)
           /\ \A c \in Callers :
                 /\ c \notin running =>
                      /\ Cardinality(running \cup {c}) = Cardinality(running) + 1
                      /\ Cardinality(running \cup {c}) <= Cardinality(Callers)
                 /\ c \in running => Cardinality(running \ {c}) = Cardinality(running) - 1
<1>1. IsFiniteSet(running) /\ IsFiniteSet(Callers)
      /\ Cardinality(running) <= Cardinality(Callers)
  BY FS_Subset, CallersAssumption
<1>2. \A c \in Callers : Cardinality(running \cup {c}) <= Cardinality(Callers)
  BY FS_Subset, CallersAssumption
<1> QED BY <1>1, <1>2, FS_CardinalityType, FS_AddElement, FS_RemoveElement

LEMMA IInvInit == CircuitInit => IInv
BY LimitType, InFlight, FS_EmptySet, SettingsAssumption
   DEF CircuitInit, IInv, CircuitTypeOK, ClosedBelowThreshold, Budget, Clock

LEMMA IInvStep == IInv /\ [CircuitNext]_circuitVars => IInv'
<1> SUFFICES ASSUME IInv, [CircuitNext]_circuitVars PROVE IInv'
  OBVIOUS
<1> USE LimitType, InFlight, SettingsAssumption
    DEF IInv, CircuitTypeOK, ClosedBelowThreshold, Budget, Clock
<1>1. ASSUME NEW c \in Callers, Admit(c) PROVE IInv'
  BY <1>1 DEF Admit
<1>2. ASSUME NEW c \in Callers, HalfOpen(c) PROVE IInv'
  BY <1>2 DEF HalfOpen
<1>3. ASSUME NEW c \in Callers, CallSucceeds(c) PROVE IInv'
  BY <1>3 DEF CallSucceeds, ProbeAfter
<1>4. ASSUME NEW c \in Callers, CallFails(c) PROVE IInv'
  <2>1. /\ failures' = failures + 1 /\ running' = running \ {c} /\ c \in running
        /\ probe' \in Callers \cup {NoProbe}
    BY <1>4 DEF CallFails, ProbeAfter
  <2>2. Budget'
    BY <2>1
  <2>3. CASE failures + 1 >= Threshold
    <3>1. open' = Cooldown /\ sinceTrip' = 0
      BY <1>4, <2>1, <2>3 DEF CallFails
    <3> QED BY <2>1, <2>2, <3>1
  <2>4. CASE failures + 1 < Threshold
    <3>1. open' = open /\ sinceTrip' = sinceTrip
      BY <1>4, <2>1, <2>4 DEF CallFails
    <3>2. failures + 1 < Limit
      BY <2>4, LimitType
    <3>3. CircuitTypeOK' /\ ClosedBelowThreshold'
      BY <2>1, <3>1, <3>2
    <3>4. Clock'
      BY <3>1
    <3> QED BY <2>2, <3>3, <3>4
  <2> QED BY <2>3, <2>4
<1>5. ASSUME NEW c \in Callers, CallPanics(c) PROVE IInv'
  BY <1>5 DEF CallPanics, ProbeAfter
<1>6. CASE Reset
  BY <1>6 DEF Reset
<1>7. CASE Tick
  BY <1>7 DEF Tick
<1>8. CASE UNCHANGED circuitVars
  BY <1>8 DEF circuitVars
<1> QED BY <1>1, <1>2, <1>3, <1>4, <1>5, <1>6, <1>7, <1>8 DEF CircuitNext

LEMMA IInvAlways == CircuitSpec => []IInv
BY IInvInit, IInvStep, PTL DEF CircuitSpec

(* The state keeps its shape, for every threshold and cooldown.             *)
THEOREM TypeCorrect == CircuitSpec => []CircuitTypeOK
BY IInvAlways, PTL DEF IInv

(* A closed circuit is below its threshold.                                 *)
THEOREM ClosedMeansHealthy == CircuitSpec => []ClosedBelowThreshold
BY IInvAlways, PTL DEF IInv

(* The failure counter never exceeds the threshold by as many as callers.   *)
THEOREM FailuresNeverRunAway == CircuitSpec => []FailuresBounded
<1>1. IInv => FailuresBounded
  BY InFlight, LimitType DEF IInv, CircuitTypeOK, Budget, FailuresBounded
<1> QED BY <1>1, IInvAlways, PTL

(* No admission before the cooldown is over.                                *)
THEOREM CooldownIsHonoured == CircuitSpec => CooldownHonoured
<1>1. IInv /\ [CircuitNext]_circuitVars => [running' \ running # {} => sinceTrip = Cooldown]_circuitVars
  <2> SUFFICES ASSUME IInv, CircuitNext, running' \ running # {} PROVE sinceTrip = Cooldown
    OBVIOUS
  <2>1. \E c \in Callers : Admit(c) \/ HalfOpen(c)
    BY DEF CircuitNext, CallSucceeds, CallFails, CallPanics, Reset, Tick
  <2> QED BY <2>1, SettingsAssumption DEF Admit, HalfOpen, IInv, CircuitTypeOK, Clock
<1> QED BY <1>1, IInvAlways, PTL DEF CircuitSpec, CooldownHonoured
=============================================================================
