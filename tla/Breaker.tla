------------------------------ MODULE Breaker ------------------------------
(***************************************************************************)
(* The circuit breaker (src/circuit_breaker.rs).  call and call_opaque     *)
(* take the state mutex twice: to decide admission, and, after the chain   *)
(* has run without the mutex, to account for its result.  Any number of    *)
(* calls are between the two at once, and the circuit may have opened,     *)
(* cooled down or been reset meanwhile.                                    *)
(*                                                                         *)
(* Instants are modelled by what the code asks of them: open is the time   *)
(* left until open_until, so now < until reads open > 0.                   *)
(*                                                                         *)
(* The names every specification has carry a prefix here, so that a module *)
(* can speak of this one, of Onion and of Parallel together.               *)
(***************************************************************************)
EXTENDS Naturals, FiniteSets

CONSTANTS
    Callers,    \* threads that share the breaker
    Threshold,  \* failures that open the circuit
    Cooldown,   \* ticks the circuit stays open
    Closed,     \* open_until = None
    NoProbe     \* no call is on probation

ASSUME CallersAssumption == IsFiniteSet(Callers) /\ NoProbe \notin Callers
ASSUME SettingsAssumption == Threshold \in Nat /\ Cooldown \in Nat /\ Closed \notin Nat

VARIABLES
    failures,  \* CircuitState.failures
    open,      \* CircuitState.open_until: Closed or the ticks left
    running,   \* callers between the two critical sections of call
    probe,     \* history: the call that found the cooldown over, till it ends
    sinceTrip  \* history: ticks since a failure last opened the circuit

circuitVars == <<failures, open, running, probe, sinceTrip>>

(* failures >= threshold is tested after the increment, so a threshold of 0 *)
(* acts as 1.                                                               *)
Limit == IF Threshold = 0 THEN 1 ELSE Threshold

CircuitInit ==
    /\ failures = 0
    /\ open = Closed
    /\ running = {}
    /\ probe = NoProbe
    /\ sinceTrip = Cooldown

(* Mutant of Admit: an open circuit is not looked at.                       *)
AdmitAlways(c) ==
    /\ c \notin running
    /\ running' = running \cup {c}
    /\ UNCHANGED <<failures, open, probe, sinceTrip>>

(* First critical section, circuit closed.                                  *)
Admit(c) ==
    /\ c \notin running
    /\ open = Closed
    /\ running' = running \cup {c}
    /\ UNCHANGED <<failures, open, probe, sinceTrip>>

(* Mutant of HalfOpen: the failure count survives the cooldown.             *)
HalfOpenKeepsFailures(c) ==
    /\ c \notin running
    /\ open = 0
    /\ open' = Closed
    /\ running' = running \cup {c}
    /\ probe' = c
    /\ UNCHANGED <<failures, sinceTrip>>

(* First critical section, cooldown over: the circuit is cleared and the    *)
(* call goes on.  (While open > 0 the call is rejected and changes nothing.) *)
HalfOpen(c) ==
    /\ c \notin running
    /\ open = 0
    /\ open' = Closed
    /\ failures' = 0
    /\ running' = running \cup {c}
    /\ probe' = c
    /\ UNCHANGED sinceTrip

ProbeAfter(c) == IF probe = c THEN NoProbe ELSE probe

(* Mutant of CallSucceeds: any success closes the circuit.                  *)
SucceedCloses(c) ==
    /\ c \in running
    /\ failures' = 0
    /\ open' = Closed
    /\ running' = running \ {c}
    /\ probe' = ProbeAfter(c)
    /\ UNCHANGED sinceTrip

(* Second critical section, the chain answered Ok.                          *)
CallSucceeds(c) ==
    /\ c \in running
    /\ failures' = 0
    /\ running' = running \ {c}
    /\ probe' = ProbeAfter(c)
    /\ UNCHANGED <<open, sinceTrip>>

(* Mutant of CallFails: the circuit opens one failure late.                 *)
FailLate(c) ==
    /\ c \in running
    /\ failures' = failures + 1
    /\ IF failures' > Threshold
       THEN open' = Cooldown /\ sinceTrip' = 0
       ELSE UNCHANGED <<open, sinceTrip>>
    /\ running' = running \ {c}
    /\ probe' = ProbeAfter(c)

(* Second critical section, the chain answered Err.                         *)
CallFails(c) ==
    /\ c \in running
    /\ failures' = failures + 1
    /\ IF failures' >= Threshold
       THEN open' = Cooldown /\ sinceTrip' = 0
       ELSE UNCHANGED <<open, sinceTrip>>
    /\ running' = running \ {c}
    /\ probe' = ProbeAfter(c)

(* The chain or the core panics: the unwinding skips the second section.    *)
CallPanics(c) ==
    /\ c \in running
    /\ running' = running \ {c}
    /\ probe' = ProbeAfter(c)
    /\ UNCHANGED <<failures, open, sinceTrip>>

(* The management operation.                                                *)
Reset ==
    /\ failures' = 0
    /\ open' = Closed
    /\ probe' = NoProbe
    /\ sinceTrip' = Cooldown
    /\ UNCHANGED running

(* Mutant of Tick: the remaining time is subtracted past zero.              *)
TickBelowZero ==
    /\ open # Closed
    /\ open' = open - 1
    /\ sinceTrip' = sinceTrip + 1
    /\ UNCHANGED <<failures, running, probe>>

(* The clock, while the circuit has time left.                              *)
Tick ==
    /\ open \in Nat \ {0}
    /\ open' = open - 1
    /\ sinceTrip' = sinceTrip + 1
    /\ UNCHANGED <<failures, running, probe>>

CircuitNext ==
    \/ \E c \in Callers : Admit(c) \/ HalfOpen(c)
    \/ \E c \in Callers : CallSucceeds(c) \/ CallFails(c) \/ CallPanics(c)
    \/ Reset
    \/ Tick

(* Time passes.  No caller is obliged to call, and no call to return.       *)
CircuitSpec == CircuitInit /\ [][CircuitNext]_circuitVars /\ WF_circuitVars(Tick)

-----------------------------------------------------------------------------
CircuitTypeOK ==
    /\ failures \in Nat
    /\ open \in {Closed} \cup 0..Cooldown
    /\ running \subseteq Callers
    /\ probe \in Callers \cup {NoProbe}
    /\ sinceTrip \in 0..Cooldown

(* A closed circuit has seen fewer failures than the threshold, whatever    *)
(* late results of earlier calls were accounted in between.                 *)
ClosedBelowThreshold == open = Closed => failures < Limit

(* The failure counter (a u32) cannot run away: results still arrive while  *)
(* the circuit is open, but only those of the calls already admitted.       *)
FailuresBounded == failures <= Limit - 1 + Cardinality(Callers)

(* No call is admitted before the full cooldown has passed since the last   *)
(* failure that opened the circuit, unless it was reset: neither a late     *)
(* success nor a panic closes it early, and a late failure starts it anew.  *)
CooldownHonoured == [][running' \ running # {} => sinceTrip = Cooldown]_circuitVars

(* An open circuit cools down: the late failures that start the cooldown    *)
(* anew run out, as no call is admitted meanwhile.                          *)
CoolsDown == (open # Closed /\ open # 0) ~> (open = Closed \/ open = 0)

(* What the source says of the half-open state: one probe is let through    *)
(* (circuit_breaker.rs:54), so nobody else is admitted until it ends.       *)
SingleProbe == [][probe # NoProbe /\ probe' = probe => running' \subseteq running]_circuitVars
=============================================================================
