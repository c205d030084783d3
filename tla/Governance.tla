----------------------------- MODULE Governance -----------------------------
(***************************************************************************)
(* The two stateful governance nodes in one chain: the request counter     *)
(* (src/metrics.rs, OpaqueMetrics in src/opaque_gov.rs) and the            *)
(* fixed-window rate limiter (src/rate_limit.rs, OpaqueRateLimiter).       *)
(* Every caller runs the chain through the same nodes at once.  The        *)
(* limiter decides under its mutex; the counters are two atomics that      *)
(* enter, exit, errors and reset each access one at a time.                *)
(*                                                                         *)
(* A chain with a "gate" is that of a tower service which limits the calls *)
(* in flight: the ConcurrencyLimiter node of s02_concurrency_limit.rs, or, *)
(* as the first node, the check of s05_load_shed.rs before the chain       *)
(* (both in labs/scales/medium/src/bin).  The service goes on after exec:  *)
(* it awaits the inner service and gives its slot back.                    *)
(***************************************************************************)
EXTENDS Integers, Sequences, FiniteSets, Functions

CONSTANTS
    Callers,   \* threads that execute the chain
    Chains,    \* the chains to consider, sequences of "metrics", "limit", "gate"
    Limit,     \* RateLimiter.limit
    Window,    \* RateLimiter.window, in ticks
    Quotas,    \* the values max (shed_threshold) is set to
    MaxCalls,  \* bound of the model: executions counted between resets
    None

ASSUME SettingsAssumption ==
    Limit \in Nat /\ Window \in Nat /\ MaxCalls \in Nat /\ Quotas \subseteq Nat

ASSUME CallersAssumption == IsFiniteSet(Callers)

(* One counter, one limiter and one gate: a chain has each at most once.  No *)
(* limiter stands before a gate: the service gives a slot back for every    *)
(* error of exec, so an error of a node before the gate would give back a   *)
(* slot nobody took.                                                        *)
ASSUME ChainsAssumption == \A ch \in Chains :
    /\ ch \in Seq({"metrics", "limit", "gate"}) /\ ch # <<>>
    /\ \A i, j \in DOMAIN ch : ch[i] = ch[j] => i = j
    /\ \A i, j \in DOMAIN ch : ch[i] = "limit" /\ ch[j] = "gate" => j < i

VARIABLES
    chain,      \* the nodes, fixed
    pc,         \* pc[c]: where caller c is in chain_exec_ctx
    calls,      \* Metrics.calls
    successes,  \* Metrics.successes
    seen,       \* the calls a running errors() has loaded, None if none runs
    resetting,  \* Metrics::reset is between its two stores
    age,        \* now - window_start, up to Window + 1
    count,      \* RateState.count
    inflight,   \* ConcurrencyLimiter.inflight, LoadState.inflight
    max,        \* ConcurrencyLimiter.max, LoadState.shed_threshold
    cur,        \* cur[c]: what fetch_add told caller c, plus 1
    metered,    \* history: callers past Metrics::enter that have not ended
    failed,     \* history: executions that were counted and then failed
    torn,       \* history: a reset of the metrics overlapped an execution
    recent,     \* history: recent[a] requests were admitted a ticks ago
    peak        \* history: the largest max since the gate was last empty

metricsVars == <<calls, successes, resetting, metered, failed, torn>>
limiterVars == <<age, count, recent>>
gateVars == <<inflight, max, cur, peak>>
vars == <<chain, pc, seen, metricsVars, limiterVars, gateVars>>

Idle == [at |-> "idle", idx |-> 0]
NoRecent == [a \in 0..Window |-> 0]

Init ==
    /\ chain \in Chains
    /\ pc = [c \in Callers |-> Idle]
    /\ calls = 0 /\ successes = 0 /\ seen = None /\ resetting = FALSE
    /\ age = 0 /\ count = 0
    /\ inflight = 0 /\ max \in Quotas /\ cur = [c \in Callers |-> 0] /\ peak = max
    /\ metered = {} /\ failed = 0 /\ torn = FALSE /\ recent = NoRecent

At(c, phase, kind) ==
    pc[c].at = phase /\ pc[c].idx \in DOMAIN chain /\ chain[pc[c].idx] = kind

-----------------------------------------------------------------------------
(* One execution of the chain *)

Begin(c) ==
    /\ pc[c] = Idle
    /\ calls + Cardinality({d \in Callers : pc[d] # Idle}) < MaxCalls
    /\ pc' = [pc EXCEPT ![c] = [at |-> "enter", idx |-> 1]]
    /\ UNCHANGED <<chain, seen, metricsVars, limiterVars, gateVars>>

(* Metrics::enter                                                           *)
EnterMetrics(c) ==
    /\ At(c, "enter", "metrics")
    /\ calls' = calls + 1
    /\ metered' = metered \cup {c}
    /\ torn' = (torn \/ resetting)
    /\ pc' = [pc EXCEPT ![c].idx = @ + 1]
    /\ UNCHANGED <<chain, seen, successes, resetting, failed, limiterVars, gateVars>>

(* Where exec returns to: a service with a gate has more to do.             *)
Serviced == "gate" \in Range(chain)
(* Mutant: a call the chain refuses does not give its slot back.            *)
ReturnedAtOnce(after) == IF Serviced /\ after = "inner" THEN [at |-> after, idx |-> 0] ELSE Idle

Returned(after) == IF Serviced THEN [at |-> after, idx |-> 0] ELSE Idle

(* The execution of c ends with an error: no exit runs.                     *)
Abort(c) ==
    /\ pc' = [pc EXCEPT ![c] = Returned("release")]
    /\ failed' = IF c \in metered THEN failed + 1 ELSE failed
    /\ metered' = metered \ {c}
    /\ UNCHANGED <<calls, successes, resetting, torn>>

(* RateLimiter::enter, under its mutex: roll the window, then decide.       *)
Rolls == age > Window
(* Mutants: rolling the window does not move its start; the limit is tested *)
(* off by one.                                                              *)
StartKept == age
FullAbove == count > Limit

Count == IF Rolls THEN 0 ELSE count
Start == IF Rolls THEN 0 ELSE age
Full == Count >= Limit

EnterLimiter(c) ==
    /\ At(c, "enter", "limit")
    /\ age' = Start
    /\ \/ /\ Full
          /\ Abort(c)
          /\ count' = Count
          /\ UNCHANGED recent
       \/ /\ ~Full
          /\ count' = Count + 1
          /\ recent' = [recent EXCEPT ![0] = @ + 1]
          /\ pc' = [pc EXCEPT ![c].idx = @ + 1]
          /\ UNCHANGED metricsVars
    /\ UNCHANGED <<chain, seen, gateVars>>

(* Mutant of Core: the exits also run when the core failed.                 *)
CoreAlwaysExits(c) ==
    /\ pc[c].at = "enter" /\ pc[c].idx > Len(chain)
    /\ pc' = [pc EXCEPT ![c] = [at |-> "exit", idx |-> Len(chain)]]
    /\ \/ UNCHANGED metricsVars
       \/ /\ failed' = IF c \in metered THEN failed + 1 ELSE failed
          /\ metered' = metered \ {c}
          /\ UNCHANGED <<calls, successes, resetting, torn>>
    /\ UNCHANGED <<chain, seen, limiterVars, gateVars>>

(* The core succeeds, or fails or panics, which leaves the exits out; the   *)
(* one of a service with a gate does nothing.                               *)
Core(c) ==
    /\ pc[c].at = "enter" /\ pc[c].idx > Len(chain)
    /\ \/ pc' = [pc EXCEPT ![c] = [at |-> "exit", idx |-> Len(chain)]] /\ UNCHANGED metricsVars
       \/ ~Serviced /\ Abort(c)
    /\ UNCHANGED <<chain, seen, limiterVars, gateVars>>

Back(c) ==
    pc' = [pc EXCEPT ![c] =
              IF pc[c].idx = 1 THEN Returned("inner") ELSE [at |-> "exit", idx |-> @.idx - 1]]

(* Metrics::exit; the other nodes have no exit.                             *)
Exit(c) ==
    /\ \/ /\ At(c, "exit", "metrics")
          /\ successes' = successes + 1
          /\ metered' = metered \ {c}
          /\ torn' = (torn \/ resetting)
          /\ UNCHANGED <<calls, resetting, failed>>
       \/ (At(c, "exit", "limit") \/ At(c, "exit", "gate")) /\ UNCHANGED metricsVars
    /\ Back(c)
    /\ UNCHANGED <<chain, seen, limiterVars, gateVars>>

-----------------------------------------------------------------------------
(* A service with a gate *)

Past(c) == \E g \in DOMAIN chain : chain[g] = "gate" /\ pc[c].at = "enter" /\ pc[c].idx > g
Serving(c) == Serviced /\ (Past(c) \/ pc[c].at \in {"exit", "inner"})
Holding(c) == Serving(c) \/ pc[c].at \in {"judge", "release"}

(* Mutant of EnterGate: the old value is compared without the call itself.  *)
EnterGateOld(c) ==
    /\ At(c, "enter", "gate")
    /\ inflight' = inflight + 1
    /\ cur' = [cur EXCEPT ![c] = inflight]
    /\ pc' = [pc EXCEPT ![c].at = "judge"]
    /\ UNCHANGED <<chain, seen, metricsVars, limiterVars, max, peak>>

(* fetch_add, whose value decides.                                          *)
EnterGate(c) ==
    /\ At(c, "enter", "gate")
    /\ inflight' = inflight + 1
    /\ cur' = [cur EXCEPT ![c] = inflight + 1]
    /\ pc' = [pc EXCEPT ![c].at = "judge"]
    /\ UNCHANGED <<chain, seen, metricsVars, limiterVars, max, peak>>

(* max is loaded and compared; the count may have moved on since.           *)
Judge(c) ==
    /\ pc[c].at = "judge"
    /\ IF cur[c] > max
       THEN Abort(c)
       ELSE pc' = [pc EXCEPT ![c] = [at |-> "enter", idx |-> @.idx + 1]] /\ UNCHANGED metricsVars
    /\ UNCHANGED <<chain, seen, limiterVars, gateVars>>

(* The inner service answers or fails.                                      *)
Inner(c) ==
    /\ pc[c].at = "inner"
    /\ pc' = [pc EXCEPT ![c].at = "release"]
    /\ UNCHANGED <<chain, seen, metricsVars, limiterVars, gateVars>>

Peak(m) == IF m < peak /\ (\E c \in Callers : Serving(c)) THEN peak ELSE m

(* release, or fetch_sub.                                                   *)
Release(c) ==
    /\ pc[c].at = "release"
    /\ inflight' = inflight - 1
    /\ cur' = [cur EXCEPT ![c] = 0]
    /\ pc' = [pc EXCEPT ![c] = Idle]
    /\ peak' = Peak(max)
    /\ UNCHANGED <<chain, seen, metricsVars, limiterVars, max>>

(* set_max, or shed_threshold.store, at any time.                           *)
SetMax ==
    /\ Serviced
    /\ \E m \in Quotas : max' = m /\ peak' = Peak(m)
    /\ UNCHANGED <<chain, pc, seen, metricsVars, limiterVars, inflight, cur>>

-----------------------------------------------------------------------------
(* Management *)

(* Metrics::reset, first and second store.                                  *)
ResetCalls ==
    /\ ~resetting
    /\ resetting' = TRUE
    /\ calls' = 0
    /\ failed' = 0
    /\ torn' = (metered # {})
    /\ UNCHANGED <<chain, pc, seen, successes, metered, limiterVars, gateVars>>

ResetSuccesses ==
    /\ resetting
    /\ resetting' = FALSE
    /\ successes' = 0
    /\ UNCHANGED <<chain, pc, seen, calls, metered, failed, torn, limiterVars, gateVars>>

(* Metrics::errors, first and second load.                                  *)
LoadCalls ==
    /\ seen = None
    /\ seen' = calls
    /\ UNCHANGED <<chain, pc, metricsVars, limiterVars, gateVars>>

LoadSuccesses ==
    /\ seen # None
    /\ seen' = None
    /\ UNCHANGED <<chain, pc, metricsVars, limiterVars, gateVars>>

(* RateLimiter::reset opens a new window.                                   *)
ResetLimiter ==
    /\ age' = 0 /\ count' = 0 /\ recent' = NoRecent
    /\ UNCHANGED <<chain, pc, seen, metricsVars, gateVars>>

(* Time matters to a limiter only.                                          *)
Tick ==
    /\ "limit" \in Range(chain)
    /\ age' = IF age > Window THEN age ELSE age + 1
    /\ recent' = [a \in 0..Window |-> IF a = 0 THEN 0 ELSE recent[a - 1]]
    /\ UNCHANGED <<chain, pc, seen, metricsVars, gateVars, count>>

Next ==
    \/ \E c \in Callers : Begin(c) \/ EnterMetrics(c) \/ EnterLimiter(c) \/ Core(c) \/ Exit(c)
    \/ \E c \in Callers : EnterGate(c) \/ Judge(c) \/ Inner(c) \/ Release(c)
    \/ SetMax
    \/ ResetCalls \/ ResetSuccesses
    \/ LoadCalls \/ LoadSuccesses
    \/ ResetLimiter
    \/ Tick

Spec == Init /\ [][Next]_vars

-----------------------------------------------------------------------------
TypeOK ==
    /\ chain \in Chains
    /\ pc \in [Callers -> [at : {"idle", "enter", "judge", "exit", "inner", "release"},
                         idx : 0..(Len(chain) + 1)]]
    /\ {calls, successes, failed} \subseteq Nat
    /\ seen \in Nat \cup {None}
    /\ resetting \in BOOLEAN /\ torn \in BOOLEAN
    /\ age \in 0..(Window + 1) /\ count \in 0..Limit
    /\ inflight \in Nat /\ {max, peak} \subseteq Quotas /\ cur \in [Callers -> Nat]
    /\ metered \subseteq Callers
    /\ recent \in [0..Window -> 0..Limit]

(* The requests the limiter has let through in the last window, each named  *)
(* by its age and a number.                                                 *)
Admissions == UNION {{a} \X (1..recent[a]) : a \in 0..Window}
Admitted == Cardinality(Admissions)

(* The limiter lets at most twice its limit through in any stretch of time  *)
(* as long as its window, wherever the stretch lies across the fixed        *)
(* windows (a manual reset starts the promise anew).                        *)
SlidingBound == Admitted <= 2 * Limit

(* Every counted execution is a success, a failure or still running, wherever *)
(* the counter sits in the chain and however executions overlap; a reset is   *)
(* only sound when it overlaps none of them.                                  *)
Accounted == ~resetting /\ ~torn => calls = successes + failed + Cardinality(metered)

(* The count of calls in flight is exact, to the step: it covers the calls  *)
(* past their fetch_add until their own fetch_sub, on the paths of a refused *)
(* and of a served call alike.  A slot leaked or given back twice would     *)
(* shift the limit for ever.                                                *)
CountExact == inflight = Cardinality({c \in Callers : Holding(c)})

(* No more calls are served at once than some limit that was in force since *)
(* the gate was last empty, although each call compares a count that is     *)
(* stale by then with a limit that may be set in between.                   *)
LimitHonoured == Cardinality({c \in Callers : Serving(c)}) <= peak

(* What the source says (metrics.rs:1, "errors = calls - successes"): the   *)
(* subtraction of errors() yields a count, never less than zero.            *)
ErrorsNotNegative == [][seen # None /\ seen' = None => seen - successes >= 0]_vars
=============================================================================
