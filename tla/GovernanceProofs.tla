-------------------------- MODULE GovernanceProofs --------------------------
(***************************************************************************)
(* Proofs about Governance for any number of callers, any limit, window    *)
(* and quotas, and every chain with at most one node of each kind.         *)
(***************************************************************************)
EXTENDS Governance, FiniteSetTheorems, SequenceTheorems, TLAPS

(* Where a caller can be in the chain.                                      *)
Placed == \A c \in Callers :
    /\ pc[c].at = "enter" => pc[c].idx \in 1..(Len(chain) + 1)
    /\ pc[c].at = "judge" => At(c, "judge", "gate")
    /\ pc[c].at = "exit" => pc[c].idx \in DOMAIN chain
    /\ pc[c].at \in {"inner", "release"} => Serviced

(* The callers that have been counted and have not ended: those that have   *)
(* passed the enter of the counter and not its exit.                        *)
Counting(c) == \E m \in DOMAIN chain :
    /\ chain[m] = "metrics"
    /\ \/ pc[c].at \in {"enter", "judge"} /\ m < pc[c].idx
       \/ pc[c].at = "exit" /\ m <= pc[c].idx

Metering ==
    /\ metered = {c \in Callers : Counting(c)}
    /\ resetting /\ ~torn => metered = {} /\ calls = 0 /\ failed = 0
    /\ Accounted

(* What was let through since the window opened, and before.                *)
Current == {p \in Admissions : p[1] <= age}
Before == {p \in Admissions : p[1] > age}

Limiting ==
    /\ recent[0] <= count
    /\ Rolls => recent[0] = 0
    /\ Cardinality(Current) <= count
    /\ Cardinality(Before) <= Limit

(* Among any callers the gate has let in or may let in, the last to come    *)
(* was told a number that covers them all.                                  *)
Contenders == {c \in Callers : Serving(c) \/ pc[c].at = "judge"}
Ranked == \A T \in SUBSET Contenders : T # {} => \E c \in T : Cardinality(T) <= cur[c]

Gating ==
    /\ CountExact
    /\ max <= peak
    /\ \A c \in Callers : Serving(c) => cur[c] <= peak
    /\ Ranked

IInv == TypeOK /\ Placed /\ Metering /\ Limiting /\ Gating

-----------------------------------------------------------------------------
(* The chain's nodes, each kind at one place.                               *)
LEMMA TheChain ==
    ASSUME TypeOK
    PROVE  /\ Len(chain) \in Nat /\ Len(chain) >= 1 /\ DOMAIN chain = 1..Len(chain)
           /\ \A i \in DOMAIN chain : i \in Nat /\ chain[i] \in {"metrics", "limit", "gate"}
           /\ \A i, j \in DOMAIN chain : chain[i] = chain[j] => i = j
           /\ \A i, j \in DOMAIN chain : chain[i] = "limit" /\ chain[j] = "gate" => j < i
           /\ Serviced <=> \E g \in DOMAIN chain : chain[g] = "gate"
<1>1. chain \in Chains
  BY DEF TypeOK
<1>2. chain \in Seq({"metrics", "limit", "gate"}) /\ chain # <<>>
  BY <1>1, ChainsAssumption
<1>3. Serviced <=> \E g \in DOMAIN chain : chain[g] = "gate"
  BY DEF Serviced, Range
<1> QED BY <1>1, <1>2, <1>3, ChainsAssumption

(* Where a caller is, as far as TypeOK tells.                               *)
LEMMA ThePlace ==
    ASSUME TypeOK, NEW c \in Callers
    PROVE  /\ pc[c].at \in {"idle", "enter", "judge", "exit", "inner", "release"}
           /\ pc[c].idx \in 0..(Len(chain) + 1) /\ pc[c].idx \in Int
           /\ pc[c] = [at |-> pc[c].at, idx |-> pc[c].idx]
BY TheChain DEF TypeOK

(* Sets of callers are finite; what one more or one less makes of them.     *)
LEMMA CountCallers ==
    \A S \in SUBSET Callers :
        /\ IsFiniteSet(S) /\ Cardinality(S) \in Nat
        /\ \A c \in Callers \ S : Cardinality(S \cup {c}) = Cardinality(S) + 1
        /\ \A c \in S : Cardinality(S \ {c}) = Cardinality(S) - 1
        /\ \A T \in SUBSET S : Cardinality(T) <= Cardinality(S)
<1>1. \A S \in SUBSET Callers : IsFiniteSet(S)
  BY FS_Subset, CallersAssumption
<1>2. \A S \in SUBSET Callers : \A T \in SUBSET S : Cardinality(T) <= Cardinality(S)
  BY <1>1, FS_Subset
<1> QED BY <1>1, <1>2, FS_CardinalityType, FS_AddElement, FS_RemoveElement

(* Numbers, each with its type.                                             *)
LEMMA Numbers ==
    ASSUME TypeOK
    PROVE  /\ calls \in Nat /\ successes \in Nat /\ failed \in Nat
           /\ age \in Nat /\ count \in Nat /\ count <= Limit /\ inflight \in Nat
           /\ max \in Quotas /\ peak \in Quotas /\ max \in Nat /\ peak \in Nat
           /\ Limit \in Nat /\ Window \in Nat
<1>1. max \in Quotas /\ peak \in Quotas /\ Quotas \subseteq Nat
  BY SettingsAssumption DEF TypeOK
<1>2. /\ calls \in Nat /\ successes \in Nat /\ failed \in Nat
      /\ age \in 0..(Window + 1) /\ count \in 0..Limit /\ inflight \in Nat
  BY DEF TypeOK
<1> QED BY <1>1, <1>2, SettingsAssumption

-----------------------------------------------------------------------------
(* Steps: one caller moves, or none does.                                   *)
Moves(c) ==
    \/ Begin(c) \/ EnterMetrics(c) \/ EnterLimiter(c) \/ Core(c) \/ Exit(c)
    \/ EnterGate(c) \/ Judge(c) \/ Inner(c) \/ Release(c)
Manages ==
    SetMax \/ ResetCalls \/ ResetSuccesses \/ LoadCalls \/ LoadSuccesses \/ ResetLimiter \/ Tick

LEMMA Steps == [Next]_vars => (\E c \in Callers : Moves(c)) \/ Manages \/ UNCHANGED vars
BY DEF Next, Moves, Manages

(* The chain never changes, and only its own steps move a caller.           *)
LEMMA OneMoves ==
    ASSUME TypeOK, NEW c \in Callers, Moves(c)
    PROVE  /\ chain' = chain
           /\ pc' = [pc EXCEPT ![c] = pc'[c]]
           /\ \A d \in Callers \ {c} : pc'[d] = pc[d]
<1>1. chain' = chain
  BY DEF Moves, Begin, EnterMetrics, EnterLimiter, Core, Exit, EnterGate, Judge, Inner, Release
<1>2. \E x : pc' = [pc EXCEPT ![c] = x]
  <2>1. CASE Begin(c) \/ Release(c)
    BY <2>1 DEF Begin, Release
  <2>2. CASE EnterMetrics(c)
    BY <2>2 DEF EnterMetrics
  <2>3. CASE EnterLimiter(c)
    BY <2>3 DEF EnterLimiter, Abort
  <2>4. CASE Core(c)
    BY <2>4 DEF Core, Abort
  <2>5. CASE Exit(c)
    BY <2>5 DEF Exit, Back
  <2>6. CASE EnterGate(c) \/ Inner(c)
    BY <2>6 DEF EnterGate, Inner
  <2>7. CASE Judge(c)
    BY <2>7 DEF Judge, Abort
  <2> QED BY <2>1, <2>2, <2>3, <2>4, <2>5, <2>6, <2>7 DEF Moves
<1> QED BY <1>1, <1>2 DEF TypeOK

LEMMA NoneMoves ==
    ASSUME Manages \/ UNCHANGED vars
    PROVE  chain' = chain /\ pc' = pc
BY DEF Manages, SetMax, ResetCalls, ResetSuccesses, LoadCalls, LoadSuccesses, ResetLimiter, Tick, vars

(* The course of a caller: every step it can take, and where it takes it.    *)
Starts(c) ==
    Begin(c) /\ pc[c].at = "idle" /\ pc'[c] = [at |-> "enter", idx |-> 1]
Passes(c) ==
    /\ EnterMetrics(c) \/ (EnterLimiter(c) /\ UNCHANGED metricsVars)
    /\ EnterMetrics(c) => At(c, "enter", "metrics")
    /\ ~EnterMetrics(c) => At(c, "enter", "limit")
    /\ pc'[c] = [at |-> "enter", idx |-> pc[c].idx + 1]
Refused(c) ==
    EnterLimiter(c) /\ Abort(c) /\ At(c, "enter", "limit") /\ pc'[c] = Returned("release")
Turns(c) ==
    /\ Core(c) /\ UNCHANGED metricsVars
    /\ pc[c].at = "enter" /\ pc[c].idx = Len(chain) + 1
    /\ pc'[c] = [at |-> "exit", idx |-> Len(chain)]
Fails(c) ==
    /\ Core(c) /\ Abort(c) /\ ~Serviced
    /\ pc[c].at = "enter" /\ pc[c].idx = Len(chain) + 1 /\ pc'[c] = Idle
Leaves(c) ==
    /\ Exit(c) /\ pc[c].at = "exit" /\ pc[c].idx \in DOMAIN chain
    /\ chain[pc[c].idx] = "metrics" \/ UNCHANGED metricsVars
    /\ pc'[c] = IF pc[c].idx = 1 THEN Returned("inner")
                ELSE [at |-> "exit", idx |-> pc[c].idx - 1]
Asks(c) ==
    EnterGate(c) /\ At(c, "enter", "gate") /\ pc'[c] = [at |-> "judge", idx |-> pc[c].idx]
Allowed(c) ==
    /\ Judge(c) /\ cur[c] <= max /\ UNCHANGED metricsVars
    /\ At(c, "judge", "gate") /\ pc'[c] = [at |-> "enter", idx |-> pc[c].idx + 1]
Denied(c) ==
    Judge(c) /\ Abort(c) /\ At(c, "judge", "gate") /\ pc'[c] = Returned("release")
Answers(c) ==
    Inner(c) /\ pc[c].at = "inner" /\ pc'[c] = [at |-> "release", idx |-> pc[c].idx]
GivesBack(c) ==
    Release(c) /\ pc[c].at = "release" /\ pc'[c] = Idle

LEMMA Course ==
    ASSUME TypeOK, Placed, NEW c \in Callers, Moves(c)
    PROVE  \/ Starts(c) \/ Passes(c) \/ Refused(c) \/ Turns(c) \/ Fails(c) \/ Leaves(c)
           \/ Asks(c) \/ Allowed(c) \/ Denied(c) \/ Answers(c) \/ GivesBack(c)
<1>0. \A x : pc' = [pc EXCEPT ![c] = x] => pc'[c] = x
  BY DEF TypeOK
<1>a. pc[c] \in [at : {"idle", "enter", "judge", "exit", "inner", "release"}, idx : 0..(Len(chain) + 1)]
  BY DEF TypeOK
<1>b. pc' = [pc EXCEPT ![c].idx = @ + 1] => pc'[c] = [at |-> pc[c].at, idx |-> pc[c].idx + 1]
  BY <1>a DEF TypeOK
<1>c. \A x : pc' = [pc EXCEPT ![c].at = x] => pc'[c] = [at |-> x, idx |-> pc[c].idx]
  BY <1>a DEF TypeOK
<1>1. CASE Begin(c)
  <2>1. pc[c].at = "idle" /\ pc' = [pc EXCEPT ![c] = [at |-> "enter", idx |-> 1]]
    BY <1>1 DEF Begin, Idle
  <2> QED BY <1>0, <1>1, <2>1 DEF Starts
<1>2. CASE EnterMetrics(c)
  <2>1. At(c, "enter", "metrics") /\ pc' = [pc EXCEPT ![c].idx = @ + 1]
    BY <1>2 DEF EnterMetrics
  <2> QED BY <1>b, <1>2, <2>1 DEF At, Passes
<1>3. CASE EnterLimiter(c)
  <2>1. CASE Abort(c)
    BY <1>0, <1>3, <2>1 DEF EnterLimiter, Abort, Refused
  <2>2. CASE ~Abort(c)
    <3>1. pc' = [pc EXCEPT ![c].idx = @ + 1] /\ UNCHANGED metricsVars
      BY <1>3, <2>2 DEF EnterLimiter
    <3>2. At(c, "enter", "limit") /\ ~At(c, "enter", "metrics")
      BY <1>3 DEF EnterLimiter, At
    <3>3. ~EnterMetrics(c) /\ pc[c].at = "enter"
      BY <3>2 DEF EnterMetrics, At
    <3> QED BY <1>b, <1>3, <3>1, <3>2, <3>3 DEF Passes
  <2> QED BY <2>1, <2>2
<1>4. CASE Core(c)
  <2>1. pc[c].at = "enter" /\ pc[c].idx = Len(chain) + 1
    <3>1. pc[c].at = "enter" /\ pc[c].idx > Len(chain)
      BY <1>4 DEF Core
    <3>2. pc[c].idx \in 0..(Len(chain) + 1) /\ Len(chain) \in Nat
      BY ThePlace, TheChain
    <3> QED BY <3>1, <3>2
  <2>2. CASE Abort(c) /\ ~Serviced
    BY <1>0, <1>4, <2>1, <2>2 DEF Abort, Returned, Fails
  <2>3. CASE ~(Abort(c) /\ ~Serviced)
    BY <1>0, <1>4, <2>1, <2>3 DEF Core, Turns
  <2> QED BY <2>2, <2>3
<1>5. CASE Exit(c)
  <2>1. /\ pc[c].at = "exit" /\ pc[c].idx \in DOMAIN chain
        /\ chain[pc[c].idx] = "metrics" \/ UNCHANGED metricsVars
    BY <1>5 DEF Exit, At
  <2>2. pc' = [pc EXCEPT ![c] = IF pc[c].idx = 1 THEN Returned("inner")
                                ELSE [at |-> "exit", idx |-> pc[c].idx - 1]]
    BY <1>5 DEF Exit, Back, TypeOK
  <2> QED BY <1>0, <1>5, <2>1, <2>2 DEF Leaves
<1>6. CASE EnterGate(c)
  <2>1. At(c, "enter", "gate") /\ pc' = [pc EXCEPT ![c].at = "judge"]
    BY <1>6 DEF EnterGate
  <2> QED BY <1>c, <1>6, <2>1 DEF Asks
<1>7. CASE Judge(c)
  <2>1. At(c, "judge", "gate")
    BY <1>7 DEF Judge, Placed
  <2>2. CASE cur[c] > max
    BY <1>0, <1>7, <2>1, <2>2 DEF Judge, Abort, Denied
  <2>3. CASE ~(cur[c] > max)
    <3>1. pc' = [pc EXCEPT ![c] = [at |-> "enter", idx |-> pc[c].idx + 1]] /\ UNCHANGED metricsVars
      BY <1>7, <2>3 DEF Judge, TypeOK
    <3>2. cur[c] <= max
      <4>1. cur[c] \in Nat /\ max \in Nat
        BY Numbers DEF TypeOK
      <4> QED BY <2>3, <4>1
    <3> QED BY <1>0, <1>7, <2>1, <3>1, <3>2 DEF Allowed
  <2> QED BY <2>2, <2>3
<1>8. CASE Inner(c)
  <2>1. pc[c].at = "inner" /\ pc' = [pc EXCEPT ![c].at = "release"]
    BY <1>8 DEF Inner
  <2> QED BY <1>c, <1>8, <2>1 DEF Answers
<1>9. CASE Release(c)
  BY <1>0, <1>9 DEF Release, GivesBack
<1> QED BY <1>1, <1>2, <1>3, <1>4, <1>5, <1>6, <1>7, <1>8, <1>9 DEF Moves

-----------------------------------------------------------------------------
LEMMA PlacedInv ==
    ASSUME TypeOK, Placed, [Next]_vars
    PROVE  Placed'
<1>1. CASE Manages \/ UNCHANGED vars
  BY <1>1, NoneMoves DEF Placed, At, Serviced
<1>2. ASSUME NEW c \in Callers, Moves(c)
      PROVE  Placed'
  <2> DEFINE Fits(p) ==
         /\ p.at = "enter" => p.idx \in 1..(Len(chain) + 1)
         /\ p.at = "judge" => p.idx \in DOMAIN chain /\ chain[p.idx] = "gate"
         /\ p.at = "exit" => p.idx \in DOMAIN chain
         /\ p.at \in {"inner", "release"} => Serviced
  <2>1. Placed <=> \A d \in Callers : Fits(pc[d])
    BY DEF Placed, At
  <2>2. chain' = chain
    BY <1>2, OneMoves
  <2>3. (\A d \in Callers : Fits(pc'[d])) => Placed'
    BY <2>2 DEF Placed, At, Serviced
  <2>4. Fits(pc'[c])
    <3> USE TheChain
    <3>1. Fits(Idle) /\ Fits(Returned("release")) /\ Fits(Returned("inner"))
      BY DEF Idle, Returned
    <3>2. CASE Starts(c)
      BY <3>2 DEF Starts
    <3>3. CASE Passes(c) \/ Asks(c) \/ Allowed(c)
      <4>1. pc[c].idx \in 1..Len(chain)
        BY <3>3 DEF Passes, Asks, Allowed, At
      <4> QED BY <3>3, <4>1 DEF Passes, Asks, Allowed, At
    <3>4. CASE Turns(c)
      BY <3>4 DEF Turns
    <3>5. CASE Leaves(c)
      <4>1. pc[c].idx \in 1..Len(chain)
        BY <3>5 DEF Leaves
      <4> QED BY <3>5, <3>1, <4>1 DEF Leaves
    <3>6. CASE Answers(c)
      BY <3>6, <2>1 DEF Answers
    <3>7. CASE Refused(c) \/ Denied(c)
      BY <3>1, <3>7 DEF Refused, Denied
    <3>8. CASE Fails(c) \/ GivesBack(c)
      BY <3>1, <3>8 DEF Fails, GivesBack
    <3> QED BY <1>2, <3>2, <3>3, <3>4, <3>5, <3>6, <3>7, <3>8, Course
  <2> QED BY <1>2, <2>1, <2>3, <2>4, OneMoves
<1> QED BY <1>1, <1>2, Steps

-----------------------------------------------------------------------------
(* The counters.  Steps that leave them alone move no caller over the       *)
(* counter's node.                                                          *)
LEMMA MeterQuiet ==
    ASSUME Metering, UNCHANGED metricsVars, \A d \in Callers : Counting(d)' <=> Counting(d)
    PROVE  Metering'
BY DEF Metering, metricsVars, Accounted

LEMMA MeterMoves ==
    ASSUME TypeOK, Placed, Metering, NEW c \in Callers, Moves(c)
    PROVE  Metering'
<1>1. chain' = chain /\ \A d \in Callers \ {c} : pc'[d] = pc[d]
  BY OneMoves
<1>2. \A d \in Callers \ {c} : Counting(d)' <=> Counting(d)
  BY <1>1 DEF Counting
<1>3. metered = {d \in Callers : Counting(d)}
  BY DEF Metering
<1>4. Counting(c)' <=> \E m \in DOMAIN chain :
          /\ chain[m] = "metrics"
          /\ \/ pc'[c].at \in {"enter", "judge"} /\ m < pc'[c].idx
             \/ pc'[c].at = "exit" /\ m <= pc'[c].idx
  BY <1>1 DEF Counting
<1>5. /\ metered \in SUBSET Callers /\ Cardinality(metered) \in Nat
      /\ c \notin metered => Cardinality(metered \cup {c}) = Cardinality(metered) + 1
      /\ c \in metered => Cardinality(metered \ {c}) = Cardinality(metered) - 1
  BY CountCallers DEF TypeOK
<1>6. ASSUME UNCHANGED metricsVars, Counting(c)' <=> Counting(c)
      PROVE  Metering'
  BY <1>2, <1>6, MeterQuiet
<1>7. ASSUME Abort(c), pc'[c].at \in {"idle", "release"}
      PROVE  Metering'
  <2>1. /\ failed' = IF c \in metered THEN failed + 1 ELSE failed
        /\ metered' = metered \ {c}
        /\ UNCHANGED <<calls, successes, resetting, torn>>
    BY <1>7 DEF Abort
  <2>2. metered' = {d \in Callers : Counting(d)'}
    BY <1>2, <1>3, <1>4, <1>7, <2>1
  <2>3. Accounted'
    <3>1. CASE c \in metered
      BY <1>5, <2>1, <3>1, Numbers DEF Metering, Accounted
    <3>2. CASE c \notin metered
      <4>1. metered' = metered
        BY <2>1, <3>2
      <4> QED BY <2>1, <3>2, <4>1 DEF Metering, Accounted
    <3> QED BY <3>1, <3>2
  <2> QED BY <2>1, <2>2, <2>3 DEF Metering
<1>8. CASE Starts(c)
  BY <1>4, <1>6, <1>8, TheChain DEF Starts, Begin, Counting
<1>9. CASE Passes(c)
  <2> DEFINE i == pc[c].idx
  <2>1. pc[c].at = "enter" /\ i \in DOMAIN chain /\ pc'[c] = [at |-> "enter", idx |-> i + 1]
    BY <1>9 DEF Passes, At
  <2>2. CASE chain[i] = "metrics"
    <3>1. EnterMetrics(c)
      BY <1>9, <2>2 DEF Passes, At
    <3>2. /\ calls' = calls + 1 /\ metered' = metered \cup {c} /\ torn' = (torn \/ resetting)
          /\ UNCHANGED <<successes, resetting, failed>>
      BY <3>1 DEF EnterMetrics
    <3>3. Counting(c)' /\ ~Counting(c)
      BY <1>4, <2>1, <2>2, TheChain DEF Counting
    <3>4. metered' = {d \in Callers : Counting(d)'} /\ c \notin metered
      BY <1>2, <1>3, <3>2, <3>3
    <3>5. Accounted'
      <4>1. CASE resetting \/ torn
        BY <3>2, <4>1 DEF Accounted
      <4>2. CASE ~resetting /\ ~torn
        BY <1>5, <3>2, <3>4, <4>2, Numbers DEF Metering, Accounted
      <4> QED BY <4>1, <4>2
    <3> QED BY <3>2, <3>4, <3>5 DEF Metering
  <2>3. CASE chain[i] # "metrics"
    <3>1. UNCHANGED metricsVars
      BY <1>9, <2>3 DEF Passes, At
    <3>2. Counting(c)' <=> Counting(c)
      BY <1>4, <2>1, <2>3, TheChain DEF Counting
    <3> QED BY <1>6, <3>1, <3>2
  <2> QED BY <2>2, <2>3
<1>10. CASE Refused(c) \/ Denied(c)
  BY <1>7, <1>10 DEF Refused, Denied, Returned, Idle
<1>11. CASE Fails(c)
  BY <1>7, <1>11 DEF Fails, Idle
<1>12. CASE Turns(c)
  BY <1>4, <1>6, <1>12, TheChain DEF Turns, Counting
<1>13. CASE Leaves(c)
  <2> DEFINE i == pc[c].idx
  <2>1. /\ pc[c].at = "exit" /\ i \in DOMAIN chain /\ i \in 1..Len(chain)
        /\ i = 1 => pc'[c].at \notin {"enter", "judge", "exit"}
        /\ i # 1 => pc'[c] = [at |-> "exit", idx |-> i - 1]
    BY <1>13, TheChain DEF Leaves, Returned, Idle
  <2>2. CASE chain[i] = "metrics"
    <3>1. /\ successes' = successes + 1 /\ metered' = metered \ {c}
          /\ torn' = (torn \/ resetting) /\ UNCHANGED <<calls, resetting, failed>>
      BY <1>13, <2>2 DEF Leaves, Exit, At
    <3>2. Counting(c) /\ ~Counting(c)'
      BY <1>4, <2>1, <2>2, TheChain DEF Counting
    <3>3. metered' = {d \in Callers : Counting(d)'} /\ c \in metered
      BY <1>2, <1>3, <3>1, <3>2
    <3>4. Accounted'
      <4>1. CASE resetting \/ torn
        BY <3>1, <4>1 DEF Accounted
      <4>2. CASE ~resetting /\ ~torn
        BY <1>5, <3>1, <3>3, <4>2, Numbers DEF Metering, Accounted
      <4> QED BY <4>1, <4>2
    <3> QED BY <3>1, <3>3, <3>4 DEF Metering
  <2>3. CASE chain[i] # "metrics"
    <3>1. UNCHANGED metricsVars
      BY <1>13, <2>3 DEF Leaves
    <3>2. Counting(c)' <=> Counting(c)
      BY <1>4, <2>1, <2>3, TheChain DEF Counting
    <3> QED BY <1>6, <3>1, <3>2
  <2> QED BY <2>2, <2>3
<1>14. CASE Asks(c)
  BY <1>4, <1>6, <1>14 DEF Asks, EnterGate, Counting, At
<1>15. CASE Allowed(c)
  <2>1. /\ pc[c].at = "judge" /\ pc[c].idx \in DOMAIN chain /\ chain[pc[c].idx] = "gate"
        /\ pc'[c] = [at |-> "enter", idx |-> pc[c].idx + 1] /\ UNCHANGED metricsVars
    BY <1>15 DEF Allowed, At
  <2>2. Counting(c)' <=> Counting(c)
    BY <1>4, <2>1, TheChain DEF Counting
  <2> QED BY <1>6, <2>1, <2>2
<1>16. CASE Answers(c)
  BY <1>4, <1>6, <1>16 DEF Answers, Inner, Counting
<1>17. CASE GivesBack(c)
  BY <1>4, <1>6, <1>17 DEF GivesBack, Release, Counting, Idle
<1> QED BY <1>8, <1>9, <1>10, <1>11, <1>12, <1>13, <1>14, <1>15, <1>16, <1>17, Course

LEMMA MeterInv ==
    ASSUME TypeOK, Placed, Metering, [Next]_vars
    PROVE  Metering'
<1>1. ASSUME NEW c \in Callers, Moves(c)
      PROVE  Metering'
  BY <1>1, MeterMoves
<1>2. ASSUME Manages \/ UNCHANGED vars
      PROVE  Metering'
  <2>1. \A d \in Callers : Counting(d)' <=> Counting(d)
    BY <1>2, NoneMoves DEF Counting
  <2>2. CASE ResetCalls
    BY <2>1, <2>2 DEF ResetCalls, Metering, Accounted
  <2>3. CASE ResetSuccesses
    <3>1. Cardinality({}) = 0
      BY FS_EmptySet
    <3> QED BY <2>1, <2>3, <3>1 DEF ResetSuccesses, Metering, Accounted
  <2>4. CASE SetMax \/ LoadCalls \/ LoadSuccesses \/ ResetLimiter \/ Tick \/ UNCHANGED vars
    <3>1. UNCHANGED metricsVars
      BY <2>4 DEF SetMax, LoadCalls, LoadSuccesses, ResetLimiter, Tick, vars
    <3> QED BY <2>1, <3>1, MeterQuiet
  <2> QED BY <1>2, <2>2, <2>3, <2>4 DEF Manages
<1> QED BY <1>1, <1>2, Steps

-----------------------------------------------------------------------------
(* The gate.  What Serving and Holding say of a caller's place.             *)
LEMMA GatePlaces ==
    ASSUME NEW d \in Callers
    PROVE  /\ Serving(d) <=> /\ Serviced
                             /\ \/ pc[d].at \in {"exit", "inner"}
                                \/ \E g \in DOMAIN chain :
                                      chain[g] = "gate" /\ pc[d].at = "enter" /\ g < pc[d].idx
           /\ Holding(d) <=> Serving(d) \/ pc[d].at \in {"judge", "release"}
           /\ d \in Contenders <=> Serving(d) \/ pc[d].at = "judge"
<1>1. \A g \in DOMAIN chain : pc[d].idx > g <=> g < pc[d].idx
  OBVIOUS
<1> QED BY <1>1 DEF Serving, Past, Holding, Contenders

(* A step that leaves the gate alone keeps every slot held, and lets no     *)
(* caller in.                                                               *)
LEMMA GateQuiet ==
    ASSUME Gating, UNCHANGED gateVars,
           \A d \in Callers : /\ Holding(d)' <=> Holding(d)
                              /\ Serving(d)' => Serving(d)
                              /\ pc'[d].at = "judge" => pc[d].at = "judge"
    PROVE  Gating'
<1>1. {d \in Callers : Holding(d)'} = {d \in Callers : Holding(d)}
  OBVIOUS
<1>2. Contenders' \subseteq Contenders
  BY DEF Contenders
<1>3. Ranked'
  BY <1>2 DEF Gating, Ranked, gateVars
<1> QED BY <1>1, <1>3 DEF Gating, CountExact, gateVars

(* Among the callers let in, no more than the largest limit they met.       *)
LEMMA HonouredOf ==
    ASSUME TypeOK, Gating
    PROVE  LimitHonoured
<1> DEFINE S == {c \in Callers : Serving(c)}
<1>1. CASE S = {}
  BY <1>1, FS_EmptySet, Numbers DEF LimitHonoured
<1>2. CASE S # {}
  <2>1. S \in SUBSET Contenders
    BY DEF Contenders
  <2>2. PICK c \in S : Cardinality(S) <= cur[c]
    BY <1>2, <2>1 DEF Gating, Ranked
  <2>3. cur[c] <= peak
    BY <2>2 DEF Gating
  <2>4. Cardinality(S) \in Nat /\ cur[c] \in Nat /\ peak \in Nat
    BY CountCallers, Numbers DEF TypeOK
  <2> QED BY <2>2, <2>3, <2>4 DEF LimitHonoured
<1> QED BY <1>1, <1>2

(* The peak keeps above the limit and, while anyone is served, only grows.  *)
LEMMA PeakGrows ==
    ASSUME TypeOK, NEW m \in Quotas
    PROVE  /\ Peak(m) \in Quotas /\ m <= Peak(m)
           /\ (\E c \in Callers : Serving(c)) => peak <= Peak(m)
<1>1. m \in Nat /\ peak \in Nat /\ peak \in Quotas
  BY Numbers, SettingsAssumption
<1>2. CASE m < peak /\ (\E c \in Callers : Serving(c))
  BY <1>1, <1>2 DEF Peak
<1>3. CASE ~(m < peak /\ (\E c \in Callers : Serving(c)))
  BY <1>1, <1>3 DEF Peak
<1> QED BY <1>2, <1>3

LEMMA GateMoves ==
    ASSUME TypeOK, Placed, Gating, NEW c \in Callers, Moves(c)
    PROVE  Gating'
<1>1. chain' = chain /\ \A d \in Callers \ {c} : pc'[d] = pc[d]
  BY OneMoves
<1>2. Serviced' <=> Serviced
  BY <1>1 DEF Serviced
<1>3. \A d \in Callers \ {c} : /\ Serving(d)' <=> Serving(d)
                               /\ Holding(d)' <=> Holding(d)
                               /\ pc'[d].at = pc[d].at
  BY <1>1, <1>2 DEF Serving, Past, Holding
<1>4. /\ Serving(c)' <=> /\ Serviced
                         /\ \/ pc'[c].at \in {"exit", "inner"}
                            \/ \E g \in DOMAIN chain :
                                  chain[g] = "gate" /\ pc'[c].at = "enter" /\ g < pc'[c].idx
      /\ Holding(c)' <=> Serving(c)' \/ pc'[c].at \in {"judge", "release"}
  <2>1. \A g \in DOMAIN chain : pc'[c].idx > g <=> g < pc'[c].idx
    OBVIOUS
  <2> QED BY <1>1, <1>2, <2>1 DEF Serving, Past, Holding
<1>5. /\ Serving(c) <=> /\ Serviced
                        /\ \/ pc[c].at \in {"exit", "inner"}
                           \/ \E g \in DOMAIN chain :
                                 chain[g] = "gate" /\ pc[c].at = "enter" /\ g < pc[c].idx
      /\ Holding(c) <=> Serving(c) \/ pc[c].at \in {"judge", "release"}
  BY GatePlaces
<1>6. ASSUME UNCHANGED gateVars, Holding(c)' <=> Holding(c), Serving(c)' => Serving(c),
             pc'[c].at = "judge" => pc[c].at = "judge"
      PROVE  Gating'
  BY <1>3, <1>6, GateQuiet
<1>7. CASE Starts(c)
  <2>1. ~Serving(c)' /\ ~Holding(c)' /\ ~Holding(c) /\ pc'[c].at # "judge"
    BY <1>4, <1>5, <1>7, TheChain DEF Starts
  <2> QED BY <1>6, <1>7, <2>1 DEF Starts, Begin
<1>8. CASE Passes(c)
  <2>1. UNCHANGED gateVars
    BY <1>8 DEF Passes, EnterMetrics, EnterLimiter
  <2>2. /\ pc[c].at = "enter" /\ pc[c].idx \in DOMAIN chain /\ chain[pc[c].idx] # "gate"
        /\ pc'[c] = [at |-> "enter", idx |-> pc[c].idx + 1]
    BY <1>8 DEF Passes, At
  <2>3. Serving(c)' <=> Serving(c)
    BY <1>4, <1>5, <2>2, TheChain
  <2> QED BY <1>4, <1>5, <1>6, <2>1, <2>2, <2>3
<1>9. CASE Refused(c)
  <2>1. UNCHANGED gateVars
    BY <1>9 DEF Refused, EnterLimiter
  <2>2. /\ pc[c].at = "enter" /\ pc[c].idx \in DOMAIN chain /\ chain[pc[c].idx] = "limit"
        /\ pc'[c] = IF Serviced THEN [at |-> "release", idx |-> 0] ELSE Idle
    BY <1>9 DEF Refused, At, Returned
  <2>3. Holding(c) <=> Serviced
    BY <1>5, <2>2, TheChain
  <2> QED BY <1>4, <1>6, <2>1, <2>2, <2>3 DEF Idle
<1>10. CASE Turns(c)
  <2>1. UNCHANGED gateVars
    BY <1>10 DEF Turns, Core
  <2>2. Serving(c)' <=> Serving(c)
    BY <1>4, <1>5, <1>10, TheChain DEF Turns
  <2> QED BY <1>4, <1>5, <1>6, <1>10, <2>1, <2>2 DEF Turns
<1>11. CASE Fails(c)
  <2>1. UNCHANGED gateVars
    BY <1>11 DEF Fails, Core
  <2> QED BY <1>4, <1>5, <1>6, <1>11, <2>1 DEF Fails, Idle
<1>12. CASE Leaves(c)
  <2>1. UNCHANGED gateVars
    BY <1>12 DEF Leaves, Exit
  <2>2. pc[c].at = "exit" /\ pc'[c] = IF pc[c].idx = 1 THEN Returned("inner")
                                      ELSE [at |-> "exit", idx |-> pc[c].idx - 1]
    BY <1>12 DEF Leaves
  <2>3. CASE Serviced
    <3>1. Serving(c) /\ Serving(c)' /\ pc'[c].at # "judge"
      BY <1>4, <1>5, <2>2, <2>3 DEF Returned
    <3> QED BY <1>4, <1>5, <1>6, <2>1, <3>1
  <2>4. CASE ~Serviced
    <3>1. ~Holding(c) /\ ~Holding(c)' /\ pc'[c].at # "judge"
      BY <1>4, <1>5, <2>2, <2>4 DEF Returned, Idle
    <3> QED BY <1>4, <1>6, <2>1, <3>1
  <2> QED BY <2>3, <2>4
<1>13. CASE Denied(c)
  <2>1. UNCHANGED gateVars
    BY <1>13 DEF Denied, Judge
  <2>2. pc[c].at = "judge" /\ pc'[c] = [at |-> "release", idx |-> 0]
    BY <1>13, TheChain DEF Denied, At, Returned
  <2> QED BY <1>4, <1>5, <1>6, <2>1, <2>2
<1>14. CASE Answers(c)
  <2>1. UNCHANGED gateVars
    BY <1>14 DEF Answers, Inner
  <2>2. Serviced
    BY <1>14 DEF Answers, Placed
  <2> QED BY <1>4, <1>5, <1>6, <1>14, <2>1, <2>2 DEF Answers
<1>15. CASE Allowed(c)
  <2>1. UNCHANGED gateVars /\ cur[c] <= max
    BY <1>15 DEF Allowed, Judge
  <2>2. /\ pc[c].at = "judge" /\ pc[c].idx \in DOMAIN chain /\ chain[pc[c].idx] = "gate"
        /\ pc'[c] = [at |-> "enter", idx |-> pc[c].idx + 1]
    BY <1>15 DEF Allowed, At
  <2>3. Serving(c)' /\ Holding(c)' /\ Holding(c)
    BY <1>4, <1>5, <2>2, TheChain
  <2>4. {d \in Callers : Holding(d)'} = {d \in Callers : Holding(d)}
    BY <1>3, <2>3
  <2>5. Contenders' \subseteq Contenders
    BY <1>3, <2>2 DEF Contenders
  <2>6. Ranked'
    BY <2>1, <2>5 DEF Gating, Ranked, gateVars
  <2>7. cur[c] <= peak
    BY <2>1, Numbers DEF Gating, TypeOK
  <2> QED BY <1>3, <2>1, <2>4, <2>6, <2>7 DEF Gating, CountExact, gateVars
<1>16. CASE Asks(c)
  <2>1. /\ inflight' = inflight + 1 /\ cur' = [cur EXCEPT ![c] = inflight + 1]
        /\ UNCHANGED <<max, peak>>
    BY <1>16 DEF Asks, EnterGate
  <2>2. /\ pc[c].at = "enter" /\ pc[c].idx \in DOMAIN chain /\ chain[pc[c].idx] = "gate"
        /\ pc'[c] = [at |-> "judge", idx |-> pc[c].idx]
    BY <1>16 DEF Asks, At
  <2>3. ~Serving(c) /\ ~Serving(c)' /\ ~Holding(c) /\ Holding(c)'
    BY <1>4, <1>5, <2>2, TheChain
  <2> DEFINE H == {d \in Callers : Holding(d)}
  <2>4. {d \in Callers : Holding(d)'} = H \cup {c} /\ c \notin H
    BY <1>3, <2>3
  <2>5. Cardinality(H \cup {c}) = inflight + 1 /\ Cardinality(H) = inflight
    BY <2>4, CountCallers DEF Gating, CountExact
  <2>6. Contenders' \ {c} \subseteq Contenders /\ Contenders' \subseteq H \cup {c}
    BY <1>3, <2>3, <2>4 DEF Contenders, Holding
  <2>7. Ranked'
    <3> SUFFICES ASSUME NEW T \in SUBSET Contenders', T # {}
                 PROVE  \E d \in T : Cardinality(T) <= cur'[d]
      BY DEF Ranked
    <3>1. CASE c \in T
      <4>1. Cardinality(T) <= Cardinality(H \cup {c})
        BY <2>6, CountCallers
      <4>2. cur'[c] = inflight + 1
        BY <2>1 DEF TypeOK
      <4> QED BY <2>5, <3>1, <4>1, <4>2
    <3>2. CASE c \notin T
      <4>1. PICK d \in T : Cardinality(T) <= cur[d]
        BY <2>6, <3>2 DEF Gating, Ranked
      <4>2. cur'[d] = cur[d]
        BY <2>1, <2>6, <3>2, <4>1 DEF TypeOK, Contenders
      <4> QED BY <4>1, <4>2
    <3> QED BY <3>1, <3>2
  <2>8. \A d \in Callers : Serving(d)' => cur'[d] <= peak'
    BY <1>3, <2>1, <2>3 DEF Gating, TypeOK
  <2> QED BY <2>1, <2>4, <2>5, <2>7, <2>8 DEF Gating, CountExact
<1>17. CASE GivesBack(c)
  <2>1. /\ inflight' = inflight - 1 /\ cur' = [cur EXCEPT ![c] = 0]
        /\ max' = max /\ peak' = Peak(max)
    BY <1>17 DEF GivesBack, Release
  <2>2. ~Serving(c) /\ ~Serving(c)' /\ Holding(c) /\ ~Holding(c)' /\ pc'[c].at # "judge"
    BY <1>4, <1>5, <1>17 DEF GivesBack, Idle
  <2> DEFINE H == {d \in Callers : Holding(d)}
  <2>3. {d \in Callers : Holding(d)'} = H \ {c} /\ c \in H
    BY <1>3, <2>2
  <2>4. Cardinality(H \ {c}) = inflight - 1
    BY <2>3, CountCallers DEF Gating, CountExact
  <2>5. Contenders' \subseteq Contenders \ {c}
    BY <1>3, <2>2 DEF Contenders
  <2>6. \A d \in Callers \ {c} : cur'[d] = cur[d]
    BY <2>1 DEF TypeOK
  <2>7. Ranked'
    BY <2>5, <2>6 DEF Gating, Ranked, Contenders
  <2>8. ASSUME NEW d \in Callers, Serving(d)'
        PROVE  cur'[d] <= peak'
    <3>1. d # c /\ Serving(d)
      BY <1>3, <2>2, <2>8
    <3>2. cur[d] <= peak /\ peak <= Peak(max) /\ Peak(max) \in Quotas
      BY <3>1, PeakGrows, Numbers DEF Gating
    <3>3. cur[d] \in Nat /\ peak \in Nat /\ Peak(max) \in Nat
      BY <3>2, Numbers, SettingsAssumption DEF TypeOK
    <3> QED BY <2>1, <2>6, <3>1, <3>2, <3>3
  <2>9. max' <= peak'
    BY <2>1, PeakGrows, Numbers
  <2> QED BY <2>1, <2>3, <2>4, <2>7, <2>8, <2>9 DEF Gating, CountExact
<1> QED BY <1>7, <1>8, <1>9, <1>10, <1>11, <1>12, <1>13, <1>14, <1>15, <1>16, <1>17, Course

LEMMA GateInv ==
    ASSUME TypeOK, Placed, Gating, [Next]_vars
    PROVE  Gating'
<1>1. ASSUME NEW c \in Callers, Moves(c)
      PROVE  Gating'
  BY <1>1, GateMoves
<1>2. ASSUME Manages \/ UNCHANGED vars
      PROVE  Gating'
  <2>1. /\ pc' = pc
        /\ \A d \in Callers : (Holding(d)' <=> Holding(d)) /\ (Serving(d)' <=> Serving(d))
    BY <1>2, NoneMoves DEF Holding, Serving, Past, Serviced
  <2>2. CASE SetMax
    <3>1. PICK m \in Quotas : max' = m /\ peak' = Peak(m) /\ UNCHANGED <<inflight, cur>>
      BY <2>2 DEF SetMax
    <3>2. {d \in Callers : Holding(d)'} = {d \in Callers : Holding(d)}
      BY <2>1
    <3>3. Contenders' = Contenders
      BY <2>1 DEF Contenders
    <3>4. Ranked'
      BY <3>1, <3>3 DEF Gating, Ranked
    <3>5. ASSUME NEW d \in Callers, Serving(d)'
          PROVE  cur'[d] <= peak'
      <4>1. cur[d] <= peak /\ peak <= Peak(m) /\ Peak(m) \in Quotas
        BY <2>1, <3>5, PeakGrows DEF Gating
      <4>2. cur[d] \in Nat /\ peak \in Nat /\ Peak(m) \in Nat
        BY <4>1, Numbers, SettingsAssumption DEF TypeOK
      <4> QED BY <3>1, <4>1, <4>2
    <3>6. max' <= peak'
      BY <3>1, PeakGrows
    <3> QED BY <3>1, <3>2, <3>4, <3>5, <3>6 DEF Gating, CountExact
  <2>3. CASE ~SetMax
    <3>1. UNCHANGED gateVars
      BY <1>2, <2>3 DEF Manages, ResetCalls, ResetSuccesses, LoadCalls, LoadSuccesses,
                        ResetLimiter, Tick, vars
    <3> QED BY <2>1, <3>1, GateQuiet
  <2> QED BY <2>2, <2>3
<1> QED BY <1>1, <1>2, Steps

-----------------------------------------------------------------------------
(* The limiter.  An admission is an age and a number.                       *)
LEMMA TheAdmissions ==
    ASSUME TypeOK
    PROVE  /\ \A p : p \in Admissions <=>
                  \E a \in 0..Window : \E i \in 1..recent[a] : p = <<a, i>>
           /\ IsFiniteSet(Admissions)
           /\ \A S \in SUBSET Admissions : IsFiniteSet(S) /\ Cardinality(S) \in Nat
<1>1. \A p : p \in Admissions <=> \E a \in 0..Window : \E i \in 1..recent[a] : p = <<a, i>>
  BY DEF Admissions
<1>2. /\ IsFiniteSet(0..Window) /\ IsFiniteSet(1..Limit)
      /\ IsFiniteSet((0..Window) \X (1..Limit))
  <2>1. IsFiniteSet(0..Window) /\ IsFiniteSet(1..Limit)
    BY SettingsAssumption, FS_Interval
  <2> QED BY <2>1, FS_Product
<1>3. Admissions \subseteq (0..Window) \X (1..Limit)
  <2>1. \A a \in 0..Window : recent[a] \in 0..Limit
    BY DEF TypeOK
  <2>2. \A a \in 0..Window : 1..recent[a] \subseteq 1..Limit
    BY <2>1, SettingsAssumption
  <2> QED BY <1>1, <2>2
<1> QED BY <1>1, <1>2, <1>3, FS_Subset, FS_CardinalityType

(* Two parts of the admissions, before and in the running window.           *)
LEMMA CountAdmissions ==
    ASSUME TypeOK
    PROVE  /\ Current \in SUBSET Admissions /\ Before \in SUBSET Admissions
           /\ Cardinality(Current) \in Nat /\ Cardinality(Before) \in Nat
           /\ Admitted = Cardinality(Current) + Cardinality(Before)
<1>1. /\ Current \in SUBSET Admissions /\ Before \in SUBSET Admissions
      /\ Admissions = Current \cup Before /\ Current \cap Before = {}
  <2>1. \A p \in Admissions : p[1] \in Int
    BY TheAdmissions
  <2> QED BY <2>1, Numbers DEF Current, Before
<1>2. Cardinality(Current \cap Before) = 0
  BY <1>1, FS_EmptySet
<1>3. IsFiniteSet(Current) /\ IsFiniteSet(Before)
  BY <1>1, TheAdmissions
<1>4. Cardinality(Current \cup Before)
        = Cardinality(Current) + Cardinality(Before) - Cardinality(Current \cap Before)
  BY <1>3, FS_Union
<1>5. Cardinality(Current) \in Nat /\ Cardinality(Before) \in Nat
  BY <1>3, FS_CardinalityType
<1> QED BY <1>1, <1>2, <1>4, <1>5 DEF Admitted

LEMMA SlidingBoundOf ==
    ASSUME TypeOK, Limiting
    PROVE  SlidingBound
BY CountAdmissions, Numbers DEF Limiting, SlidingBound

(* No step of the others concerns the limiter.                              *)
LEMMA LimitQuiet ==
    ASSUME Limiting, UNCHANGED limiterVars
    PROVE  Limiting'
BY DEF Limiting, Current, Before, Admissions, Rolls, limiterVars

(* A tick makes every admission one older, and the oldest drop out.         *)
LEMMA TickAges ==
    ASSUME TypeOK, Limiting, Tick
    PROVE  Limiting'
<1>1. /\ age' = (IF age > Window THEN age ELSE age + 1)
      /\ recent' = [a \in 0..Window |-> IF a = 0 THEN 0 ELSE recent[a - 1]]
      /\ count' = count
  BY DEF Tick
<1>2. /\ age \in 0..(Window + 1) /\ age' \in Nat /\ Window \in Nat /\ age \in Nat
      /\ count \in Nat /\ Limit \in Nat
  BY <1>1, Numbers DEF TypeOK
<1>3. recent'[0] = 0 /\ \A a \in 1..Window : recent'[a] = recent[a - 1] /\ a - 1 \in 0..Window
  BY <1>1, <1>2
<1>4. \A p : p \in Admissions' <=> \E a \in 0..Window : \E i \in 1..recent'[a] : p = <<a, i>>
  BY DEF Admissions
<1> DEFINE Younger(p) == <<p[1] - 1, p[2]>>
<1>5. \A p \in Admissions' : /\ p[1] \in 1..Window /\ p[2] \in Int /\ p = <<p[1], p[2]>>
                             /\ Younger(p) \in Admissions
  <2> SUFFICES ASSUME NEW a \in 0..Window, NEW i \in 1..recent'[a]
               PROVE  a \in 1..Window /\ i \in Int /\ <<a - 1, i>> \in Admissions
    BY <1>4
  <2>1. a \in 1..Window
    BY <1>2, <1>3
  <2>2. i \in 1..recent[a - 1] /\ a - 1 \in 0..Window
    BY <1>3, <2>1
  <2> QED BY <2>1, <2>2, TheAdmissions
<1>6. ASSUME NEW S \in SUBSET Admissions, NEW T \in SUBSET Admissions',
             \A p \in T : Younger(p) \in S
      PROVE  Cardinality(T) \in Nat /\ Cardinality(T) <= Cardinality(S)
  <2> DEFINE f == [p \in T |-> Younger(p)]
  <2>1. f \in [T -> S]
    BY <1>6
  <2>2. \A p, q \in T : f[p] = f[q] => p = q
    <3> SUFFICES ASSUME NEW p \in T, NEW q \in T, Younger(p) = Younger(q)
                 PROVE  p = q
      OBVIOUS
    <3>1. p[1] - 1 = q[1] - 1 /\ p[2] = q[2]
      OBVIOUS
    <3>2. p = <<p[1], p[2]>> /\ q = <<q[1], q[2]>>
      BY <1>5
    <3>3. p[1] \in 1..Window /\ q[1] \in 1..Window
      BY <1>5
    <3>4. p[1] = q[1]
      BY <3>1, <3>3
    <3> QED BY <3>1, <3>2, <3>4
  <2>3. f \in Injection(T, S)
    BY <2>1, <2>2 DEF Injection, IsInjective
  <2>4. IsFiniteSet(T) /\ Cardinality(T) <= Cardinality(S)
    BY <2>3, TheAdmissions, FS_Injection
  <2> QED BY <2>4, FS_CardinalityType
<1>7. \A p \in Admissions' : Younger(p)[1] = p[1] - 1 /\ p[1] \in 1..Window
  BY <1>5
<1>8. \A p \in Current' : Younger(p) \in Current
  <2> SUFFICES ASSUME NEW p \in Admissions', p[1] <= age' PROVE Younger(p) \in Current
    BY DEF Current
  <2>1. p[1] - 1 <= age
    BY <1>1, <1>2, <1>7
  <2> QED BY <1>5, <1>7, <2>1 DEF Current
<1>9. \A p \in Before' : Younger(p) \in Before
  <2> SUFFICES ASSUME NEW p \in Admissions', p[1] > age' PROVE Younger(p) \in Before
    BY DEF Before
  <2>1. p[1] - 1 > age
    BY <1>1, <1>2, <1>7
  <2> QED BY <1>5, <1>7, <2>1 DEF Before
<1>10. /\ Cardinality(Current') \in Nat /\ Cardinality(Current') <= Cardinality(Current)
       /\ Cardinality(Before') \in Nat /\ Cardinality(Before') <= Cardinality(Before)
  <2>1. Current' \in SUBSET Admissions' /\ Before' \in SUBSET Admissions'
    BY DEF Current, Before
  <2> QED BY <1>6, <1>8, <1>9, <2>1, CountAdmissions
<1>11. Rolls' => recent'[0] = 0
  BY <1>3
<1>12. recent'[0] <= count'
  BY <1>1, <1>2, <1>3
<1>13. Cardinality(Current') <= count' /\ Cardinality(Before') <= Limit
  BY <1>1, <1>2, <1>10, CountAdmissions DEF Limiting
<1> QED BY <1>11, <1>12, <1>13 DEF Limiting

(* Rolling the window makes all that was let through in it the past.        *)
LEMMA RollAges ==
    ASSUME TypeOK, Limiting, Rolls,
           NEW x \in [0..Window -> Int], \A a \in 1..Window : x[a] = recent[a], x[0] \in {0, 1},
           recent' = x, age' = 0, count' = x[0]
    PROVE  Limiting'
<1>1. age > Window /\ age \in Nat /\ Window \in Nat /\ count \in Nat /\ count <= Limit /\ Limit \in Nat
  BY Numbers DEF Rolls
<1>2. \A p : p \in Admissions' <=> \E a \in 0..Window : \E i \in 1..x[a] : p = <<a, i>>
  BY DEF Admissions
<1>3. Before' \subseteq Current
  <2> SUFFICES ASSUME NEW a \in 0..Window, NEW i \in 1..x[a], a > 0
               PROVE  <<a, i>> \in Current
    BY <1>2 DEF Before
  <2>1. a \in 1..Window /\ a <= age
    BY <1>1
  <2>2. <<a, i>> \in Admissions
    BY <2>1, TheAdmissions
  <2> QED BY <2>1, <2>2 DEF Current
<1>4. Cardinality(Before') \in Nat /\ Cardinality(Before') <= Cardinality(Current)
  <2>1. IsFiniteSet(Current)
    BY CountAdmissions, TheAdmissions
  <2>2. IsFiniteSet(Before') /\ Cardinality(Before') <= Cardinality(Current)
    BY <1>3, <2>1, FS_Subset
  <2> QED BY <2>2, FS_CardinalityType
<1>5. Cardinality(Before') <= Limit
  BY <1>1, <1>4, CountAdmissions DEF Limiting
<1>6. Cardinality(Current') <= count'
  <2>1. Current' \subseteq {<<0, i>> : i \in 1..x[0]}
    <3> SUFFICES ASSUME NEW a \in 0..Window, NEW i \in 1..x[a], a <= 0
                 PROVE  <<a, i>> \in {<<0, j>> : j \in 1..x[0]}
      BY <1>2 DEF Current
    <3>1. a = 0
      OBVIOUS
    <3> QED BY <3>1
  <2>2. CASE x[0] = 0
    <3>1. Current' = {}
      BY <2>1, <2>2
    <3> QED BY <2>2, <3>1, FS_EmptySet
  <2>3. CASE x[0] = 1
    <3>1. Current' \in SUBSET {<<0, 1>>}
      BY <2>1, <2>3
    <3>2. IsFiniteSet({<<0, 1>>}) /\ Cardinality({<<0, 1>>}) = 1
      BY FS_Singleton
    <3>3. Cardinality(Current') <= 1
      BY <3>1, <3>2, FS_Subset
    <3> QED BY <2>3, <3>3
  <2> QED BY <2>2, <2>3
<1>7. recent'[0] <= count' /\ ~Rolls'
  BY <1>1 DEF Rolls
<1> QED BY <1>5, <1>6, <1>7 DEF Limiting

LEMMA LimiterDecides ==
    ASSUME TypeOK, Limiting, NEW c \in Callers, EnterLimiter(c)
    PROVE  /\ Limiting'
           /\ recent' \in [0..Window -> 0..Limit] /\ count' \in 0..Limit /\ age' \in 0..(Window + 1)
<1>1. /\ recent \in [0..Window -> 0..Limit] /\ 0 \in 0..Window
      /\ age \in Nat /\ age \in 0..(Window + 1) /\ Window \in Nat /\ count \in 0..Limit
      /\ Limit \in Nat
  BY Numbers DEF TypeOK
<1>2. age' = Start /\ \/ Full /\ count' = Count /\ recent' = recent
                      \/ ~Full /\ count' = Count + 1 /\ recent' = [recent EXCEPT ![0] = @ + 1]
  BY DEF EnterLimiter
<1>3. CASE Rolls
  <2>1. Count = 0 /\ age' = 0 /\ recent[0] = 0
    BY <1>2, <1>3 DEF Count, Start, Limiting
  <2>2. recent' \in [0..Window -> 0..Limit] /\ count' = recent'[0] /\ recent'[0] \in {0, 1}
    <3>1. CASE Full
      BY <1>1, <1>2, <2>1, <3>1
    <3>2. CASE ~Full
      <4>1. 1 \in 0..Limit
        BY <1>1, <2>1, <3>2 DEF Full
      <4> QED BY <1>1, <1>2, <2>1, <3>2, <4>1
    <3> QED BY <3>1, <3>2
  <2>3. recent' \in [0..Window -> Int] /\ \A a \in 1..Window : recent'[a] = recent[a]
    BY <1>1, <1>2, <2>2
  <2>4. Limiting'
    BY <1>3, <2>1, <2>2, <2>3, RollAges
  <2> QED BY <1>1, <2>1, <2>2, <2>4
<1>4. CASE ~Rolls /\ Full
  BY <1>1, <1>2, <1>4, LimitQuiet DEF Count, Start, limiterVars
<1>5. CASE ~Rolls /\ ~Full
  <2>1. /\ count' = count + 1 /\ count + 1 \in 0..Limit /\ age' = age /\ age <= Window
        /\ recent' = [recent EXCEPT ![0] = @ + 1]
    BY <1>1, <1>2, <1>5 DEF Count, Start, Full, Rolls
  <2>2. recent[0] \in Nat /\ recent[0] <= count
    BY <1>1 DEF Limiting
  <2>3. recent'[0] = recent[0] + 1 /\ recent[0] + 1 \in 0..Limit
    BY <1>1, <2>1, <2>2
  <2>4. recent' \in [0..Window -> 0..Limit] /\ \A a \in 1..Window : recent'[a] = recent[a]
    BY <1>1, <2>1, <2>3
  <2> DEFINE x == <<0, recent[0] + 1>>
  <2>5. \A p : p \in Admissions' <=> p \in Admissions \cup {x}
    <3>1. \A p : p \in Admissions' <=> \E a \in 0..Window : \E i \in 1..recent'[a] : p = <<a, i>>
      BY DEF Admissions
    <3>2. \A i : i \in 1..recent'[0] <=> i \in 1..recent[0] \/ i = recent[0] + 1
      BY <2>2, <2>3
    <3>3. \A a : a \in 0..Window <=> a = 0 \/ a \in 1..Window
      BY <1>1
    <3> QED BY <2>4, <3>1, <3>2, <3>3, TheAdmissions
  <2>6. x[1] = 0 /\ 0 <= age /\ ~(0 > age)
    BY <1>1
  <2>7. Current' = Current \cup {x} /\ Before' = Before
    BY <2>1, <2>5, <2>6 DEF Current, Before
  <2>8. Cardinality(Current') <= Cardinality(Current) + 1 /\ Cardinality(Current') \in Nat
    <3>1. IsFiniteSet(Current)
      BY CountAdmissions, TheAdmissions
    <3>2. /\ IsFiniteSet(Current \cup {x})
          /\ Cardinality(Current \cup {x})
               = IF x \in Current THEN Cardinality(Current) ELSE Cardinality(Current) + 1
      BY <3>1, FS_AddElement
    <3>3. Cardinality(Current \cup {x}) \in Nat /\ Cardinality(Current) \in Nat
      BY <3>1, <3>2, FS_CardinalityType
    <3> QED BY <2>7, <3>2, <3>3
  <2>9. Cardinality(Current') <= count' /\ Cardinality(Before') <= Limit
    BY <1>1, <2>1, <2>7, <2>8, CountAdmissions DEF Limiting
  <2>10. recent'[0] <= count' /\ ~Rolls'
    BY <1>1, <1>5, <2>1, <2>2, <2>3 DEF Rolls
  <2> QED BY <1>1, <2>1, <2>4, <2>9, <2>10 DEF Limiting
<1> QED BY <1>3, <1>4, <1>5

LEMMA LimitInv ==
    ASSUME TypeOK, Limiting, [Next]_vars
    PROVE  /\ Limiting'
           /\ recent' \in [0..Window -> 0..Limit] /\ count' \in 0..Limit /\ age' \in 0..(Window + 1)
<1>1. ASSUME NEW c \in Callers, EnterLimiter(c)
      PROVE  /\ Limiting'
             /\ recent' \in [0..Window -> 0..Limit] /\ count' \in 0..Limit
             /\ age' \in 0..(Window + 1)
  BY <1>1, LimiterDecides
<1>2. CASE Tick
  <2>1. \A a \in 1..Window : recent[a - 1] \in 0..Limit
    BY Numbers, SMTT(30) DEF TypeOK
  <2>2. recent' \in [0..Window -> 0..Limit] /\ count' \in 0..Limit
    BY <1>2, <2>1, Numbers, SMTT(30) DEF Tick, TypeOK
  <2>3. age' \in 0..(Window + 1)
    BY <1>2, Numbers DEF Tick, TypeOK
  <2> QED BY <1>2, <2>2, <2>3, TickAges
<1>3. CASE ResetLimiter
  <2>1. age' = 0 /\ count' = 0 /\ recent' = NoRecent
    BY <1>3 DEF ResetLimiter
  <2>2. Admissions' = {}
    BY <2>1 DEF Admissions, NoRecent
  <2>3. Current' = {} /\ Before' = {}
    BY <2>2 DEF Current, Before
  <2>4. recent'[0] = 0 /\ recent' \in [0..Window -> 0..Limit]
    BY <2>1, Numbers DEF NoRecent
  <2> QED BY <2>1, <2>3, <2>4, FS_EmptySet, Numbers DEF Limiting
<1>4. CASE UNCHANGED limiterVars
  BY <1>4, LimitQuiet DEF limiterVars, TypeOK
<1>5. ASSUME NEW c \in Callers, Moves(c), ~EnterLimiter(c)
      PROVE  UNCHANGED limiterVars
  BY <1>5 DEF Moves, Begin, EnterMetrics, Core, Exit, EnterGate, Judge, Inner, Release
<1>6. ASSUME Manages \/ UNCHANGED vars, ~Tick, ~ResetLimiter
      PROVE  UNCHANGED limiterVars
  BY <1>6 DEF Manages, SetMax, ResetCalls, ResetSuccesses, LoadCalls, LoadSuccesses, vars
<1> QED BY <1>1, <1>2, <1>3, <1>4, <1>5, <1>6, Steps

-----------------------------------------------------------------------------
(* Types that no other part of the invariant needs.                         *)
LEMMA CountersTyped ==
    ASSUME TypeOK, [Next]_vars
    PROVE  /\ {calls', successes', failed'} \subseteq Nat
           /\ seen' \in Nat \cup {None}
           /\ resetting' \in BOOLEAN /\ torn' \in BOOLEAN
           /\ metered' \subseteq Callers
<1>1. /\ calls \in Nat /\ successes \in Nat /\ failed \in Nat
      /\ seen \in Nat \cup {None} /\ resetting \in BOOLEAN /\ torn \in BOOLEAN
      /\ metered \subseteq Callers
  BY DEF TypeOK
<1>2. ASSUME NEW c \in Callers, Moves(c), UNCHANGED metricsVars
      PROVE  UNCHANGED <<calls, successes, failed, seen, resetting, torn, metered>>
  BY <1>2 DEF metricsVars, Moves, Begin, EnterMetrics, EnterLimiter, Core, Exit, EnterGate,
              Judge, Inner, Release
<1>3. ASSUME NEW c \in Callers, Abort(c)
      PROVE  /\ calls' = calls /\ successes' = successes /\ failed' \in {failed, failed + 1}
             /\ resetting' = resetting /\ torn' = torn /\ metered' \subseteq metered
  BY <1>3 DEF Abort
<1>4. ASSUME NEW c \in Callers, Moves(c), Abort(c)
      PROVE  seen' = seen
  BY <1>4 DEF Moves, Begin, EnterMetrics, EnterLimiter, Core, Exit, EnterGate, Judge, Inner, Release
<1>5. ASSUME NEW c \in Callers, EnterMetrics(c)
      PROVE  /\ calls' = calls + 1 /\ metered' = metered \cup {c} /\ torn' \in BOOLEAN
             /\ UNCHANGED <<successes, failed, seen, resetting>>
  BY <1>5 DEF EnterMetrics
<1>6. ASSUME NEW c \in Callers, Exit(c), ~UNCHANGED metricsVars
      PROVE  /\ successes' = successes + 1 /\ metered' = metered \ {c} /\ torn' \in BOOLEAN
             /\ UNCHANGED <<calls, failed, seen, resetting>>
  BY <1>6 DEF Exit
<1>7. ASSUME NEW c \in Callers, Moves(c)
      PROVE  UNCHANGED metricsVars \/ Abort(c) \/ EnterMetrics(c) \/ Exit(c)
  BY <1>7 DEF Moves, Begin, EnterLimiter, Core, EnterGate, Judge, Inner, Release, metricsVars
<1>8. ASSUME Manages \/ UNCHANGED vars
      PROVE  /\ calls' \in {calls, 0} /\ successes' \in {successes, 0} /\ failed' \in {failed, 0}
             /\ seen' \in {seen, calls, None}
             /\ resetting' \in BOOLEAN /\ torn' \in BOOLEAN /\ metered' = metered
  BY <1>1, <1>8 DEF Manages, SetMax, ResetCalls, ResetSuccesses, LoadCalls, LoadSuccesses,
                    ResetLimiter, Tick, vars, metricsVars
<1>9. CASE \E c \in Callers : Moves(c)
  <2>1. PICK c \in Callers : Moves(c)
    BY <1>9
  <2>2. CASE UNCHANGED metricsVars
    BY <1>1, <1>2, <2>1, <2>2
  <2>3. CASE Abort(c)
    BY <1>1, <1>3, <1>4, <2>1, <2>3
  <2>4. CASE EnterMetrics(c)
    BY <1>1, <1>5, <2>4
  <2>5. CASE Exit(c) /\ ~UNCHANGED metricsVars
    BY <1>1, <1>6, <2>5
  <2> QED BY <1>7, <2>1, <2>2, <2>3, <2>4, <2>5
<1>10. CASE Manages \/ UNCHANGED vars
  BY <1>1, <1>8, <1>10
<1> QED BY <1>9, <1>10, Steps

LEMMA CallersTyped ==
    ASSUME TypeOK, Placed, Placed', [Next]_vars
    PROVE  /\ chain' \in Chains
           /\ pc' \in [Callers -> [at : {"idle", "enter", "judge", "exit", "inner", "release"},
                                   idx : 0..(Len(chain') + 1)]]
           /\ max' \in Quotas /\ peak' \in Quotas /\ cur' \in [Callers -> Nat]
<1>1. /\ chain \in Chains /\ max \in Quotas /\ peak \in Quotas /\ cur \in [Callers -> Nat]
      /\ inflight \in Nat
  BY DEF TypeOK
<1>2. ASSUME NEW c \in Callers, Moves(c)
      PROVE  pc'[c] \in [at : {"idle", "enter", "judge", "exit", "inner", "release"},
                         idx : 0..(Len(chain) + 1)]
  <2>0. Len(chain) \in Nat /\ Len(chain) >= 1 /\ DOMAIN chain = 1..Len(chain)
    BY TheChain
  <2>1. CASE Starts(c) \/ Turns(c) \/ Fails(c) \/ GivesBack(c)
    BY <2>0, <2>1 DEF Starts, Turns, Fails, GivesBack, Idle
  <2>2. CASE Passes(c) \/ Asks(c) \/ Allowed(c)
    <3>1. pc[c].idx \in 1..Len(chain)
      BY <2>0, <2>2 DEF Passes, Asks, Allowed, At
    <3> QED BY <2>0, <2>2, <3>1 DEF Passes, Asks, Allowed
  <2>3. CASE Refused(c) \/ Denied(c)
    BY <2>0, <2>3 DEF Refused, Denied, Returned, Idle
  <2>4. CASE Leaves(c)
    <3>1. pc[c].idx \in 1..Len(chain)
      BY <2>0, <2>4 DEF Leaves
    <3> QED BY <2>0, <2>4, <3>1 DEF Leaves, Returned, Idle
  <2>5. CASE Answers(c)
    <3>1. pc[c].idx \in 0..(Len(chain) + 1)
      BY ThePlace
    <3> QED BY <2>5, <3>1 DEF Answers
  <2> QED BY <1>2, <2>1, <2>2, <2>3, <2>4, <2>5, Course
<1>3. ASSUME NEW c \in Callers, Moves(c)
      PROVE  max' = max /\ peak' \in {peak, Peak(max)} /\ cur' \in [Callers -> Nat]
  <2>1. CASE EnterGate(c) \/ Release(c)
    BY <1>1, <2>1 DEF EnterGate, Release
  <2>2. CASE ~EnterGate(c) /\ ~Release(c)
    <3>1. UNCHANGED gateVars
      BY <1>3, <2>2 DEF Moves, Begin, EnterMetrics, EnterLimiter, Core, Exit, Judge, Inner
    <3> QED BY <1>1, <3>1 DEF gateVars
  <2> QED BY <2>1, <2>2
<1>4. CASE \E c \in Callers : Moves(c)
  <2>1. PICK c \in Callers : Moves(c)
    BY <1>4
  <2>2. chain' = chain /\ pc' = [pc EXCEPT ![c] = pc'[c]]
    BY <2>1, OneMoves
  <2>3. pc' \in [Callers -> [at : {"idle", "enter", "judge", "exit", "inner", "release"},
                             idx : 0..(Len(chain) + 1)]]
    BY <1>2, <2>1, <2>2 DEF TypeOK
  <2> QED BY <1>1, <1>3, <2>1, <2>2, <2>3, PeakGrows
<1>5. CASE Manages \/ UNCHANGED vars
  <2>1. UNCHANGED gateVars \/ SetMax
    BY <1>5 DEF Manages, ResetCalls, ResetSuccesses, LoadCalls, LoadSuccesses, ResetLimiter,
                Tick, vars
  <2>2. max' \in Quotas /\ peak' \in Quotas /\ cur' \in [Callers -> Nat]
    BY <1>1, <2>1, PeakGrows DEF SetMax, gateVars
  <2> QED BY <1>1, <1>5, <2>2, NoneMoves DEF TypeOK
<1> QED BY <1>4, <1>5, Steps

LEMMA IInvInit == Init => IInv
<1> SUFFICES ASSUME Init PROVE IInv
  OBVIOUS
<1>1. /\ chain \in Chains /\ pc = [c \in Callers |-> Idle]
      /\ calls = 0 /\ successes = 0 /\ seen = None /\ resetting = FALSE
      /\ age = 0 /\ count = 0 /\ inflight = 0 /\ max \in Quotas /\ cur = [c \in Callers |-> 0]
      /\ peak = max /\ metered = {} /\ failed = 0 /\ torn = FALSE /\ recent = NoRecent
  BY DEF Init
<1>2. \A c \in Callers : pc[c].at = "idle" /\ pc[c].idx = 0
  BY <1>1 DEF Idle
<1>3. /\ Limit \in Nat /\ Window \in Nat /\ max \in Nat
      /\ chain \in Seq({"metrics", "limit", "gate"})
  BY <1>1, SettingsAssumption, ChainsAssumption
<1>4. TypeOK
  <2>1. Idle \in [at : {"idle", "enter", "judge", "exit", "inner", "release"},
                  idx : 0..(Len(chain) + 1)]
    BY <1>3 DEF Idle
  <2>2. NoRecent \in [0..Window -> 0..Limit]
    BY <1>3 DEF NoRecent
  <2>3. /\ pc \in [Callers -> [at : {"idle", "enter", "judge", "exit", "inner", "release"},
                              idx : 0..(Len(chain) + 1)]]
        /\ cur \in [Callers -> Nat] /\ recent \in [0..Window -> 0..Limit]
    BY <1>1, <2>1, <2>2
  <2>4. /\ calls \in Nat /\ successes \in Nat /\ failed \in Nat /\ inflight \in Nat
        /\ age \in 0..(Window + 1) /\ count \in 0..Limit
    BY <1>1, <1>3
  <2>5. /\ seen \in Nat \cup {None} /\ resetting \in BOOLEAN /\ torn \in BOOLEAN
        /\ {max, peak} \subseteq Quotas /\ metered \subseteq Callers
    BY <1>1
  <2> QED BY <1>1, <2>3, <2>4, <2>5 DEF TypeOK
<1>5. Placed
  BY <1>2 DEF Placed
<1>6. Cardinality({}) = 0
  BY FS_EmptySet
<1>7. Metering
  BY <1>1, <1>2, <1>6 DEF Metering, Counting, Accounted
<1>8. Limiting
  <2>1. Admissions = {}
    BY <1>1 DEF Admissions, NoRecent
  <2>2. Current = {} /\ Before = {}
    BY <2>1 DEF Current, Before
  <2>3. recent[0] = 0
    BY <1>1, <1>3 DEF NoRecent
  <2> QED BY <1>1, <1>3, <1>6, <2>2, <2>3 DEF Limiting
<1>9. Gating
  <2>1. \A c \in Callers : ~Holding(c) /\ ~Serving(c)
    BY <1>2 DEF Holding, Serving, Past
  <2>2. {c \in Callers : Holding(c)} = {} /\ Contenders = {}
    BY <1>2, <2>1 DEF Contenders
  <2>3. CountExact
    BY <1>1, <1>6, <2>2 DEF CountExact
  <2>4. Ranked
    BY <2>2 DEF Ranked
  <2> QED BY <1>1, <1>3, <2>1, <2>3, <2>4 DEF Gating
<1> QED BY <1>4, <1>5, <1>7, <1>8, <1>9 DEF IInv

LEMMA IInvNext ==
    ASSUME IInv, [Next]_vars
    PROVE  IInv'
<1>1. Placed' /\ Metering' /\ Limiting' /\ Gating'
  BY PlacedInv, MeterInv, LimitInv, GateInv DEF IInv
<1>2. inflight' \in Nat
  <2>1. inflight' = Cardinality({c \in Callers : Holding(c)'})
    BY <1>1 DEF Gating, CountExact
  <2> QED BY <2>1, CountCallers
<1>3. TypeOK'
  BY <1>1, <1>2, CountersTyped, CallersTyped, LimitInv DEF IInv, TypeOK
<1> QED BY <1>1, <1>3 DEF IInv

-----------------------------------------------------------------------------
(* Every reachable state is typed, and its parts hold together.             *)
LEMMA Invariance == Spec => []IInv
<1>1. IInv /\ UNCHANGED vars => IInv'
  BY IInvNext
<1> QED BY IInvInit, IInvNext, <1>1, PTL DEF Spec

(* The types of Governance: no count leaves its range, and the limiter      *)
(* never lets more than its limit through in one tick.                      *)
THEOREM TypeCorrect == Spec => []TypeOK
<1>1. IInv => TypeOK
  BY DEF IInv
<1> QED BY <1>1, Invariance, PTL

(* The fixed-window limiter admits at most twice its limit in any stretch   *)
(* of time as long as the window, whatever the limit, the window and the    *)
(* number of threads.                                                       *)
THEOREM WindowsBound == Spec => []SlidingBound
<1>1. IInv => SlidingBound
  BY SlidingBoundOf DEF IInv
<1> QED BY <1>1, Invariance, PTL

(* Between resets that overlap no execution, every counted execution is a   *)
(* success, a failure or still running.                                     *)
THEOREM CountersBalance == Spec => []Accounted
<1>1. IInv => Accounted
  BY DEF IInv, Metering
<1> QED BY <1>1, Invariance, PTL

(* The count of calls in flight is exact, on every path of a call.          *)
THEOREM SlotsBalance == Spec => []CountExact
<1>1. IInv => CountExact
  BY DEF IInv, Gating
<1> QED BY <1>1, Invariance, PTL

(* A gate that compares a count which may be stale with a limit that may    *)
(* have changed never serves more calls than a limit allowed.               *)
THEOREM GateHonoursLimit == Spec => []LimitHonoured
<1>1. IInv => LimitHonoured
  BY HonouredOf DEF IInv
<1> QED BY <1>1, Invariance, PTL
=============================================================================
