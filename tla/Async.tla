------------------------------- MODULE Async -------------------------------
(***************************************************************************)
(* One asynchronous call of a chain (src/async_opaque.rs,                  *)
(* OpaqueAsyncChain): exec under its timeouts, rollback, retries, deadline *)
(* check, fallback and catch, with the Timer that wakes the task.          *)
(*                                                                         *)
(* A task is polled, runs until a node suspends, then polls the timer and  *)
(* parks until somebody calls its waker: the suspended node, or one of the *)
(* threads that Timer::poll spawned.  Dropping the future cancels it.      *)
(*                                                                         *)
(* A request is the sequence of what has been done to it.                  *)
(*                                                                         *)
(* The names every specification has carry a prefix here, so that a module *)
(* can speak of this one and of Sandbox together.                          *)
(***************************************************************************)
EXTENDS Naturals, Sequences

CONSTANTS
    Chain,    \* kinds of the nodes: "sync" or "async"
    MaxTries  \* bound of the model: n of exec_retry and exec_retry_timeout

ASSUME CallAssumption ==
    /\ Chain \in Seq({"sync", "async"})
    /\ MaxTries \in Nat

VARIABLES
    how,       \* the operation the caller chose
    tries,     \* n of the retrying operations, 1 elsewhere
    pc,        \* where the task is
    idx,       \* the node that is entered or exited next
    io,        \* what the async node at idx waits for: "none", "pending", "ready"
    attempt,   \* attempts begun
    req,       \* the caller's request
    copy,      \* its clone: the attempt's request, or the rollback snapshot
    expired,   \* the deadline of this attempt's timer has passed
    sleepers,  \* threads that sleep until that deadline
    stale,     \* threads that sleep for timers of earlier attempts
    woken,     \* the waker has been called since the task was last polled
    result,    \* of the attempt, then of the call
    cores      \* history: executions of core in this call

fixed == <<how, tries>>
asyncVars == <<fixed, pc, idx, io, attempt, req, copy, expired, sleepers, stale, woken, result, cores>>

(* exec_timeout_with_deadline is "timeout" with what is left of the         *)
(* request's deadline, which may be nothing.                                *)
Timed == {"timeout", "rollback", "retry_timeout"}
Retrying == {"retry", "retry_timeout"}
Operations == Timed \cup Retrying \cup {"catch", "or", "deadline"}

AsyncInit ==
    /\ how \in Operations
    /\ tries \in IF how \in Retrying THEN 0..MaxTries ELSE {1}
    /\ pc = "begin" /\ idx = 1 /\ io = "none" /\ attempt = 0
    /\ req = <<>> /\ copy = <<>>
    /\ expired = FALSE /\ sleepers = 0 /\ stale = 0 /\ woken = FALSE
    /\ result = "none" /\ cores = 0

(* Retries work on the clone, the other operations on the caller's request. *)
Touch(mark) ==
    IF how \in Retrying
    THEN copy' = Append(copy, mark) /\ UNCHANGED req
    ELSE req' = Append(req, mark) /\ UNCHANGED copy

Timer == <<expired, sleepers, stale>>
At(kind) == pc = "enter" /\ idx <= Len(Chain) /\ Chain[idx] = kind

-----------------------------------------------------------------------------
(* Attempts *)

(* The clone an attempt begins with; the mutant retries on the clone that   *)
(* the attempt before it has changed.                                       *)
CloneKept == IF how = "rollback" \/ attempt = 0 THEN req ELSE copy
Clone == IF how \in Retrying \cup {"rollback"} THEN req ELSE copy

(* The request is cloned, the future made and a new timer started; or the   *)
(* deadline of exec_with_deadline is over and the chain does not run.       *)
Begin ==
    /\ pc = "begin" /\ tries > 0
    /\ attempt' = attempt + 1
    /\ copy' = Clone
    /\ \/ pc' = "enter" /\ UNCHANGED result
       \/ how = "deadline" /\ pc' = "end" /\ result' = "chain"
    /\ idx' = 1 /\ io' = "none"
    /\ expired' = FALSE /\ sleepers' = 0
    /\ UNCHANGED <<fixed, req, stale, woken, cores>>

(* A retry of no attempts answers an error of the chain.                    *)
NoAttempt ==
    /\ pc = "begin" /\ tries = 0
    /\ pc' = "done" /\ result' = "chain"
    /\ UNCHANGED <<fixed, idx, io, attempt, req, copy, Timer, woken, cores>>

(* Whether another attempt follows.  Mutants: one attempt too many, and     *)
(* panics retried as well.                                                  *)
RetriesLate == how \in Retrying /\ result \in {"chain", "timeout"} /\ attempt <= tries
RetriesPanics == how \in Retrying /\ result # "ok" /\ attempt < tries
Retries == how \in Retrying /\ result \in {"chain", "timeout"} /\ attempt < tries

(* What the caller's request becomes: a retry adopts the clone of a         *)
(* successful attempt, a rollback restores its snapshot, and exec_or hands  *)
(* a refused request to the fallback as the chain left it.                  *)
Settled ==
    CASE how \in Retrying /\ result = "ok" -> copy
      [] how = "rollback" /\ result \in {"chain", "timeout"} -> copy
      [] how = "or" /\ result = "chain" -> Append(req, <<"fallback", 0>>)
      [] OTHER -> req

(* The attempt has its result and its future and timer are dropped; sleeping *)
(* threads stay.  A failed attempt is retried or answered.                   *)
End ==
    /\ pc = "end"
    /\ stale' = stale + sleepers
    /\ sleepers' = 0
    /\ io' = "none"
    /\ pc' = IF Retries THEN "begin" ELSE "done"
    /\ req' = Settled
    /\ result' = CASE how = "catch" /\ result = "panic" -> "chain"
                   [] how = "or" /\ result = "chain" -> "ok"
                   [] OTHER -> result
    /\ UNCHANGED <<fixed, idx, attempt, copy, expired, woken, cores>>

-----------------------------------------------------------------------------
(* One poll of exec *)

(* The return code of the node at idx, or its panic.                        *)
Answered(code) ==
    /\ io' = "none"
    /\ IF code = "continue"
       THEN idx' = idx + 1 /\ UNCHANGED <<pc, result>>
       ELSE pc' = "end" /\ result' = code /\ UNCHANGED idx

Codes == {"continue", "chain", "panic"}

EnterSync ==
    /\ At("sync")
    /\ Touch(<<"enter", idx>>)
    /\ \E code \in Codes : Answered(code)
    /\ UNCHANGED <<fixed, attempt, Timer, woken, cores>>

(* The first poll of an async node: it changes the request, and is ready at *)
(* once or suspends.                                                        *)
StartAsync ==
    /\ At("async") /\ io = "none"
    /\ Touch(<<"enter", idx>>)
    /\ \/ \E code \in Codes : Answered(code)
       \/ io' = "pending" /\ pc' = "timer" /\ UNCHANGED <<idx, result>>
    /\ UNCHANGED <<fixed, attempt, Timer, woken, cores>>

(* A later poll of the node.                                                *)
PollAsync ==
    /\ At("async") /\ io # "none"
    /\ IF io = "ready"
       THEN \E code \in Codes : Answered(code)
       ELSE pc' = "timer" /\ UNCHANGED <<idx, io, result>>
    /\ UNCHANGED <<fixed, attempt, req, copy, Timer, woken, cores>>

Core ==
    /\ pc = "enter" /\ idx > Len(Chain)
    /\ Touch(<<"core", 0>>)
    /\ cores' = cores + 1
    /\ \/ pc' = "exit" /\ idx' = Len(Chain) /\ UNCHANGED result
       \/ pc' = "end" /\ result' = "panic" /\ UNCHANGED idx
    /\ UNCHANGED <<fixed, io, attempt, Timer, woken>>

(* The exits run backwards and nothing of them can suspend.                 *)
Exit ==
    /\ pc = "exit"
    /\ IF idx = 0
       THEN pc' = "end" /\ result' = "ok" /\ UNCHANGED <<idx, req, copy>>
       ELSE /\ Touch(<<"exit", idx>>)
            /\ idx' = idx - 1
            /\ \/ UNCHANGED <<pc, result>>
               \/ pc' = "end" /\ result' = "panic"
    /\ UNCHANGED <<fixed, io, attempt, Timer, woken, cores>>

-----------------------------------------------------------------------------
(* Timer and wakers *)

(* Timer::poll before the deadline; the mutant registers no wakeup.         *)
SleepNot == sleepers
Sleep == IF how \in Timed THEN sleepers + 1 ELSE sleepers

(* select polls the timer after exec: it is ready, or one more thread sleeps *)
(* until the deadline.  Without a timer the task just parks.                 *)
PollTimer ==
    /\ pc = "timer"
    /\ IF how \in Timed /\ expired
       THEN pc' = "end" /\ result' = "timeout" /\ UNCHANGED sleepers
       ELSE /\ pc' = "parked"
            /\ sleepers' = Sleep
            /\ UNCHANGED result
    /\ UNCHANGED <<fixed, idx, io, attempt, req, copy, expired, stale, woken, cores>>

Resume ==
    /\ pc = "parked" /\ woken
    /\ woken' = FALSE
    /\ pc' = "enter"
    /\ UNCHANGED <<fixed, idx, io, attempt, req, copy, Timer, result, cores>>

(* What the node waits for happens; it may never do.                        *)
Wake ==
    /\ io = "pending"
    /\ io' = "ready" /\ woken' = TRUE
    /\ UNCHANGED <<fixed, pc, idx, attempt, req, copy, Timer, result, cores>>

Expire ==
    /\ how \in Timed /\ attempt > 0 /\ ~expired
    /\ expired' = TRUE
    /\ UNCHANGED <<fixed, pc, idx, io, attempt, req, copy, sleepers, stale, woken, result, cores>>

Ring ==
    /\ \/ expired /\ sleepers > 0 /\ sleepers' = sleepers - 1 /\ UNCHANGED stale
       \/ stale > 0 /\ stale' = stale - 1 /\ UNCHANGED sleepers
    /\ woken' = TRUE
    /\ UNCHANGED <<fixed, pc, idx, io, attempt, req, copy, expired, result, cores>>

Task == Begin \/ NoAttempt \/ EnterSync \/ StartAsync \/ PollAsync \/ Core \/ Exit \/ PollTimer \/ Resume \/ End

AsyncNext == Task \/ Wake \/ Expire \/ Ring

(* The executor runs a task that is not parked, time passes and sleeping    *)
(* threads wake up.  Nothing makes an async node ready.                     *)
AsyncSpec == AsyncInit /\ [][AsyncNext]_asyncVars /\ WF_asyncVars(Task) /\ WF_asyncVars(Expire) /\ WF_asyncVars(Ring)

-----------------------------------------------------------------------------
Nodes == DOMAIN Chain
Marks == ({"enter", "exit"} \X Nodes) \cup {<<"core", 0>>, <<"fallback", 0>>}

AsyncTypeOK ==
    /\ how \in Operations
    /\ pc \in {"begin", "enter", "timer", "parked", "exit", "end", "done"}
    /\ idx \in 0..Len(Chain) + 1
    /\ io \in {"none", "pending", "ready"}
    /\ tries \in 0..MaxTries \cup {1} /\ attempt \in 0..tries
    /\ req \in Seq(Marks) /\ copy \in Seq(Marks)
    /\ {expired, woken} \subseteq BOOLEAN
    /\ {sleepers, stale, cores} \subseteq Nat
    /\ result \in {"none", "ok", "chain", "timeout", "panic"}

Onion ==
    [i \in 1..2 * Len(Chain) + 1 |->
        IF i <= Len(Chain) THEN <<"enter", i>>
        ELSE IF i = Len(Chain) + 1 THEN <<"core", 0>>
        ELSE <<"exit", 2 * Len(Chain) + 2 - i>>]

(* A call that succeeds has done to the request one whole onion, whatever   *)
(* failed, timed out or was cancelled half way before it, or, in exec_or,   *)
(* the fallback without the core; a retried or rolled back call that fails  *)
(* has done nothing (async_opaque.rs:228-229, 287-289).  A panic unwinds    *)
(* through exec_timeout_rollback before its snapshot is written back, so    *)
(* that case is left out.                                                   *)
AllOrNothing ==
    pc = "done" =>
        /\ result = "ok" =>
              \/ req = Onion
              \/ how = "or" /\ cores = 0 /\ req[Len(req)] = <<"fallback", 0>>
        /\ how \in Retrying /\ result # "ok" => req = <<>>
        /\ how = "rollback" /\ result \in {"chain", "timeout"} => req = <<>>

(* The timer cancels a call only while it is suspended, which is before the *)
(* core: an answer "timeout" or "rejected" means that the core did not run, *)
(* and no call runs it twice, however often it is retried.                  *)
CoreAtMostOnce ==
    /\ cores <= 1
    /\ pc = "done" /\ cores = 1 /\ how # "catch" => result \in {"ok", "panic"}

(* A timed call ends although an async node hangs for ever and although     *)
(* threads of earlier timers wake the task for nothing (332-334): no wakeup *)
(* of the running timer is lost.                                            *)
EndsInTime == how \in Timed ~> pc = "done"
=============================================================================
