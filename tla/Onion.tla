------------------------------- MODULE Onion -------------------------------
(***************************************************************************)
(* One call through any of the synchronous channels (src/opaque.rs,        *)
(* src/chain.rs over src/dispatch.rs, src/generic.rs, the functions of     *)
(* src/precompiled.rs) or of the control-plane asynchronous ones           *)
(* (src/async_mw.rs, src/async_generic.rs), under each of their wrappers.  *)
(*                                                                         *)
(* All run the nodes inwards, the core, and the nodes outwards.  They      *)
(* differ in what a wrapper keeps of the request, in which panics it       *)
(* catches, and in what a failing core does to the exits.                  *)
(*                                                                         *)
(* A request is the sequence of what has been done to it.                  *)
(***************************************************************************)
EXTENDS Naturals, Sequences

CONSTANTS
    Nodes,    \* length of the chain
    MaxTries  \* bound of the model: n of exec_retry

ASSUME SizeAssumption == Nodes \in Nat /\ MaxTries \in Nat

VARIABLES
    chan,     \* the channel
    op,       \* the operation the caller chose
    tries,    \* n of exec_retry, 1 elsewhere
    pc,       \* where the call is
    idx,      \* the next node to enter, or how many exits are next
    attempt,  \* attempts begun
    req,      \* the caller's request
    work,     \* the request as the nodes of this attempt see it
    result,   \* of the attempt, then of the call
    cause     \* what panicked: "call", "enter", "core", "exit"

fixed == <<chan, op, tries>>
vars == <<fixed, pc, idx, attempt, req, work, result, cause>>

Async == {"async", "async_generic"}
Operations ==
    [opaque |-> {"exec", "trace", "fallible", "or", "deadline", "catch", "retry"},
     ctx |-> {"exec", "or", "catch", "retry"},
     async |-> {"exec", "timeout", "catch", "retry"},
     async_generic |-> {"exec", "catch", "retry"},
     generic |-> {"exec", "catch"},
     precompiled |-> {"exec"}]

(* What exec_retry answers if it makes no attempt: an Err that carries the  *)
(* code of success, or Halted.                                              *)
NoAttempt(c) == IF c = "opaque" THEN "continue" ELSE "halted"

Init ==
    /\ chan \in DOMAIN Operations
    /\ op \in Operations[chan]
    /\ tries \in IF op = "retry" THEN 0..MaxTries ELSE {1}
    /\ pc = "loop" /\ idx = 1 /\ attempt = 0
    /\ req = <<>> /\ work = <<>>
    /\ result = NoAttempt(chan) /\ cause = "none"

(* The opaque chain works on the caller's request unless it retries; the    *)
(* others build a context of their own from it.                             *)
InPlace == chan = "opaque" /\ op # "retry"

Touch(mark) ==
    /\ work' = Append(work, mark)
    /\ req' = IF InPlace THEN Append(req, mark) ELSE req

Fail(r) == pc' = "end" /\ result' = r /\ UNCHANGED cause
Unwind(place) == pc' = "end" /\ result' = "panic" /\ cause' = place

-----------------------------------------------------------------------------
(* Attempts *)

(* What an attempt begins with.                                             *)
Clone == req

(* Mutant of Loop: one attempt too many.                                    *)
LoopLate ==
    /\ pc = "loop"
    /\ op = "trace" => req # <<>>
    /\ IF attempt > tries
       THEN pc' = "done" /\ UNCHANGED <<idx, attempt, work>>
       ELSE pc' = "enter" /\ idx' = 1 /\ attempt' = attempt + 1 /\ work' = Clone
    /\ UNCHANGED <<fixed, req, result, cause>>

Loop ==
    /\ pc = "loop"
    /\ op = "trace" => req # <<>>
    /\ IF attempt = tries
       THEN pc' = "done" /\ UNCHANGED <<idx, attempt, work>>
       ELSE pc' = "enter" /\ idx' = 1 /\ attempt' = attempt + 1 /\ work' = Clone
    /\ UNCHANGED <<fixed, req, result, cause>>

(* exec_with_trace sets the trace id first.                                 *)
SetTrace ==
    /\ op = "trace" /\ req = <<>>
    /\ Touch(<<"trace", 0>>)
    /\ UNCHANGED <<fixed, pc, idx, attempt, result, cause>>

(* exec_with_deadline refuses a request whose deadline is over.             *)
Overdue ==
    /\ op = "deadline" /\ pc = "loop"
    /\ pc' = "done" /\ result' = "rejected"
    /\ UNCHANGED <<fixed, idx, attempt, req, work, cause>>

-----------------------------------------------------------------------------
(* One attempt *)

(* A node that was entered goes on, stops the chain or panics.              *)
Decide ==
    \/ idx' = idx + 1 /\ UNCHANGED <<pc, result, cause>>
    \/ \E r \in {"halted", "rejected"} : Fail(r) /\ UNCHANGED idx
    \/ Unwind("enter") /\ UNCHANGED idx

Enter ==
    /\ chan \notin Async /\ pc = "enter" /\ idx <= Nodes
    /\ Touch(<<"enter", idx>>)
    /\ Decide
    /\ UNCHANGED <<fixed, attempt>>

(* call makes a future, which may panic before there is one, and the future *)
(* is awaited.                                                              *)
Await ==
    /\ chan \in Async /\ pc = "enter" /\ idx <= Nodes
    /\ Touch(<<"enter", idx>>)
    /\ \/ Decide
       \/ Unwind("call") /\ UNCHANGED idx
    /\ UNCHANGED <<fixed, attempt>>

(* The timer of exec_timeout wins while a node is suspended: nothing after  *)
(* the last await can be cancelled.                                         *)
Cancel ==
    /\ op = "timeout" /\ pc = "enter" /\ idx <= Nodes
    /\ Fail("timeout")
    /\ UNCHANGED <<fixed, idx, attempt, req, work>>

(* The core of the opaque chain cannot fail for the chain: what             *)
(* exec_fallible reports is a value that passes through the exits.          *)
OpaqueCore ==
    /\ chan = "opaque" /\ pc = "enter" /\ idx > Nodes
    /\ Touch(<<"core", 0>>)
    /\ \/ /\ pc' = "exit" /\ idx' = 1 /\ UNCHANGED cause
          /\ \/ result' = "ok"
             \/ op = "fallible" /\ result' = "core"
       \/ Unwind("core") /\ UNCHANGED idx
    /\ UNCHANGED <<fixed, attempt>>

(* Elsewhere an error of the core ends the attempt without exits.           *)
Core ==
    /\ chan # "opaque" /\ pc = "enter" /\ idx > Nodes
    /\ Touch(<<"core", 0>>)
    /\ \/ pc' = "exit" /\ idx' = 1 /\ result' = "ok" /\ UNCHANGED cause
       \/ Fail("core") /\ UNCHANGED idx
       \/ Unwind("core") /\ UNCHANGED idx
    /\ UNCHANGED <<fixed, attempt>>

(* The node whose exit is next: from the last to the first, but in a        *)
(* function of compose_chain! from the first to the last.                   *)
Forwards == idx
Backwards == Nodes + 1 - idx
ExitNode == IF chan = "precompiled" THEN Forwards ELSE Backwards

(* A generic node is called a second time and its answer ignored.           *)
Exit ==
    /\ pc = "exit"
    /\ IF idx > Nodes
       THEN pc' = "end" /\ UNCHANGED <<idx, req, work, result, cause>>
       ELSE /\ Touch(<<"exit", ExitNode>>)
            /\ \/ idx' = idx + 1 /\ UNCHANGED <<pc, result, cause>>
               \/ Unwind("exit") /\ UNCHANGED idx
    /\ UNCHANGED <<fixed, attempt>>

-----------------------------------------------------------------------------
(* The end of an attempt *)

(* The synchronous exec_catch surrounds exec.  The asynchronous ones only   *)
(* surround the polls of the nodes' futures and the core.                   *)
Catches == chan \in Async => cause \in {"enter", "core"}

Failed == result \notin {"ok", "panic"}

(* Mutant of RetryEnd: a failed attempt is written back, too.               *)
RetryEndKept ==
    /\ op = "retry"
    /\ req' = IF chan = "opaque" THEN work ELSE req
    /\ pc' = IF Failed THEN "loop" ELSE "done"
    /\ UNCHANGED result

(* exec_retry: a success is answered, and written back to the request of    *)
(* the opaque chain; a failure is tried again; a panic leaves.              *)
RetryEnd ==
    /\ op = "retry"
    /\ req' = IF chan = "opaque" /\ result = "ok" THEN work ELSE req
    /\ pc' = IF Failed THEN "loop" ELSE "done"
    /\ UNCHANGED result

(* exec_or: the fallback gets the request as the opaque chain left it, or   *)
(* the input of the plain chain.                                            *)
OrEnd ==
    /\ op = "or"
    /\ pc' = "done"
    /\ IF Failed
       THEN req' = Append(req, <<"fallback", 0>>) /\ result' = "ok"
       ELSE UNCHANGED <<req, result>>

CatchEnd ==
    /\ op = "catch"
    /\ pc' = "done"
    /\ result' = IF result = "panic" /\ Catches THEN "rejected" ELSE result
    /\ UNCHANGED req

PlainEnd ==
    /\ op \notin {"retry", "or", "catch"}
    /\ pc' = "done" /\ UNCHANGED <<req, result>>

End ==
    /\ pc = "end"
    /\ (RetryEnd \/ OrEnd \/ CatchEnd \/ PlainEnd)
    /\ UNCHANGED <<fixed, idx, attempt, work, cause>>

Next ==
    \/ Loop \/ SetTrace \/ Overdue
    \/ Enter \/ Await \/ Cancel \/ OpaqueCore \/ Core \/ Exit
    \/ End

Spec == Init /\ [][Next]_vars

-----------------------------------------------------------------------------
Marks == ({"enter", "exit"} \X (1..Nodes)) \cup ({"core", "trace", "fallback"} \X {0})

TypeOK ==
    /\ chan \in DOMAIN Operations /\ op \in Operations[chan]
    /\ tries \in 0..MaxTries \cup {1}
    /\ pc \in {"loop", "enter", "exit", "end", "done"}
    /\ idx \in 1..Nodes + 1
    /\ attempt \in 0..tries
    /\ req \in Seq(Marks) /\ work \in Seq(Marks)
    /\ result \in {"continue", "ok", "halted", "rejected", "timeout", "core", "panic"}
    /\ cause \in {"none", "call", "enter", "core", "exit"}

Inwards == [i \in 1..Nodes |-> <<"enter", i>>] \o <<<<"core", 0>>>>
Outwards == [i \in 1..Nodes |-> <<"exit", Nodes + 1 - i>>]
Whole == (IF op = "trace" THEN <<<<"trace", 0>>>> ELSE <<>>) \o Inwards \o Outwards

Ran(mark) == \E i \in DOMAIN work : work[i] = mark
NoExit == \A i \in 1..Nodes : ~Ran(<<"exit", i>>)
FellBack == op = "or" /\ req # <<>> /\ req[Len(req)] = <<"fallback", 0>>

(* Each exit once after the enters and the core, in whatever order.         *)
EachExit ==
    /\ Len(work) = 2 * Nodes + 1
    /\ \A i \in 1..Nodes + 1 : work[i] = Inwards[i]
    /\ \A i \in 1..Nodes : Ran(<<"exit", i>>)

(* A caller can rely on its answer whichever channel and wrapper it came    *)
(* through: Ok means that every node was entered in order, the core ran and *)
(* every node was left, inside out; for a function of compose_chain!, which *)
(* does not keep that order (ExitsInsideOut), it means that every node was  *)
(* left once.  An error of a node, a deadline or a timer means that the     *)
(* core did not run; an error of the core that no exit ran, except in       *)
(* exec_fallible, whose exits take it for a success.                        *)
AnswersTrue ==
    pc = "done" =>
        /\ result = "ok" /\ chan = "precompiled" => EachExit
        /\ result = "ok" /\ chan # "precompiled" => work = Whole \/ (FellBack /\ NoExit)
        /\ result = "core" => IF chan = "opaque" THEN work = Whole ELSE work = Inwards
        /\ result \in {"continue", "halted", "timeout"} => ~Ran(<<"core", 0>>)
        /\ result = "rejected" /\ cause = "none" => ~Ran(<<"core", 0>>)

(* Nothing is left half done where it must not be: failed attempts of a     *)
(* retry leave no trace in the request (opaque.rs:272), a retry stops only  *)
(* at a success, a panic or the last attempt, and the context of the other  *)
(* channels never reaches the caller, so that the fallback of Chain::exec_or *)
(* starts from the original input.  In place the caller's request shows     *)
(* exactly how far the last attempt came.                                   *)
RequestKept ==
    pc = "done" =>
        /\ op = "retry" /\ result \notin {"ok", "panic"} => attempt = tries /\ req = <<>>
        /\ op = "retry" /\ chan = "opaque" /\ result = "ok" => req = Whole
        /\ chan # "opaque" => req = IF FellBack THEN <<<<"fallback", 0>>>> ELSE <<>>
        /\ InPlace => req = IF FellBack THEN Append(work, <<"fallback", 0>>) ELSE work

(* What the source says of every chain (dispatch.rs:7, 187): exits run in   *)
(* the reverse order of the enters.                                         *)
ExitsInsideOut ==
    \A k, l \in DOMAIN work :
        k < l /\ work[k][1] = "exit" /\ work[l][1] = "exit" => work[k][2] > work[l][2]

(* What the source says of exec_catch (async_mw.rs:195): the chain contains *)
(* every panic itself, whatever executor the caller uses.                   *)
CatchIsComplete == pc = "done" /\ op = "catch" => result # "panic"
=============================================================================
