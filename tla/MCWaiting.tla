----------------------------- MODULE MCWaiting -----------------------------
(* Calls that wait for somebody else side by side: an asynchronous call     *)
(* that waits for its nodes and timers (Async), and threads that wait for a *)
(* child process (Sandbox).  They share no state, so each behaviour moves   *)
(* one of the two and the other rests: the call where it has ended, the     *)
(* sandbox where it starts.  The chain suspends twice and its last node may *)
(* reject; two threads make three requests and restart the child.           *)
EXTENDS Async, Sandbox

CONSTANTS c1, c2, v, minus999

MCChain == <<"async", "async", "sync">>
MCCallers == {c1, c2}
MCValues == {v, minus999}

(* A retry of no tries, which is over at once.                              *)
TaskOver ==
    /\ how = "retry" /\ tries = 0
    /\ pc = "done" /\ idx = 1 /\ io = "none" /\ attempt = 0
    /\ req = <<>> /\ copy = <<>>
    /\ expired = FALSE /\ sleepers = 0 /\ stale = 0 /\ woken = FALSE
    /\ result = "chain" /\ cores = 0

MCInit == Init /\ AsyncInit

MCNext ==
    \/ AsyncNext /\ UNCHANGED vars
    \/ TaskOver /\ Next /\ UNCHANGED asyncVars

(* The fairness of AsyncSpec and of Sandbox's Spec.                         *)
MCSpec ==
    /\ MCInit /\ [][MCNext]_<<asyncVars, vars>>
    /\ WF_asyncVars(Task) /\ WF_asyncVars(Expire) /\ WF_asyncVars(Ring)
    /\ WF_vars(TaskOver /\ ChildStep)
    /\ \A c \in Callers : WF_vars(TaskOver /\ HostStep(c))
=============================================================================
