------------------------------ MODULE Parallel ------------------------------
(***************************************************************************)
(* Fan-out of a batch over one chain: Chain::exec_parallel (src/chain.rs)  *)
(* and OpaqueChain::exec_parallel (src/opaque.rs; the asynchronous chain   *)
(* has the same body).  A thread scope spawns one thread per input, joins  *)
(* them in input order and waits for the rest before it returns.  The two  *)
(* differ in what a failed input does: the opaque chain records it and     *)
(* joins on, the plain chain returns at once with the first error.         *)
(*                                                                         *)
(* The names every specification has carry a prefix here, so that a module *)
(* can speak of this one and of Onion, the call of one thread, together.   *)
(***************************************************************************)
EXTENDS Naturals, Sequences

CONSTANTS
    Flavours,  \* subset of {"chain", "opaque"}
    Batch      \* number of inputs

ASSUME BatchAssumption == Batch \in Nat /\ Flavours \subseteq {"chain", "opaque"}

Inputs == 1..Batch
Ended == {"ok", "error", "panic"}

VARIABLES
    flavour,  \* which of the two functions runs
    worker,   \* worker[i]: "new", "running", or how the thread of input i ended
    joined,   \* inputs whose thread the caller has joined
    results,  \* the answers collected so far
    caller    \* "spawning", "joining", "leaving" the scope, or how the call ended

batchVars == <<flavour, worker, joined, results, caller>>

BatchInit ==
    /\ flavour \in Flavours
    /\ worker = [i \in Inputs |-> "new"]
    /\ joined = 0
    /\ results = <<>>
    /\ caller = "spawning"

(* s.spawn for the next input, in order.                                    *)
Spawn ==
    /\ caller = "spawning"
    /\ IF \E i \in Inputs : worker[i] = "new"
       THEN /\ \E i \in Inputs :
                 /\ worker[i] = "new"
                 /\ \A j \in 1..(i - 1) : worker[j] # "new"
                 /\ worker' = [worker EXCEPT ![i] = "running"]
            /\ UNCHANGED caller
       ELSE caller' = "joining" /\ UNCHANGED worker
    /\ UNCHANGED <<flavour, joined, results>>

(* A worker's chain answers, refuses or panics.                             *)
Finish(i) ==
    /\ worker[i] = "running"
    /\ \E e \in Ended : worker' = [worker EXCEPT ![i] = e]
    /\ UNCHANGED <<flavour, joined, results, caller>>

(* Mutants of Answer: the payload is passed on, or a panic counts as Ok.    *)
AnswerRaw(i) == worker[i]
AnswerPanicOk(i) == IF worker[i] = "error" THEN "error" ELSE "ok"

(* h.join() of the next thread, once it has ended.  Joining takes a panic   *)
(* out of the thread's packet and turns it into an error.                   *)
Answer(i) == IF worker[i] = "ok" THEN "ok" ELSE "error"

(* Mutant of Join: the plain chain collects errors as the opaque one does.  *)
JoinOn ==
    /\ caller = "joining"
    /\ joined < Batch
    /\ worker[joined + 1] \in Ended
    /\ joined' = joined + 1
    /\ results' = Append(results, Answer(joined + 1))
    /\ UNCHANGED <<flavour, worker, caller>>

Join ==
    /\ caller = "joining"
    /\ joined < Batch
    /\ worker[joined + 1] \in Ended
    /\ joined' = joined + 1
    /\ IF flavour = "chain" /\ Answer(joined + 1) = "error"
       THEN caller' = "leaving" /\ results' = <<"error">>
       ELSE results' = Append(results, Answer(joined + 1)) /\ UNCHANGED caller
    /\ UNCHANGED <<flavour, worker>>

(* Mutant of AllJoined: the last handle is waited for once more.            *)
AllJoinedLate ==
    /\ caller = "joining"
    /\ joined > Batch
    /\ caller' = "leaving"
    /\ UNCHANGED <<flavour, worker, joined, results>>

AllJoined ==
    /\ caller = "joining"
    /\ joined = Batch
    /\ caller' = "leaving"
    /\ UNCHANGED <<flavour, worker, joined, results>>

(* thread::scope waits for every thread; it panics itself if one that was   *)
(* never joined panicked.                                                   *)
Leave ==
    /\ caller = "leaving"
    /\ \A i \in Inputs : worker[i] \in Ended
    /\ caller' = IF \E i \in Inputs : i > joined /\ worker[i] = "panic"
                 THEN "panicked" ELSE "returned"
    /\ UNCHANGED <<flavour, worker, joined, results>>

CallerStep == Spawn \/ Join \/ AllJoined \/ Leave

BatchNext == CallerStep \/ \E i \in Inputs : Finish(i)

(* The caller runs on, and so does every worker: cores are assumed to end.  *)
BatchSpec ==
    /\ BatchInit /\ [][BatchNext]_batchVars
    /\ WF_batchVars(CallerStep) /\ \A i \in Inputs : WF_batchVars(Finish(i))

-----------------------------------------------------------------------------
Returned == caller \in {"returned", "panicked"}

BatchTypeOK ==
    /\ flavour \in Flavours
    /\ worker \in [Inputs -> Ended \cup {"new", "running"}]
    /\ joined \in 0..Batch
    /\ results \in Seq({"ok", "error"})
    /\ caller \in {"spawning", "joining", "leaving", "returned", "panicked"}

(* The opaque chain answers every input, in input order, and turns exactly  *)
(* the refusals and panics into errors: it never panics itself.             *)
OpaqueAnswersAll ==
    Returned /\ flavour = "opaque" =>
        /\ caller = "returned"
        /\ results = [i \in Inputs |-> IF worker[i] = "ok" THEN "ok" ELSE "error"]

(* The plain chain returns all answers only when every input went well, and *)
(* otherwise the error of the first bad input in input order, whichever     *)
(* thread failed first.                                                     *)
ChainAllOrFirstError ==
    Returned /\ flavour = "chain" =>
        IF \A i \in Inputs : worker[i] = "ok"
        THEN results = [i \in Inputs |-> "ok"]
        ELSE /\ results = <<"error">>
             /\ worker[joined] # "ok"
             /\ \A j \in 1..(joined - 1) : worker[j] = "ok"

(* The call ends, whichever workers fail or panic.                          *)
CallEnds == <>Returned

(* What the source and its test say of a panicking worker (chain.rs:95,     *)
(* tests/parallel.rs:47): the call answers an error.                        *)
PanicBecomesError == caller # "panicked"
=============================================================================
