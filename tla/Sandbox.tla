------------------------------ MODULE Sandbox ------------------------------
(***************************************************************************)
(* The subprocess sandbox (src/sandbox.rs) and the process it drives       *)
(* (src/bin/mw_exec.rs): threads share one Sandbox behind its mutex, write *)
(* a request to the child's stdin and read its reply from stdout, and      *)
(* restart the child.  The child may die at any point.                     *)
(*                                                                         *)
(* A request is named by its caller and its input.  The plugin answers an  *)
(* input with a value, or refuses it.  A pipe is a sequence of messages,   *)
(* and lasts until both ends are dropped.                                  *)
(***************************************************************************)
EXTENDS Naturals, Sequences

CONSTANTS
    Callers,     \* threads of the host
    Values,      \* what a plugin computes
    Sentinel,    \* the value the text protocol uses for a refusal, -999
    MaxRestart,  \* bound of the model: restarts of the child
    MaxRuns,     \* bound of the model: requests
    None

ASSUME ValuesAssumption ==
    /\ Sentinel \in Values
    /\ None \notin Values \cup Callers
    /\ {MaxRestart, MaxRuns} \subseteq Nat

VARIABLES
    bytes,     \* bytes_mode
    lock,      \* the thread that holds the mutex
    call,      \* call[c]: the operation of thread c, its request and its answer
    child,     \* the child process: "start", "ready", "work", "dead"
    job,       \* the request the child works on
    stdin,     \* pipe to the child
    stdout,    \* pipe from the child
    restarts,
    runs,      \* requests begun, and the name of the next one
    computed   \* history: computed[n]: what the plugin did with request n

vars == <<bytes, lock, call, child, job, stdin, stdout, restarts, runs, computed>>

Requests == 1..MaxRuns
Ack == [kind |-> "ack", of |-> 0, val |-> None]
Hello == [kind |-> "hello", of |-> 0, val |-> None]
Request(n) == [kind |-> "request", of |-> n, val |-> None]
Reply(n, v) == [kind |-> "reply", of |-> n, val |-> v]
Torn == [kind |-> "torn", of |-> 0, val |-> None]

Calling(pc, n) == [pc |-> pc, n |-> n, ok |-> FALSE, val |-> None]
Free == Calling("free", 0)

(* spawn and spawn_bytes return once the child runs, in bytes mode once its *)
(* handshake is done.                                                       *)
Init ==
    /\ bytes \in BOOLEAN
    /\ lock = None
    /\ call = [c \in Callers |-> Free]
    /\ child = "ready" /\ job = 0
    /\ stdin = <<>> /\ stdout = <<>>
    /\ restarts = 0 /\ runs = 0
    /\ computed = [n \in Requests |-> "nothing"]

Host == <<bytes, restarts, runs>>
Child == <<child, job>>

(* The operation returns and its guard unlocks the mutex.                   *)
Return(c, ok, v) ==
    /\ call' = [call EXCEPT ![c] = [pc |-> "answered", n |-> @.n, ok |-> ok, val |-> v]]
    /\ lock' = None

-----------------------------------------------------------------------------
(* run, run_bytes *)

(* Mutant of Run: the mutex is not held from the write to the read.         *)
RunUnlocked(c) ==
    /\ call[c].pc = "free"
    /\ runs < MaxRuns
    /\ runs' = runs + 1
    /\ call' = [call EXCEPT ![c] = Calling("write", runs + 1)]
    /\ UNCHANGED <<bytes, lock, restarts, Child, stdin, stdout, computed>>

Run(c) ==
    /\ call[c].pc = "free"
    /\ lock = None
    /\ runs < MaxRuns
    /\ runs' = runs + 1
    /\ lock' = c
    /\ call' = [call EXCEPT ![c] = Calling("write", runs + 1)]
    /\ UNCHANGED <<bytes, restarts, Child, stdin, stdout, computed>>

(* The pipe of a dead child is broken.                                      *)
Write(c) ==
    /\ call[c].pc = "write"
    /\ IF child = "dead"
       THEN Return(c, FALSE, None) /\ UNCHANGED stdin
       ELSE /\ stdin' = Append(stdin, Request(call[c].n))
            /\ call' = [call EXCEPT ![c].pc = "read"]
            /\ UNCHANGED lock
    /\ UNCHANGED <<Host, Child, stdout, computed>>

(* What run and run_bytes take for Ok; the mutant knows one protocol only.  *)
AcceptedText(m) == m.kind = "reply" /\ m.val \notin {None, Sentinel}
Accepted(m) == m.kind = "reply" /\ m.val # IF bytes THEN None ELSE Sentinel

(* Mutant of Read: the host holds the write end open, so no end of file.    *)
ReadNoEof(c) ==
    /\ call[c].pc = "read"
    /\ stdout # <<>>
    /\ stdout' = Tail(stdout)
    /\ Return(c, Accepted(Head(stdout)), Head(stdout).val)
    /\ UNCHANGED <<Host, Child, stdin, computed>>

(* A read blocks until there is a message or the end of the file, which is  *)
(* an error, as a torn reply is.  In text mode a refusal is a line with the *)
(* sentinel.                                                                *)
Read(c) ==
    /\ call[c].pc = "read"
    /\ \/ stdout = <<>> /\ child = "dead" /\ Return(c, FALSE, None) /\ UNCHANGED stdout
       \/ /\ stdout # <<>>
          /\ stdout' = Tail(stdout)
          /\ Return(c, Accepted(Head(stdout)), Head(stdout).val)
    /\ UNCHANGED <<Host, Child, stdin, computed>>

-----------------------------------------------------------------------------
(* restart *)

Restart(c) ==
    /\ call[c].pc = "free"
    /\ lock = None
    /\ restarts < MaxRestart
    /\ lock' = c
    /\ call' = [call EXCEPT ![c] = Calling("spawn", 0)]
    /\ restarts' = restarts + 1
    /\ UNCHANGED <<bytes, runs, Child, stdin, stdout, computed>>

(* Mutant of Spawn: the old writer is kept, and what waits in it is sent on.*)
SpawnKeepsWriter(c) ==
    /\ call[c].pc = "spawn"
    /\ child' = IF bytes THEN "start" ELSE "ready"
    /\ job' = 0
    /\ stdout' = <<>>
    /\ IF bytes
       THEN call' = [call EXCEPT ![c].pc = "hello"] /\ UNCHANGED lock
       ELSE Return(c, TRUE, None)
    /\ UNCHANGED <<Host, stdin, computed>>

(* A new child with new pipes.  The host drops its ends of the old pipes,   *)
(* so nothing of the old child is read any more.  spawn may fail.           *)
Spawn(c) ==
    /\ call[c].pc = "spawn"
    /\ \/ Return(c, FALSE, None) /\ UNCHANGED <<Child, stdin, stdout>>
       \/ /\ child' = IF bytes THEN "start" ELSE "ready"
          /\ job' = 0
          /\ stdin' = <<>> /\ stdout' = <<>>
          /\ IF bytes
             THEN call' = [call EXCEPT ![c].pc = "hello"] /\ UNCHANGED lock
             ELSE Return(c, TRUE, None)
    /\ UNCHANGED <<Host, computed>>

(* The handshake of bytes mode.                                             *)
SendHello(c) ==
    /\ call[c].pc = "hello"
    /\ IF child = "dead"
       THEN Return(c, FALSE, None) /\ UNCHANGED stdin
       ELSE /\ stdin' = Append(stdin, Hello)
            /\ call' = [call EXCEPT ![c].pc = "ack"]
            /\ UNCHANGED lock
    /\ UNCHANGED <<Host, Child, stdout, computed>>

AwaitAck(c) ==
    /\ call[c].pc = "ack"
    /\ \/ stdout = <<>> /\ child = "dead" /\ Return(c, FALSE, None) /\ UNCHANGED stdout
       \/ stdout # <<>> /\ stdout' = Tail(stdout) /\ Return(c, Head(stdout) = Ack, None)
    /\ UNCHANGED <<Host, Child, stdin, computed>>

(* The thread goes on with its answer.                                      *)
Leave(c) ==
    /\ call[c].pc = "answered"
    /\ call' = [call EXCEPT ![c] = Free]
    /\ UNCHANGED <<Host, lock, Child, stdin, stdout, computed>>

-----------------------------------------------------------------------------
(* mw_exec *)

(* In bytes mode the first message has to be the handshake.                 *)
Handshake ==
    /\ child = "start" /\ stdin # <<>>
    /\ stdin' = Tail(stdin)
    /\ IF Head(stdin) = Hello
       THEN child' = "ready" /\ stdout' = Append(stdout, Ack)
       ELSE child' = "dead" /\ UNCHANGED stdout
    /\ UNCHANGED <<Host, lock, call, job, computed>>

(* Mutant of Take: an executor that knows of no handshake.                  *)
TakeUnshaken ==
    /\ child \in {"start", "ready"} /\ stdin # <<>>
    /\ stdin' = Tail(stdin)
    /\ child' = "work" /\ job' = Head(stdin).of
    /\ UNCHANGED <<Host, lock, call, stdout, computed>>

Take ==
    /\ child = "ready" /\ stdin # <<>>
    /\ stdin' = Tail(stdin)
    /\ child' = "work" /\ job' = Head(stdin).of
    /\ UNCHANGED <<Host, lock, call, stdout, computed>>

(* The plugin transforms or refuses the request; a line of text is written  *)
(* at once.                                                                 *)
Process ==
    /\ child = "work"
    /\ \E v \in Values \cup {None} :
         /\ computed' = [computed EXCEPT ![job] = v]
         /\ stdout' = Append(stdout, Reply(job, IF ~bytes /\ v = None THEN Sentinel ELSE v))
    /\ child' = "ready" /\ job' = 0
    /\ UNCHANGED <<Host, lock, call, stdin>>

(* The child aborts or is killed, in bytes mode possibly between the pieces *)
(* of a reply.                                                              *)
Die ==
    /\ child # "dead"
    /\ child' = "dead" /\ job' = 0
    /\ \/ UNCHANGED stdout
       \/ child = "work" /\ bytes /\ stdout' = Append(stdout, Torn)
    /\ UNCHANGED <<Host, lock, call, stdin, computed>>

HostStep(c) == Write(c) \/ Read(c) \/ Spawn(c) \/ SendHello(c) \/ AwaitAck(c) \/ Leave(c)
ChildStep == Handshake \/ Take \/ Process

Next ==
    \/ \E c \in Callers : Run(c) \/ Restart(c) \/ HostStep(c)
    \/ ChildStep \/ Die

(* The threads of the host run on, and the child reads, and works or dies.  *)
Spec == Init /\ [][Next]_vars /\ WF_vars(ChildStep) /\ \A c \in Callers : WF_vars(HostStep(c))

-----------------------------------------------------------------------------
Messages == [kind : {"ack", "hello", "request", "reply", "torn"}, of : 0..MaxRuns,
             val : Values \cup {None}]

TypeOK ==
    /\ bytes \in BOOLEAN
    /\ lock \in Callers \cup {None}
    /\ call \in [Callers -> [pc : {"free", "write", "read", "spawn", "hello", "ack", "answered"},
                             n : 0..MaxRuns, ok : BOOLEAN, val : Values \cup {None}]]
    /\ child \in {"start", "ready", "work", "dead"}
    /\ job \in 0..MaxRuns /\ (job # 0 <=> child = "work")
    /\ stdin \in Seq(Messages) /\ stdout \in Seq(Messages)
    /\ restarts \in 0..MaxRestart /\ runs \in 0..MaxRuns
    /\ computed \in [Requests -> Values \cup {None, "nothing"}]

(* Whoever gets Ok from run or run_bytes gets what the plugin computed for  *)
(* this very request, whichever requests failed or were cut off before it,  *)
(* also across restarts.                                                    *)
OwnAnswer ==
    \A c \in Callers : call[c].pc = "answered" /\ call[c].ok /\ call[c].n # 0 =>
        computed[call[c].n] = call[c].val

(* A request fails only if the plugin refused it, if the child is dead or,  *)
(* in text mode, if the plugin computed the sentinel: what a living child   *)
(* transformed is never lost.                                               *)
NoAnswerLost ==
    [][\A c \in Callers :
         call[c].pc \in {"write", "read"} /\ call'[c].pc = "answered" /\ ~call'[c].ok =>
            \/ child = "dead"
            \/ computed[call[c].n] \in {None} \cup IF bytes THEN {} ELSE {Sentinel}]_vars

(* Between two operations the pipes of a living child are empty and it      *)
(* waits for a request, its handshake behind it: a restart leaves nothing   *)
(* of the past.                                                             *)
QuietWhenFree ==
    lock = None /\ child # "dead" =>
        stdin = <<>> /\ stdout = <<>> /\ child = "ready"

(* A dead child is noticed: no thread waits for ever on its pipes, and so   *)
(* no other thread on the mutex.                                            *)
Answers == \A c \in Callers : call[c].pc # "free" ~> call[c].pc = "free"
=============================================================================
