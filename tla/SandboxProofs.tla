---------------------------- MODULE SandboxProofs ----------------------------
(***************************************************************************)
(* Proofs about Sandbox for any number of threads, any values and any      *)
(* bounds.  The thread that holds the mutex alone knows what is in the     *)
(* pipes: at each point of its operation there is at most one message      *)
(* between it and a living child, and that message is of its own request.  *)
(***************************************************************************)
EXTENDS Sandbox, SequenceTheorems, TLAPS

Holds(c) == call[c].pc \in {"write", "read", "spawn", "hello", "ack"}

(* The mutex: whoever is inside an operation holds it.                      *)
Excluded == \A c \in Callers : Holds(c) <=> lock = c

(* Requests are numbered apart, and only run numbers them.                  *)
Numbered ==
    /\ \A c \in Callers : call[c].n <= runs
    /\ \A c, d \in Callers : c # d /\ call[c].n # 0 => call[c].n # call[d].n
    /\ \A c \in Callers : call[c].pc \in {"write", "read"} => call[c].n # 0
    /\ \A c \in Callers : call[c].pc \in {"spawn", "hello", "ack"} => call[c].n = 0

(* The pipes of a living child between two operations.                      *)
Quiet == stdin = <<>> /\ stdout = <<>> /\ child = "ready"

(* What the child may have answered to request n.                           *)
Answered(m, n) ==
    \/ m = Torn /\ child = "dead"
    \/ m = Reply(n, IF ~bytes /\ computed[n] = None THEN Sentinel ELSE computed[n])

(* A request is on its way, being worked on, or answered; or the child died. *)
Asked(n) ==
    \/ child = "ready" /\ stdin = <<Request(n)>> /\ stdout = <<>>
    \/ child = "work" /\ job = n /\ stdin = <<>> /\ stdout = <<>>
    \/ /\ (child = "ready" /\ stdin = <<>>) \/ child = "dead"
       /\ \E m \in Messages : stdout = <<m>> /\ Answered(m, n)
    \/ child = "dead" /\ stdout = <<>>

(* A handshake is on its way or answered; or the child died.                *)
Greeted ==
    \/ child = "start" /\ stdin = <<Hello>> /\ stdout = <<>>
    \/ child = "ready" /\ stdin = <<>> /\ stdout = <<Ack>>
    \/ child = "dead" /\ stdout \in {<<>>, <<Ack>>}

(* The pipes and the child at each point of the operation that holds the    *)
(* mutex.                                                                   *)
Pipes ==
    /\ (\A c \in Callers : ~Holds(c)) => child = "dead" \/ Quiet
    /\ \A c \in Callers :
          /\ call[c].pc \in {"write", "spawn"} => child = "dead" \/ Quiet
          /\ call[c].pc = "read" => Asked(call[c].n)
          /\ call[c].pc = "hello" => child \in {"start", "dead"} /\ stdin = <<>> /\ stdout = <<>>
          /\ call[c].pc = "ack" => Greeted

IInv == TypeOK /\ Excluded /\ Numbered /\ Pipes /\ OwnAnswer

Calls == [pc : {"free", "write", "read", "spawn", "hello", "ack", "answered"},
          n : 0..MaxRuns, ok : BOOLEAN, val : Values \cup {None}]

HostMoves(c) == Run(c) \/ Restart(c) \/ HostStep(c)

-----------------------------------------------------------------------------
(* How a thread's operation begins, goes on, ends and is left behind.       *)
Enters(c) ==
    /\ lock = None /\ lock' = c /\ call[c].pc = "free"
    /\ \/ Run(c) /\ call'[c] = Calling("write", runs + 1) /\ runs' = runs + 1
       \/ Restart(c) /\ call'[c] = Calling("spawn", 0) /\ runs' = runs
GoesOn(c) ==
    /\ lock' = lock /\ runs' = runs
    /\ call'[c].n = call[c].n
    /\ \/ Write(c) /\ call[c].pc = "write" /\ call'[c].pc = "read"
       \/ Spawn(c) /\ call[c].pc = "spawn" /\ call'[c].pc = "hello"
       \/ SendHello(c) /\ call[c].pc = "hello" /\ call'[c].pc = "ack"
Returns(c) ==
    /\ lock' = None /\ runs' = runs
    /\ Holds(c) /\ call'[c].pc = "answered" /\ call'[c].n = call[c].n
    /\ Write(c) \/ Read(c) \/ Spawn(c) \/ SendHello(c) \/ AwaitAck(c)
LeavesIt(c) ==
    /\ lock' = lock /\ runs' = runs
    /\ Leave(c) /\ call[c].pc = "answered" /\ call'[c] = Free

(* What one step makes of its thread's call, and of no other's.             *)
LEMMA CallSet ==
    ASSUME TypeOK, NEW c \in Callers, NEW x, call' = [call EXCEPT ![c] = x]
    PROVE  call'[c] = x /\ \A d \in Callers \ {c} : call'[d] = call[d]
BY DEF TypeOK

LEMMA CallAdvanced ==
    ASSUME TypeOK, NEW c \in Callers, NEW x, call' = [call EXCEPT ![c].pc = x]
    PROVE  /\ call'[c].pc = x /\ call'[c].n = call[c].n
           /\ call'[c] = [pc |-> x, n |-> call[c].n, ok |-> call[c].ok, val |-> call[c].val]
           /\ \A d \in Callers \ {c} : call'[d] = call[d]
<1>1. call \in [Callers -> Calls] /\ call[c] \in Calls
  BY DEF TypeOK, Calls
<1>2. [call[c] EXCEPT !.pc = x]
        = [pc |-> x, n |-> call[c].n, ok |-> call[c].ok, val |-> call[c].val]
  BY <1>1 DEF Calls
<1>3. /\ call'[c] = [call[c] EXCEPT !.pc = x]
      /\ \A d \in Callers \ {c} : call'[d] = call[d]
  BY <1>1
<1> QED BY <1>2, <1>3

LEMMA CallReturned ==
    ASSUME TypeOK, NEW c \in Callers, NEW ok, NEW v, Return(c, ok, v)
    PROVE  /\ call'[c].pc = "answered" /\ call'[c].n = call[c].n /\ lock' = None
           /\ call'[c] = [pc |-> "answered", n |-> call[c].n, ok |-> ok, val |-> v]
           /\ \A d \in Callers \ {c} : call'[d] = call[d]
<1>1. /\ call' = [call EXCEPT ![c] = [pc |-> "answered", n |-> call[c].n, ok |-> ok, val |-> v]]
      /\ lock' = None
  BY DEF Return, TypeOK
<1>2. /\ call'[c] = [pc |-> "answered", n |-> call[c].n, ok |-> ok, val |-> v]
      /\ \A d \in Callers \ {c} : call'[d] = call[d]
  BY <1>1, CallSet
<1> QED BY <1>1, <1>2

LEMMA CallFailed ==
    ASSUME TypeOK, NEW c \in Callers, Return(c, FALSE, None)
    PROVE  ~call'[c].ok
BY DEF Return, TypeOK

LEMMA HostCourse ==
    ASSUME TypeOK, NEW c \in Callers, HostMoves(c)
    PROVE  /\ Enters(c) \/ GoesOn(c) \/ Returns(c) \/ LeavesIt(c)
           /\ \A d \in Callers \ {c} : call'[d] = call[d]
           /\ computed' = computed /\ bytes' = bytes
<1>0. computed' = computed /\ bytes' = bytes
  BY DEF HostMoves, HostStep, Run, Restart, Write, Read, Spawn, SendHello, AwaitAck, Leave, Host
<1>1. CASE Run(c)
  <2>1. /\ lock = None /\ lock' = c /\ call[c].pc = "free" /\ runs' = runs + 1
        /\ call' = [call EXCEPT ![c] = Calling("write", runs + 1)]
    BY <1>1 DEF Run
  <2> QED BY <1>0, <1>1, <2>1, CallSet DEF Enters
<1>2. CASE Restart(c)
  <2>1. /\ lock = None /\ lock' = c /\ call[c].pc = "free" /\ runs' = runs
        /\ call' = [call EXCEPT ![c] = Calling("spawn", 0)]
    BY <1>2 DEF Restart
  <2> QED BY <1>0, <1>2, <2>1, CallSet DEF Enters
<1>3. CASE Write(c)
  <2>1. call[c].pc = "write" /\ runs' = runs
    BY <1>3 DEF Write, Host
  <2>2. CASE Return(c, FALSE, None)
    <3>1. /\ call'[c].pc = "answered" /\ call'[c].n = call[c].n /\ lock' = None
          /\ \A d \in Callers \ {c} : call'[d] = call[d]
      BY <2>2, CallReturned
    <3> QED BY <1>0, <1>3, <2>1, <3>1 DEF Returns, Holds
  <2>3. CASE ~Return(c, FALSE, None)
    <3>1. call' = [call EXCEPT ![c].pc = "read"] /\ lock' = lock
      BY <1>3, <2>3 DEF Write
    <3>2. /\ call'[c].pc = "read" /\ call'[c].n = call[c].n
          /\ \A d \in Callers \ {c} : call'[d] = call[d]
      BY <3>1, CallAdvanced
    <3> QED BY <1>0, <1>3, <2>1, <3>1, <3>2 DEF GoesOn
  <2> QED BY <2>2, <2>3
<1>4. CASE Read(c)
  <2>1. call[c].pc = "read" /\ runs' = runs /\ \E ok, v : Return(c, ok, v)
    BY <1>4 DEF Read, Host
  <2>2. /\ call'[c].pc = "answered" /\ call'[c].n = call[c].n /\ lock' = None
        /\ \A d \in Callers \ {c} : call'[d] = call[d]
    BY <2>1, CallReturned
  <2> QED BY <1>0, <1>4, <2>1, <2>2 DEF Returns, Holds
<1>5. CASE Spawn(c)
  <2>1. call[c].pc = "spawn" /\ runs' = runs
    BY <1>5 DEF Spawn, Host
  <2>2. CASE \E ok : Return(c, ok, None)
    <3>1. /\ call'[c].pc = "answered" /\ call'[c].n = call[c].n /\ lock' = None
          /\ \A d \in Callers \ {c} : call'[d] = call[d]
      BY <2>2, CallReturned
    <3> QED BY <1>0, <1>5, <2>1, <3>1 DEF Returns, Holds
  <2>3. CASE ~\E ok : Return(c, ok, None)
    <3>1. call' = [call EXCEPT ![c].pc = "hello"] /\ lock' = lock
      BY <1>5, <2>3 DEF Spawn
    <3>2. /\ call'[c].pc = "hello" /\ call'[c].n = call[c].n
          /\ \A d \in Callers \ {c} : call'[d] = call[d]
      BY <3>1, CallAdvanced
    <3> QED BY <1>0, <1>5, <2>1, <3>1, <3>2 DEF GoesOn
  <2> QED BY <2>2, <2>3
<1>6. CASE SendHello(c)
  <2>1. call[c].pc = "hello" /\ runs' = runs
    BY <1>6 DEF SendHello, Host
  <2>2. CASE Return(c, FALSE, None)
    <3>1. /\ call'[c].pc = "answered" /\ call'[c].n = call[c].n /\ lock' = None
          /\ \A d \in Callers \ {c} : call'[d] = call[d]
      BY <2>2, CallReturned
    <3> QED BY <1>0, <1>6, <2>1, <3>1 DEF Returns, Holds
  <2>3. CASE ~Return(c, FALSE, None)
    <3>1. call' = [call EXCEPT ![c].pc = "ack"] /\ lock' = lock
      BY <1>6, <2>3 DEF SendHello
    <3>2. /\ call'[c].pc = "ack" /\ call'[c].n = call[c].n
          /\ \A d \in Callers \ {c} : call'[d] = call[d]
      BY <3>1, CallAdvanced
    <3> QED BY <1>0, <1>6, <2>1, <3>1, <3>2 DEF GoesOn
  <2> QED BY <2>2, <2>3
<1>7. CASE AwaitAck(c)
  <2>1. call[c].pc = "ack" /\ runs' = runs /\ \E ok : Return(c, ok, None)
    BY <1>7 DEF AwaitAck, Host
  <2>2. /\ call'[c].pc = "answered" /\ call'[c].n = call[c].n /\ lock' = None
        /\ \A d \in Callers \ {c} : call'[d] = call[d]
    BY <2>1, CallReturned
  <2> QED BY <1>0, <1>7, <2>1, <2>2 DEF Returns, Holds
<1>8. CASE Leave(c)
  <2>1. /\ call[c].pc = "answered" /\ runs' = runs /\ lock' = lock
        /\ call' = [call EXCEPT ![c] = Free]
    BY <1>8 DEF Leave, Host
  <2> QED BY <1>0, <1>8, <2>1, CallSet DEF LeavesIt
<1> QED BY <1>1, <1>2, <1>3, <1>4, <1>5, <1>6, <1>7, <1>8 DEF HostMoves, HostStep

(* Steps of the child leave the threads alone.                              *)
LEMMA ChildCourse ==
    ASSUME ChildStep \/ Die \/ UNCHANGED vars
    PROVE  UNCHANGED <<bytes, lock, call, restarts, runs>>
BY DEF ChildStep, Handshake, Take, Process, Die, Host, vars

LEMMA Steps == [Next]_vars => (\E c \in Callers : HostMoves(c)) \/ ChildStep \/ Die \/ UNCHANGED vars
BY DEF Next, HostMoves

-----------------------------------------------------------------------------
LEMMA ExcludedInv ==
    ASSUME TypeOK, Excluded, [Next]_vars
    PROVE  Excluded'
<1>1. ASSUME NEW c \in Callers, HostMoves(c)
      PROVE  Excluded'
  <2>1. \A d \in Callers \ {c} : Holds(d)' <=> Holds(d)
    BY <1>1, HostCourse DEF Holds
  <2>2. \A d \in Callers : d # None
    BY ValuesAssumption
  <2>3. CASE Enters(c)
    <3>1. lock' = c /\ lock = None /\ Holds(c)'
      BY <2>3 DEF Enters, Calling, Holds
    <3> QED BY <2>1, <2>2, <3>1 DEF Excluded
  <2>4. CASE GoesOn(c)
    <3>1. lock' = lock /\ Holds(c)' /\ Holds(c)
      BY <2>4 DEF GoesOn, Holds
    <3> QED BY <2>1, <3>1 DEF Excluded
  <2>5. CASE Returns(c)
    <3>1. lock' = None /\ Holds(c) /\ ~Holds(c)'
      BY <2>5 DEF Returns, Holds
    <3> QED BY <2>1, <2>2, <3>1 DEF Excluded
  <2>6. CASE LeavesIt(c)
    <3>1. lock' = lock /\ ~Holds(c) /\ ~Holds(c)'
      BY <2>6 DEF LeavesIt, Free, Calling, Holds
    <3> QED BY <2>1, <3>1 DEF Excluded
  <2> QED BY <1>1, <2>3, <2>4, <2>5, <2>6, HostCourse
<1>2. CASE ChildStep \/ Die \/ UNCHANGED vars
  BY <1>2, ChildCourse DEF Excluded, Holds
<1> QED BY <1>1, <1>2, Steps

LEMMA NumberedInv ==
    ASSUME TypeOK, Numbered, [Next]_vars
    PROVE  Numbered'
<1>0. runs \in Nat /\ \A c \in Callers : call[c].n \in Nat
  BY ValuesAssumption DEF TypeOK
<1>1. ASSUME NEW c \in Callers, HostMoves(c)
      PROVE  Numbered'
  <2>1. \A d \in Callers \ {c} : call'[d] = call[d]
    BY <1>1, HostCourse
  <2>2. CASE call'[c].n = runs + 1 /\ runs' = runs + 1 /\ call'[c].pc = "write"
    BY <1>0, <2>1, <2>2 DEF Numbered
  <2>3. CASE /\ runs' = runs /\ call'[c].n \in {0, call[c].n}
             /\ call'[c].pc \in {"write", "read"} => call'[c].n # 0
             /\ call'[c].pc \in {"spawn", "hello", "ack"} => call'[c].n = 0
    BY <1>0, <2>1, <2>3 DEF Numbered
  <2>4. CASE Enters(c)
    BY <2>2, <2>3, <2>4 DEF Enters, Calling
  <2>5. CASE GoesOn(c)
    BY <2>3, <2>5 DEF GoesOn, Numbered
  <2>6. CASE Returns(c)
    BY <2>3, <2>6 DEF Returns
  <2>7. CASE LeavesIt(c)
    BY <2>3, <2>7 DEF LeavesIt, Free, Calling
  <2> QED BY <1>1, <2>4, <2>5, <2>6, <2>7, HostCourse
<1>2. CASE ChildStep \/ Die \/ UNCHANGED vars
  BY <1>2, ChildCourse DEF Numbered
<1> QED BY <1>1, <1>2, Steps

-----------------------------------------------------------------------------
(* The messages there are, all of them of different kinds.                  *)
LEMMA TheMessages ==
    /\ Hello \in Messages /\ Ack \in Messages /\ Torn \in Messages
    /\ \A n \in 0..MaxRuns : Request(n) \in Messages /\ Request(n).of = n
    /\ \A n \in 0..MaxRuns, v \in Values \cup {None} : Reply(n, v) \in Messages
    /\ 0 \in 0..MaxRuns
BY ValuesAssumption DEF Messages, Hello, Ack, Torn, Request, Reply

(* Pipes that hold one message at most.                                     *)
LEMMA OneMessage ==
    \A m : /\ Append(<<>>, m) = <<m>> /\ Head(<<m>>) = m /\ Tail(<<m>>) = <<>>
           /\ <<m>> # <<>>
OBVIOUS

LEMMA CallsTyped ==
    ASSUME TypeOK, [Next]_vars
    PROVE  call' \in [Callers -> Calls] /\ runs' \in 0..MaxRuns
<1>0. /\ call \in [Callers -> Calls] /\ runs \in 0..MaxRuns /\ MaxRuns \in Nat
      /\ stdout \in Seq(Messages) /\ \A c \in Callers : call[c].n \in 0..MaxRuns
  BY ValuesAssumption DEF TypeOK, Calls
<1>1. ASSUME NEW c \in Callers, HostMoves(c)
      PROVE  call' \in [Callers -> Calls] /\ runs' \in 0..MaxRuns
  <2>1. CASE Run(c)
    <3>1. runs' = runs + 1 /\ runs < MaxRuns /\ call' = [call EXCEPT ![c] = Calling("write", runs + 1)]
      BY <2>1 DEF Run
    <3>2. runs + 1 \in 0..MaxRuns
      BY <1>0, <3>1
    <3>3. Calling("write", runs + 1) \in Calls
      BY <3>2 DEF Calling, Calls
    <3> QED BY <1>0, <3>1, <3>2, <3>3
  <2>2. CASE Restart(c) \/ Leave(c)
    <3>1. Calling("spawn", 0) \in Calls /\ Free \in Calls
      BY <1>0 DEF Calling, Free, Calls
    <3> QED BY <1>0, <2>2, <3>1 DEF Restart, Leave, Host
  <2>3. ASSUME NEW x \in {"read", "hello", "ack"}, call' = [call EXCEPT ![c].pc = x]
        PROVE  call' \in [Callers -> Calls]
    <3>1. [call[c] EXCEPT !.pc = x] \in Calls
      <4>1. call[c] \in Calls
        BY <1>0
      <4> QED BY <4>1 DEF Calls
    <3> QED BY <1>0, <2>3, <3>1
  <2>4. ASSUME NEW ok \in BOOLEAN, NEW v \in Values \cup {None}, Return(c, ok, v)
        PROVE  call' \in [Callers -> Calls]
    <3>1. call' = [call EXCEPT ![c] = [pc |-> "answered", n |-> call[c].n, ok |-> ok, val |-> v]]
      BY <1>0, <2>4 DEF Return
    <3>2. [pc |-> "answered", n |-> call[c].n, ok |-> ok, val |-> v] \in Calls
      BY <1>0 DEF Calls
    <3> QED BY <1>0, <3>1, <3>2
  <2>5. CASE Write(c) \/ SendHello(c)
    <3>1. \/ Return(c, FALSE, None) \/ call' = [call EXCEPT ![c].pc = "read"]
          \/ call' = [call EXCEPT ![c].pc = "ack"]
      BY <2>5 DEF Write, SendHello
    <3>2. runs' = runs
      BY <2>5 DEF Write, SendHello, Host
    <3> QED BY <1>0, <2>3, <2>4, <3>1, <3>2
  <2>6. CASE Spawn(c)
    <3>1. \/ Return(c, FALSE, None) \/ Return(c, TRUE, None)
          \/ call' = [call EXCEPT ![c].pc = "hello"]
      BY <2>6 DEF Spawn
    <3>2. runs' = runs
      BY <2>6 DEF Spawn, Host
    <3> QED BY <1>0, <2>3, <2>4, <3>1, <3>2
  <2>7. CASE Read(c) \/ AwaitAck(c)
    <3>1. stdout # <<>> => Head(stdout).val \in Values \cup {None}
      <4>1. stdout # <<>> => Head(stdout) \in Messages
        BY <1>0
      <4> QED BY <4>1 DEF Messages
    <3>2. \/ Return(c, FALSE, None)
          \/ stdout # <<>> /\ \E ok \in BOOLEAN : \/ Return(c, ok, Head(stdout).val)
                                                  \/ Return(c, ok, None)
      <4>1. Accepted(Head(stdout)) \in BOOLEAN /\ (Head(stdout) = Ack) \in BOOLEAN
        BY DEF Accepted
      <4> QED BY <2>7, <4>1 DEF Read, AwaitAck
    <3>3. runs' = runs
      BY <2>7 DEF Read, AwaitAck, Host
    <3> QED BY <1>0, <2>4, <3>1, <3>2, <3>3
  <2> QED BY <1>1, <2>1, <2>2, <2>5, <2>6, <2>7 DEF HostMoves, HostStep
<1>2. CASE ChildStep \/ Die \/ UNCHANGED vars
  BY <1>0, <1>2, ChildCourse
<1> QED BY <1>1, <1>2, Steps

(* What a thread's own steps do to the pipes.                               *)
LEMMA PipesOfHost ==
    ASSUME TypeOK, [Next]_vars, Excluded, Numbered, Pipes, NEW c \in Callers, HostMoves(c)
    PROVE  Pipes'
<1>1. /\ \A d \in Callers \ {c} : call'[d] = call[d] /\ (Holds(d)' <=> Holds(d))
      /\ Enters(c) \/ GoesOn(c) \/ Returns(c) \/ LeavesIt(c)
  BY HostCourse DEF Holds
<1>2. call'[c].pc \in {"free", "write", "read", "spawn", "hello", "ack", "answered"}
  BY CallsTyped DEF Calls
<1>3. ASSUME Holds(c) \/ lock = None
      PROVE  \A d \in Callers \ {c} : ~Holds(d)'
  BY <1>1, <1>3, ValuesAssumption DEF Excluded
<1>4. ASSUME Holds(c) \/ lock = None,
             call'[c].pc \in {"write", "spawn", "free", "answered"} => (child = "dead" \/ Quiet)',
             call'[c].pc = "read" => Asked(call[c].n)',
             call'[c].pc = "hello" => (child \in {"start", "dead"} /\ stdin = <<>> /\ stdout = <<>>)',
             call'[c].pc = "ack" => Greeted'
      PROVE  Pipes'
  <2>1. \A d \in Callers \ {c} : call'[d].pc \notin {"write", "read", "spawn", "hello", "ack"}
    BY <1>3, <1>4 DEF Holds
  <2>2. ~Holds(c)' => call'[c].pc \in {"free", "answered"}
    BY <1>2 DEF Holds
  <2> QED BY <1>4, <2>1, <2>2 DEF Pipes
<1>5. CASE Enters(c)
  <2>1. lock = None /\ UNCHANGED <<child, stdin, stdout>>
    BY <1>5 DEF Enters, Run, Restart, Child
  <2>2. child = "dead" \/ Quiet
    BY <2>1, ValuesAssumption DEF Pipes, Excluded
  <2>3. call'[c].pc \in {"write", "spawn"}
    BY <1>5 DEF Enters, Calling
  <2> QED BY <1>4, <2>1, <2>2, <2>3 DEF Quiet
<1>6. CASE LeavesIt(c)
  <2>1. UNCHANGED <<child, job, stdin, stdout, bytes, computed>>
    BY <1>6, HostCourse DEF LeavesIt, Leave, Child
  <2>2. ~Holds(c) /\ ~Holds(c)' /\ call'[c].pc = "free"
    BY <1>6 DEF LeavesIt, Holds, Free, Calling
  <2> QED BY <1>1, <2>1, <2>2 DEF Pipes, Quiet, Asked, Answered, Greeted
<1>7. CASE Write(c) /\ (GoesOn(c) \/ Returns(c))
  <2>1. call[c].pc = "write" /\ UNCHANGED <<child, job, stdout>>
    BY <1>7 DEF Write, Child
  <2>2. child = "dead" \/ Quiet
    BY <2>1 DEF Pipes
  <2>3. CASE child = "dead"
    <3>1. Return(c, FALSE, None)
      BY <1>7, <2>3 DEF Write
    <3> QED BY <1>4, <2>1, <2>3, <3>1, CallReturned DEF Holds
  <2>4. CASE child # "dead"
    <3>1. stdin' = Append(stdin, Request(call[c].n)) /\ call' = [call EXCEPT ![c].pc = "read"]
      BY <1>7, <2>4 DEF Write
    <3>2. call'[c].pc = "read" /\ call'[c].n = call[c].n
      BY <3>1, CallAdvanced
    <3>3. stdin' = <<Request(call[c].n)>> /\ stdout' = <<>> /\ child' = "ready"
      BY <2>1, <2>2, <2>4, <3>1, OneMessage DEF Quiet
    <3>4. Asked(call[c].n)'
      BY <3>2, <3>3 DEF Asked
    <3> QED BY <1>4, <2>1, <3>2, <3>4 DEF Holds
  <2> QED BY <2>3, <2>4
<1>8. CASE Read(c)
  <2>1. call[c].pc = "read" /\ UNCHANGED <<child, job, stdin>>
    BY <1>8 DEF Read, Child
  <2>2. call'[c].pc = "answered"
    <3>1. \E ok, v : Return(c, ok, v)
      BY <1>8 DEF Read
    <3> QED BY <3>1, CallReturned
  <2>3. Asked(call[c].n)
    BY <2>1 DEF Pipes
  <2>4. CASE child = "dead"
    BY <1>4, <2>1, <2>2, <2>4 DEF Holds
  <2>5. CASE child # "dead"
    <3>1. stdout # <<>> /\ stdout' = Tail(stdout)
      BY <1>8, <2>5 DEF Read
    <3>2. child = "ready" /\ stdin = <<>> /\ \E m : stdout = <<m>>
      BY <2>3, <2>5, <3>1 DEF Asked
    <3>3. stdout' = <<>>
      BY <3>1, <3>2, OneMessage
    <3> QED BY <1>4, <2>1, <2>2, <3>2, <3>3 DEF Holds, Quiet
  <2> QED BY <2>4, <2>5
<1>9. CASE Spawn(c)
  <2>1. call[c].pc = "spawn" /\ (child = "dead" \/ Quiet)
    BY <1>9 DEF Spawn, Pipes
  <2>2. CASE Return(c, FALSE, None) /\ UNCHANGED <<Child, stdin, stdout>>
    BY <1>4, <2>1, <2>2, CallReturned DEF Holds, Quiet, Child
  <2>3. CASE ~(Return(c, FALSE, None) /\ UNCHANGED <<Child, stdin, stdout>>)
    <3>1. /\ child' = (IF bytes THEN "start" ELSE "ready") /\ stdin' = <<>> /\ stdout' = <<>>
          /\ IF bytes THEN call' = [call EXCEPT ![c].pc = "hello"] ELSE Return(c, TRUE, None)
      BY <1>9, <2>3 DEF Spawn
    <3>2. CASE bytes
      <4>1. call'[c].pc = "hello"
        <5>1. call' = [call EXCEPT ![c].pc = "hello"]
          BY <3>1, <3>2
        <5> QED BY <5>1, CallAdvanced
      <4> QED BY <1>4, <2>1, <3>1, <3>2, <4>1 DEF Holds
    <3>3. CASE ~bytes
      <4>1. call'[c].pc = "answered"
        BY <3>1, <3>3, CallReturned
      <4> QED BY <1>4, <2>1, <3>1, <3>3, <4>1 DEF Holds, Quiet
    <3> QED BY <3>2, <3>3
  <2> QED BY <2>2, <2>3
<1>10. CASE SendHello(c)
  <2>1. /\ call[c].pc = "hello" /\ UNCHANGED <<child, job, stdout>>
        /\ child \in {"start", "dead"} /\ stdin = <<>> /\ stdout = <<>>
    BY <1>10 DEF SendHello, Child, Pipes
  <2>2. CASE child = "dead"
    <3>1. Return(c, FALSE, None)
      BY <1>10, <2>2 DEF SendHello
    <3> QED BY <1>4, <2>1, <2>2, <3>1, CallReturned DEF Holds
  <2>3. CASE child # "dead"
    <3>1. stdin' = Append(stdin, Hello) /\ call' = [call EXCEPT ![c].pc = "ack"]
      BY <1>10, <2>3 DEF SendHello
    <3>2. call'[c].pc = "ack" /\ stdin' = <<Hello>>
      BY <2>1, <3>1, CallAdvanced, OneMessage
    <3>3. Greeted'
      BY <2>1, <2>3, <3>2 DEF Greeted
    <3> QED BY <1>4, <2>1, <3>2, <3>3 DEF Holds
  <2> QED BY <2>2, <2>3
<1>11. CASE AwaitAck(c)
  <2>1. call[c].pc = "ack" /\ Greeted /\ UNCHANGED <<child, job, stdin>>
    BY <1>11 DEF AwaitAck, Child, Pipes
  <2>2. call'[c].pc = "answered"
    <3>1. \E ok : Return(c, ok, None)
      BY <1>11 DEF AwaitAck
    <3> QED BY <3>1, CallReturned
  <2>3. CASE child = "dead"
    BY <1>4, <2>1, <2>2, <2>3 DEF Holds
  <2>4. CASE child # "dead"
    <3>1. stdout # <<>> /\ stdout' = Tail(stdout)
      BY <1>11, <2>4 DEF AwaitAck
    <3>2. child = "ready" /\ stdin = <<>> /\ stdout' = <<>>
      BY <2>1, <2>4, <3>1, OneMessage DEF Greeted
    <3> QED BY <1>4, <2>1, <2>2, <3>2 DEF Holds, Quiet
  <2> QED BY <2>3, <2>4
<1> QED BY <1>1, <1>5, <1>6, <1>7, <1>8, <1>9, <1>10, <1>11 DEF GoesOn, Returns

(* What the child's steps do to the pipes: while no operation is in the     *)
(* middle, a living child has nothing to do.                                *)
LEMMA PipesOfChild ==
    ASSUME TypeOK, Numbered, Pipes, ChildStep \/ Die
    PROVE  Pipes'
<1>1. call' = call /\ bytes' = bytes /\ \A c \in Callers : Holds(c)' <=> Holds(c)
  BY ChildCourse DEF Holds
<1>2. child # "dead"
  BY DEF ChildStep, Handshake, Take, Process, Die
<1>3. ASSUME ChildStep
      PROVE  ~Quiet
  BY <1>3 DEF ChildStep, Handshake, Take, Process, Quiet
<1>4. CASE Die
  <2>1. child' = "dead" /\ computed' = computed
    BY <1>4 DEF Die
  <2>2. ASSUME NEW c \in Callers, call[c].pc = "read"
        PROVE  Asked(call[c].n)'
    <3>1. Asked(call[c].n)
      BY <2>2 DEF Pipes
    <3>2. CASE stdout = <<>>
      <4>1. stdout' = <<>> \/ stdout' = <<Torn>>
        BY <1>4, <3>2, OneMessage DEF Die
      <4> QED BY <2>1, <4>1, TheMessages DEF Asked, Answered
    <3>3. CASE stdout # <<>>
      <4>1. stdout' = stdout
        BY <1>4, <1>2, <3>1, <3>3 DEF Asked, Die
      <4>2. PICK m \in Messages : stdout = <<m>> /\ Answered(m, call[c].n)
        BY <1>2, <3>1, <3>3 DEF Asked
      <4>3. Answered(m, call[c].n)'
        BY <1>1, <2>1, <4>2 DEF Answered
      <4> QED BY <1>1, <2>1, <4>1, <4>2, <4>3 DEF Asked
    <3> QED BY <3>2, <3>3
  <2>3. ASSUME NEW c \in Callers, call[c].pc = "hello"
        PROVE  stdin' = <<>> /\ stdout' = <<>>
    BY <1>2, <1>4, <2>3 DEF Pipes, Die
  <2>4. ASSUME NEW c \in Callers, call[c].pc = "ack"
        PROVE  Greeted'
    BY <1>2, <1>4, <2>1, <2>4 DEF Pipes, Die, Greeted
  <2> QED BY <1>1, <2>1, <2>2, <2>3, <2>4 DEF Pipes
<1>5. ASSUME ChildStep, NEW c \in Callers, Holds(c)
      PROVE  /\ call[c].pc = "read" \/ (call[c].pc = "ack" /\ Handshake)
             /\ call[c].pc = "read" => Asked(call[c].n)'
             /\ call[c].pc = "ack" => Greeted'
  <2>1. call[c].pc \in {"read", "hello", "ack"}
    BY <1>2, <1>3, <1>5 DEF Pipes, Holds
  <2>2. call[c].pc # "hello"
    BY <1>2, <1>5 DEF Pipes, ChildStep, Handshake, Take, Process
  <2>3. CASE call[c].pc = "ack"
    <3>1. child = "start" /\ stdin = <<Hello>> /\ stdout = <<>> /\ Handshake
      BY <1>2, <1>5, <2>3 DEF Pipes, Greeted, ChildStep, Handshake, Take, Process
    <3>2. child' = "ready" /\ stdin' = <<>> /\ stdout' = <<Ack>>
      BY <3>1, OneMessage DEF Handshake
    <3> QED BY <2>3, <3>1, <3>2 DEF Greeted
  <2>4. CASE call[c].pc = "read"
    <3>0. Asked(call[c].n) /\ call[c].n \in Requests /\ MaxRuns \in Nat
      <4>1. call[c].n \in 0..MaxRuns /\ call[c].n # 0 /\ MaxRuns \in Nat
        BY <2>4, ValuesAssumption DEF TypeOK, Numbered
      <4> QED BY <2>4, <4>1 DEF Pipes, Requests
    <3>1. ~Handshake
      BY <1>2, <3>0 DEF Asked, Handshake
    <3>2. CASE Take
      <4>1. stdin = <<Request(call[c].n)>> /\ stdout = <<>>
        BY <1>2, <3>0, <3>2 DEF Asked, Take
      <4>2. child' = "work" /\ job' = call[c].n /\ stdin' = <<>> /\ stdout' = <<>>
        BY <3>2, <4>1, OneMessage DEF Take, Request
      <4> QED BY <1>1, <2>4, <4>2 DEF Asked
    <3>3. CASE Process
      <4>1. job = call[c].n /\ stdin = <<>> /\ stdout = <<>>
        BY <1>2, <3>0, <3>3 DEF Asked, Process
      <4>2. PICK v \in Values \cup {None} :
                /\ computed' = [computed EXCEPT ![job] = v]
                /\ stdout' = Append(stdout, Reply(job, IF ~bytes /\ v = None THEN Sentinel ELSE v))
        BY <3>3 DEF Process
      <4>m. PICK m : m = Reply(job, IF ~bytes /\ v = None THEN Sentinel ELSE v)
        OBVIOUS
      <4>3. computed'[job] = v
        BY <3>0, <4>1, <4>2 DEF TypeOK
      <4>4. m \in Messages /\ stdout' = <<m>>
        <5>1. (IF ~bytes /\ v = None THEN Sentinel ELSE v) \in Values \cup {None}
          BY ValuesAssumption
        <5>2. job \in 0..MaxRuns
          BY DEF TypeOK
        <5> QED BY <4>m, <4>1, <4>2, <5>1, <5>2, TheMessages, OneMessage
      <4>5. Answered(m, call[c].n)'
        <5>1. call'[c].n = job /\ bytes' = bytes
          BY <1>1, <4>1
        <5>2. m = Reply(call'[c].n, IF ~bytes' /\ computed'[call'[c].n] = None THEN Sentinel
                                    ELSE computed'[call'[c].n])
          BY <4>m, <4>3, <5>1
        <5> QED BY <5>2 DEF Answered
      <4>6. child' = "ready" /\ stdin' = <<>>
        BY <3>3, <4>1 DEF Process
      <4>7. Asked(call[c].n)'
        BY <4>4, <4>5, <4>6 DEF Asked
      <4> QED BY <2>4, <4>7
    <3> QED BY <1>5, <2>4, <3>1, <3>2, <3>3 DEF ChildStep
  <2> QED BY <2>1, <2>2, <2>3, <2>4
<1>6. CASE ChildStep
  <2>1. \E c \in Callers : Holds(c)
    BY <1>2, <1>3, <1>6 DEF Pipes
  <2> QED BY <1>1, <1>5, <1>6, <2>1 DEF Pipes, Holds
<1> QED BY <1>4, <1>6

LEMMA PipesInv ==
    ASSUME TypeOK, Excluded, Numbered, Pipes, [Next]_vars
    PROVE  Pipes'
<1>1. CASE UNCHANGED vars
  BY <1>1 DEF vars, Pipes, Holds, Quiet, Asked, Answered, Greeted
<1> QED BY <1>1, PipesOfHost, PipesOfChild, Steps

-----------------------------------------------------------------------------
(* What is accepted is what the plugin computed, and what is not accepted   *)
(* was refused or, in text mode, is the sentinel.                           *)
LEMMA WhatIsRead ==
    ASSUME TypeOK, Pipes, NEW c \in Callers, Read(c), child # "dead" \/ stdout # <<>>
    PROVE  \E ok, v :
              /\ ok \in BOOLEAN /\ Return(c, ok, v)
              /\ ok => computed[call[c].n] = v
              /\ ~ok => \/ child = "dead"
                        \/ computed[call[c].n] \in {None} \cup IF bytes THEN {} ELSE {Sentinel}
<1>1. call[c].pc = "read" /\ Asked(call[c].n)
  BY DEF Read, Pipes
<1>2. stdout # <<>> /\ Return(c, Accepted(Head(stdout)), Head(stdout).val)
  BY DEF Read
<1>3. PICK m \in Messages : stdout = <<m>> /\ Answered(m, call[c].n)
  BY <1>1, <1>2 DEF Asked
<1>4. Return(c, Accepted(m), m.val) /\ Accepted(m) \in BOOLEAN
  BY <1>2, <1>3, OneMessage DEF Accepted
<1> DEFINE x == computed[call[c].n]
<1>5. CASE m = Torn /\ child = "dead"
  <2>1. ~Accepted(m)
    BY <1>5 DEF Accepted, Torn
  <2> QED BY <1>4, <1>5, <2>1
<1>6. CASE m = Reply(call[c].n, IF ~bytes /\ x = None THEN Sentinel ELSE x)
  <2>1. m.kind = "reply" /\ m.val = IF ~bytes /\ x = None THEN Sentinel ELSE x
    BY <1>6 DEF Reply
  <2>2. Accepted(m) => x = m.val
    BY <2>1 DEF Accepted
  <2>3. ~Accepted(m) => x \in {None} \cup IF bytes THEN {} ELSE {Sentinel}
    BY <2>1 DEF Accepted
  <2> QED BY <1>4, <2>2, <2>3
<1> QED BY <1>3, <1>5, <1>6 DEF Answered

(* The child only computes for the request whose thread waits.              *)
LEMMA ComputesForTheWaiting ==
    ASSUME TypeOK, Numbered, Pipes, NEW c \in Callers, call[c].pc = "answered", call[c].n # 0,
           [Next]_vars
    PROVE  computed'[call[c].n] = computed[call[c].n]
<1>1. CASE ~Process
  BY <1>1, HostCourse, Steps DEF ChildStep, Handshake, Take, Die, vars
<1>2. CASE Process
  <2>1. child = "work"
    BY <1>2 DEF Process
  <2>2. PICK d \in Callers : call[d].pc = "read" /\ job = call[d].n
    <3>1. PICK d \in Callers : Holds(d)
      BY <2>1 DEF Pipes, Quiet
    <3> QED BY <2>1, <3>1 DEF Pipes, Quiet, Asked, Greeted, Holds
  <2>3. call[c].n # job
    BY <2>2 DEF Numbered
  <2> QED BY <1>2, <2>3 DEF Process, TypeOK
<1> QED BY <1>1, <1>2

LEMMA OwnAnswerInv ==
    ASSUME TypeOK, Numbered, Pipes, OwnAnswer, [Next]_vars
    PROVE  OwnAnswer'
<1> SUFFICES ASSUME NEW c \in Callers, call'[c].pc = "answered", call'[c].ok, call'[c].n # 0
             PROVE  computed'[call'[c].n] = call'[c].val
  BY DEF OwnAnswer
<1>1. CASE call'[c] = call[c]
  BY <1>1, ComputesForTheWaiting DEF OwnAnswer
<1>2. CASE call'[c] # call[c]
  <2>1. HostMoves(c)
    BY <1>2, HostCourse, ChildCourse, Steps DEF vars
  <2>2. computed' = computed
    BY <2>1, HostCourse
  <2>3. Returns(c)
    BY <2>1, HostCourse DEF Enters, GoesOn, LeavesIt, Free, Calling
  <2>4. CASE Read(c)
    <3>1. CASE child # "dead" \/ stdout # <<>>
      <4>1. PICK ok, v : ok \in BOOLEAN /\ Return(c, ok, v) /\ (ok => computed[call[c].n] = v)
        BY <2>4, <3>1, WhatIsRead
      <4>2. call'[c].ok = ok /\ call'[c].val = v /\ call'[c].n = call[c].n
        <5>1. call'[c] = [pc |-> "answered", n |-> call[c].n, ok |-> ok, val |-> v]
          BY <4>1, CallReturned
        <5> QED BY <5>1
      <4> QED BY <2>2, <4>1, <4>2
    <3>2. CASE ~(child # "dead" \/ stdout # <<>>)
      <4>1. Return(c, FALSE, None)
        BY <2>4, <3>2 DEF Read
      <4> QED BY <4>1, CallFailed
    <3> QED BY <3>1, <3>2
  <2>5. CASE Write(c)
    <3>1. Return(c, FALSE, None) \/ call' = [call EXCEPT ![c].pc = "read"]
      BY <2>5 DEF Write
    <3>2. CASE Return(c, FALSE, None)
      BY <3>2, CallFailed
    <3>3. CASE call' = [call EXCEPT ![c].pc = "read"]
      <4>1. call'[c].pc = "read"
        BY <3>3, CallAdvanced
      <4> QED BY <4>1
    <3> QED BY <3>1, <3>2, <3>3
  <2>6. CASE Spawn(c) \/ SendHello(c) \/ AwaitAck(c)
    <3>1. call[c].n = 0
      BY <2>6 DEF Spawn, SendHello, AwaitAck, Numbered
    <3> QED BY <2>3, <3>1 DEF Returns
  <2> QED BY <2>3, <2>4, <2>5, <2>6 DEF Returns
<1> QED BY <1>1, <1>2

-----------------------------------------------------------------------------
(* What passes through the pipes.                                           *)
LEMMA PipesTyped ==
    ASSUME TypeOK, Excluded, Numbered, Pipes, [Next]_vars
    PROVE  /\ child' \in {"start", "ready", "work", "dead"}
           /\ job' \in 0..MaxRuns /\ (job' # 0 <=> child' = "work")
           /\ stdin' \in Seq(Messages) /\ stdout' \in Seq(Messages)
           /\ computed' \in [Requests -> Values \cup {None, "nothing"}]
<1>0. /\ child \in {"start", "ready", "work", "dead"}
      /\ job \in 0..MaxRuns /\ (job # 0 <=> child = "work")
      /\ stdin \in Seq(Messages) /\ stdout \in Seq(Messages)
      /\ computed \in [Requests -> Values \cup {None, "nothing"}]
      /\ <<>> \in Seq(Messages) /\ MaxRuns \in Nat
      /\ \A c \in Callers : call[c].n \in 0..MaxRuns
  BY ValuesAssumption DEF TypeOK
<1>1. ASSUME NEW s \in Seq(Messages)
      PROVE  /\ s # <<>> => Head(s) \in Messages /\ Tail(s) \in Seq(Messages)
             /\ \A m \in Messages : Append(s, m) \in Seq(Messages)
  OBVIOUS
<1>2. ASSUME NEW c \in Callers, HostMoves(c)
      PROVE  /\ stdin' \in {stdin, <<>>, Append(stdin, Request(call[c].n)), Append(stdin, Hello)}
             /\ stdout' = stdout \/ stdout' = <<>> \/ (stdout # <<>> /\ stdout' = Tail(stdout))
             /\ \/ UNCHANGED <<child, job>>
                \/ child' \in {"start", "ready"} /\ job' = 0
             /\ computed' = computed
  <2>1. CASE Run(c) \/ Restart(c) \/ Leave(c)
    BY <2>1 DEF Run, Restart, Leave, Child
  <2>2. CASE Write(c) \/ SendHello(c)
    BY <2>2 DEF Write, SendHello, Child
  <2>3. CASE Read(c) \/ AwaitAck(c)
    BY <2>3 DEF Read, AwaitAck, Child
  <2>4. CASE Spawn(c)
    BY <2>4 DEF Spawn, Child
  <2> QED BY <1>2, <2>1, <2>2, <2>3, <2>4 DEF HostMoves, HostStep
<1>3. ASSUME NEW c \in Callers, HostMoves(c)
      PROVE  stdin' \in Seq(Messages) /\ stdout' \in Seq(Messages)
  <2>1. Request(call[c].n) \in Messages /\ Hello \in Messages
    BY <1>0, TheMessages
  <2>2. Append(stdin, Request(call[c].n)) \in Seq(Messages) /\ Append(stdin, Hello) \in Seq(Messages)
    BY <1>0, <1>1, <2>1
  <2>3. stdout # <<>> => Tail(stdout) \in Seq(Messages)
    BY <1>0, <1>1
  <2> QED BY <1>0, <1>2, <1>3, <2>2, <2>3
<1>4. CASE \E c \in Callers : HostMoves(c)
  BY <1>0, <1>2, <1>3, <1>4
<1>5. CASE Handshake
  BY <1>0, <1>1, <1>5, TheMessages DEF Handshake
<1>6. CASE Take
  <2>1. PICK c \in Callers : Holds(c)
    BY <1>6 DEF Take, Pipes, Quiet
  <2>2. call[c].pc = "read" /\ stdin = <<Request(call[c].n)>>
    BY <1>6, <2>1 DEF Take, Pipes, Quiet, Asked, Greeted, Holds
  <2>3. call[c].n # 0 /\ Head(stdin).of = call[c].n
    BY <2>2, <1>0, TheMessages, OneMessage DEF Numbered
  <2> QED BY <1>0, <1>1, <1>6, <2>3 DEF Take
<1>7. CASE Process
  <2>1. PICK v \in Values \cup {None} :
            /\ computed' = [computed EXCEPT ![job] = v]
            /\ stdout' = Append(stdout, Reply(job, IF ~bytes /\ v = None THEN Sentinel ELSE v))
    BY <1>7 DEF Process
  <2>2. (IF ~bytes /\ v = None THEN Sentinel ELSE v) \in Values \cup {None}
    BY ValuesAssumption
  <2>3. stdout' \in Seq(Messages)
    BY <1>0, <1>1, <2>1, <2>2, TheMessages
  <2>4. computed' \in [Requests -> Values \cup {None, "nothing"}]
    BY <1>0, <2>1
  <2> QED BY <1>0, <1>7, <2>3, <2>4 DEF Process
<1>8. CASE Die
  BY <1>0, <1>1, <1>8, TheMessages DEF Die
<1>9. CASE UNCHANGED vars
  BY <1>0, <1>9 DEF vars
<1> QED BY <1>4, <1>5, <1>6, <1>7, <1>8, <1>9, Steps DEF ChildStep

LEMMA TypeInv ==
    ASSUME TypeOK, Excluded, Numbered, Pipes, [Next]_vars
    PROVE  TypeOK'
<1>1. bytes' \in BOOLEAN
  BY HostCourse, ChildCourse, Steps DEF TypeOK
<1>2. lock' \in Callers \cup {None}
  <2>1. ASSUME NEW c \in Callers, HostMoves(c)
        PROVE  lock' \in Callers \cup {None}
    BY <2>1, HostCourse DEF TypeOK, Enters, GoesOn, Returns, LeavesIt
  <2> QED BY <2>1, ChildCourse, Steps DEF TypeOK
<1>3. restarts' \in 0..MaxRestart
  <2>0. restarts \in 0..MaxRestart /\ MaxRestart \in Nat
    BY ValuesAssumption DEF TypeOK
  <2>1. ASSUME NEW c \in Callers, HostMoves(c)
        PROVE  restarts' = restarts \/ (restarts < MaxRestart /\ restarts' = restarts + 1)
    BY <2>1 DEF HostMoves, HostStep, Run, Restart, Write, Read, Spawn, SendHello, AwaitAck,
                Leave, Host
  <2> QED BY <2>0, <2>1, ChildCourse, Steps
<1> QED BY <1>1, <1>2, <1>3, CallsTyped, PipesTyped DEF TypeOK, Calls

LEMMA IInvInit == Init => IInv
<1> SUFFICES ASSUME Init PROVE IInv
  OBVIOUS
<1>1. /\ bytes \in BOOLEAN /\ lock = None /\ call = [c \in Callers |-> Free]
      /\ child = "ready" /\ job = 0 /\ stdin = <<>> /\ stdout = <<>>
      /\ restarts = 0 /\ runs = 0 /\ computed = [n \in Requests |-> "nothing"]
  BY DEF Init
<1>2. \A c \in Callers : call[c].pc = "free" /\ call[c].n = 0
  BY <1>1 DEF Free, Calling
<1>3. MaxRuns \in Nat /\ MaxRestart \in Nat /\ 0 \in 0..MaxRuns /\ 0 \in 0..MaxRestart
  BY ValuesAssumption
<1>4. TypeOK
  <2>1. Free \in Calls
    BY <1>3 DEF Free, Calling, Calls
  <2>2. call \in [Callers -> Calls]
    BY <1>1, <2>1
  <2> QED BY <1>1, <1>3, <2>2 DEF TypeOK, Calls
<1>5. Excluded
  BY <1>1, <1>2, ValuesAssumption DEF Excluded, Holds
<1>6. Numbered /\ Pipes /\ OwnAnswer
  BY <1>1, <1>2 DEF Numbered, Pipes, Quiet, OwnAnswer
<1> QED BY <1>4, <1>5, <1>6 DEF IInv

LEMMA Invariance == Spec => []IInv
<1>1. IInv /\ [Next]_vars => IInv'
  BY TypeInv, ExcludedInv, NumberedInv, PipesInv, OwnAnswerInv DEF IInv
<1> QED BY IInvInit, <1>1, PTL DEF Spec

-----------------------------------------------------------------------------
(* The types of Sandbox; the child only ever takes up numbered requests.    *)
THEOREM TypeCorrect == Spec => []TypeOK
<1>1. IInv => TypeOK
  BY DEF IInv
<1> QED BY <1>1, Invariance, PTL

(* Whoever gets Ok gets what the plugin computed for this very request,     *)
(* with any number of threads, deaths and restarts.                         *)
THEOREM AnswersAreOwn == Spec => []OwnAnswer
<1>1. IInv => OwnAnswer
  BY DEF IInv
<1> QED BY <1>1, Invariance, PTL

(* Between two operations a living child is ready and its pipes are empty.  *)
THEOREM NothingLeftBetween == Spec => []QuietWhenFree
<1>1. IInv => QuietWhenFree
  BY ValuesAssumption DEF IInv, QuietWhenFree, Pipes, Quiet, Excluded
<1> QED BY <1>1, Invariance, PTL

(* A request fails only if the plugin refused it, if the child is dead or,  *)
(* in text mode, if the plugin computed the sentinel.                       *)
THEOREM NoAnswerIsLost == Spec => NoAnswerLost
<1> DEFINE Fair == \A c \in Callers :
         call[c].pc \in {"write", "read"} /\ call'[c].pc = "answered" /\ ~call'[c].ok =>
            \/ child = "dead"
            \/ computed[call[c].n] \in {None} \cup IF bytes THEN {} ELSE {Sentinel}
<1>1. IInv /\ [Next]_vars => [Fair]_vars
  <2> SUFFICES ASSUME IInv, [Next]_vars, NEW c \in Callers,
                      call[c].pc \in {"write", "read"}, call'[c].pc = "answered", ~call'[c].ok,
                      child # "dead"
               PROVE  computed[call[c].n] \in {None} \cup IF bytes THEN {} ELSE {Sentinel}
    OBVIOUS
  <2>1. HostMoves(c)
    BY HostCourse, ChildCourse, Steps DEF vars, IInv
  <2>2. Returns(c)
    BY <2>1, HostCourse DEF IInv, Enters, GoesOn, LeavesIt
  <2>3. Write(c) \/ Read(c)
    BY <2>2 DEF Returns, Spawn, SendHello, AwaitAck
  <2>4. CASE Write(c)
    <3>1. call' = [call EXCEPT ![c].pc = "read"]
      BY <2>4 DEF Write
    <3> QED BY <3>1, CallAdvanced DEF IInv
  <2>5. CASE Read(c)
    <3>1. PICK ok, v :
              /\ ok \in BOOLEAN /\ Return(c, ok, v)
              /\ ~ok => computed[call[c].n] \in {None} \cup IF bytes THEN {} ELSE {Sentinel}
      BY <2>5, WhatIsRead DEF IInv
    <3>2. call'[c] = [pc |-> "answered", n |-> call[c].n, ok |-> ok, val |-> v]
      BY <3>1, CallReturned DEF IInv
    <3> QED BY <3>1, <3>2
  <2> QED BY <2>3, <2>4, <2>5
<1> QED BY <1>1, Invariance, PTL DEF Spec, NoAnswerLost
=============================================================================
