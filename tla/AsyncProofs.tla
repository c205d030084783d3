---------------------------- MODULE AsyncProofs ----------------------------
(***************************************************************************)
(* Proofs about Async for any chain and any number of tries.  At every     *)
(* point of an attempt the request it works on is a prefix of the whole    *)
(* onion, whose length the task's position tells; the timer can only stop  *)
(* it where a node is suspended, which is before the core.                 *)
(***************************************************************************)
EXTENDS Async, TLAPS

N == Len(Chain)

(* The request an attempt works on, and the first k marks of the onion.     *)
Work == IF how \in Retrying THEN copy ELSE req
Upto(k) == [i \in 1..k |-> Onion[i]]

Entering == pc \in {"enter", "timer", "parked"}

(* How far the attempt has come.                                            *)
Progress ==
    /\ pc \in {"timer", "parked"} => io # "none"
    /\ Entering => /\ idx \in 1..N + 1
                   /\ io # "none" => idx <= N /\ Chain[idx] = "async"
                   /\ Work = Upto(IF io = "none" THEN idx - 1 ELSE idx)
    /\ pc = "exit" => idx \in 0..N /\ Work = Upto(2 * N + 1 - idx)
    /\ pc = "end" /\ result = "ok" => Work = Onion

(* What the other of the two requests keeps.                                *)
Kept ==
    /\ pc = "begin" => req = <<>> /\ (tries = 0 \/ attempt < tries)
    /\ how \in Retrying /\ pc # "done" => req = <<>>
    /\ how = "rollback" /\ pc \notin {"begin", "done"} => copy = <<>>

(* The core runs after the last point where the attempt can fail and be     *)
(* repeated.                                                                *)
Cored ==
    /\ pc = "begin" \/ Entering => cores = 0
    /\ pc = "end" /\ cores = 1 => result \in {"ok", "panic"}

IInv == AsyncTypeOK /\ Progress /\ Kept /\ Cored /\ AllOrNothing /\ CoreAtMostOnce

-----------------------------------------------------------------------------
(* The onion and its beginnings.                                            *)

LEMMA Lengths == N \in Nat /\ Nodes = 1..N /\ \A i \in 1..N : Chain[i] \in {"sync", "async"}
BY CallAssumption DEF N, Nodes

LEMMA MarksOfNodes == \A i \in 1..N : <<"enter", i>> \in Marks /\ <<"exit", i>> \in Marks
<1>1. \A i \in Nodes : <<"enter", i>> \in {"enter", "exit"} \X Nodes
  OBVIOUS
<1>2. \A i \in Nodes : <<"exit", i>> \in {"enter", "exit"} \X Nodes
  OBVIOUS
<1> QED
  BY <1>1, <1>2, Lengths DEF Marks

LEMMA OnionMarks ==
    /\ Onion \in Seq(Marks) /\ DOMAIN Onion = 1..(2 * N + 1)
    /\ \A i \in 1..N : Onion[i] = <<"enter", i>> /\ Onion[2 * N + 2 - i] = <<"exit", i>>
    /\ Onion[N + 1] = <<"core", 0>>
    /\ \A i \in 1..(2 * N + 1) : Onion[i] \in Marks
<1>0. N \in Nat /\ Nodes = 1..N
  BY Lengths
<1>1. Onion = [i \in 1..(2 * N + 1) |-> IF i <= N THEN <<"enter", i>>
                                       ELSE IF i = N + 1 THEN <<"core", 0>>
                                       ELSE <<"exit", 2 * N + 2 - i>>]
  BY DEF Onion, N
<1>2. DOMAIN Onion = 1..(2 * N + 1)
  BY <1>1
<1>3. ASSUME NEW i \in 1..N
      PROVE  Onion[i] = <<"enter", i>> /\ Onion[2 * N + 2 - i] = <<"exit", i>>
  <2>1. /\ i \in 1..(2 * N + 1) /\ i <= N
        /\ 2 * N + 2 - i \in 1..(2 * N + 1) /\ ~(2 * N + 2 - i <= N) /\ 2 * N + 2 - i # N + 1
        /\ 2 * N + 2 - (2 * N + 2 - i) = i
    BY <1>0
  <2>2. Onion[i] = <<"enter", i>>
    BY <1>1, <2>1
  <2>3. Onion[2 * N + 2 - i] = <<"exit", 2 * N + 2 - (2 * N + 2 - i)>>
    BY <1>1, <2>1
  <2> QED
    BY <2>1, <2>2, <2>3
<1>4. Onion[N + 1] = <<"core", 0>>
  <2>1. N + 1 \in 1..(2 * N + 1) /\ ~(N + 1 <= N)
    BY <1>0
  <2> QED
    BY <1>1, <2>1
<1>5. ASSUME NEW i \in 1..(2 * N + 1)
      PROVE  Onion[i] \in Marks
  <2>1. CASE i <= N
    <3>1. i \in 1..N
      BY <1>0, <2>1
    <3> QED
      BY <1>3, <3>1, MarksOfNodes
  <2>2. CASE i = N + 1
    BY <1>4, <2>2 DEF Marks
  <2>3. CASE i > N + 1
    <3>1. PICK j \in 1..N : j = 2 * N + 2 - i
      BY <1>0, <2>3
    <3>2. i = 2 * N + 2 - j
      BY <1>0, <3>1
    <3> QED
      BY <1>3, <3>2, MarksOfNodes
  <2> QED
    BY <1>0, <2>1, <2>2, <2>3
<1>6. Onion \in Seq(Marks)
  <2>1. 2 * N + 1 \in Nat /\ Onion \in [1..(2 * N + 1) -> Marks]
    BY <1>0, <1>1, <1>2, <1>5
  <2> QED
    BY <2>1
<1> QED
  BY <1>2, <1>3, <1>4, <1>5, <1>6

LEMMA Growing ==
    /\ Upto(0) = <<>> /\ Upto(2 * N + 1) = Onion
    /\ \A k \in 0..(2 * N) : Append(Upto(k), Onion[k + 1]) = Upto(k + 1)
<1>0. N \in Nat
  BY Lengths
<1>1. Upto(0) = <<>>
  BY DEF Upto
<1>2. Upto(2 * N + 1) = Onion
  <2>1. Onion = [i \in 1..(2 * N + 1) |-> Onion[i]]
    BY OnionMarks
  <2> QED
    BY <2>1 DEF Upto
<1>3. ASSUME NEW k \in 0..(2 * N)
      PROVE  Append(Upto(k), Onion[k + 1]) = Upto(k + 1)
  <2>1. k \in Nat /\ Onion[k + 1] \in Marks /\ \A i \in 1..k : Onion[i] \in Marks
    BY <1>0, OnionMarks
  <2>2. Upto(k) \in Seq(Marks) /\ Len(Upto(k)) = k /\ \A i \in 1..k : Upto(k)[i] = Onion[i]
    BY <2>1 DEF Upto
  <2>3. PICK u, m : u = Upto(k) /\ m = Onion[k + 1]
    OBVIOUS
  <2>4. u \in Seq(Marks) /\ Len(u) = k /\ \A i \in 1..k : u[i] = Onion[i]
    BY <2>2, <2>3
  <2>5. PICK w : w = Append(u, m)
    OBVIOUS
  <2>6. /\ w \in Seq(Marks) /\ DOMAIN w = 1..(k + 1) /\ w[k + 1] = m
        /\ \A i \in 1..k : w[i] = u[i]
    BY <2>1, <2>3, <2>4, <2>5
  <2>7. w = [i \in 1..(k + 1) |-> w[i]]
    BY <2>6
  <2>8. \A i \in 1..(k + 1) : w[i] = Onion[i]
    BY <2>1, <2>3, <2>4, <2>6
  <2>9. w = [i \in 1..(k + 1) |-> Onion[i]]
    BY <2>7, <2>8
  <2> QED
    BY <2>3, <2>5, <2>9 DEF Upto
<1> QED
  BY <1>1, <1>2, <1>3

(* A mark goes to the request the attempt works on, and only there.         *)
LEMMA Touched ==
    ASSUME NEW mark, Touch(mark), how' = how
    PROVE  /\ Work' = Append(Work, mark)
           /\ how \in Retrying => req' = req
           /\ how \notin Retrying => copy' = copy
BY DEF Touch, Work

LEMMA TouchedType ==
    ASSUME AsyncTypeOK, NEW mark \in Marks, Touch(mark)
    PROVE  req' \in Seq(Marks) /\ copy' \in Seq(Marks)
<1>1. req \in Seq(Marks) /\ copy \in Seq(Marks)
  BY DEF AsyncTypeOK
<1>2. Append(req, mark) \in Seq(Marks) /\ Append(copy, mark) \in Seq(Marks)
  BY <1>1
<1> QED
  BY <1>1, <1>2 DEF Touch

-----------------------------------------------------------------------------
(* The steps of an attempt.                                                 *)

(* The number of tries is fixed, and the timer and the wakers stay in their *)
(* types, whatever step is taken.                                           *)
Timing == /\ expired' \in BOOLEAN /\ woken' \in BOOLEAN
          /\ sleepers' \in Nat /\ stale' \in Nat
          /\ tries' = tries

LEMMA TimerTypes ==
    ASSUME AsyncTypeOK, [AsyncNext]_asyncVars
    PROVE  Timing /\ how' \in Operations /\ how' = how
<1>0. /\ expired \in BOOLEAN /\ woken \in BOOLEAN
      /\ sleepers \in Nat /\ stale \in Nat /\ how \in Operations
  BY DEF AsyncTypeOK
<1>1. how' = how /\ tries' = tries
  BY DEF asyncVars, fixed, AsyncNext, Task, Begin, NoAttempt, EnterSync, StartAsync, PollAsync, Core, Exit, PollTimer,
     Resume, End, Wake, Expire, Ring
<1>2. expired' \in BOOLEAN /\ woken' \in BOOLEAN
  BY <1>0 DEF asyncVars, fixed, AsyncNext, Task, Begin, NoAttempt, EnterSync, StartAsync, PollAsync, Core, Exit, PollTimer,
     Resume, End, Wake, Expire, Ring, Timer
<1>3. /\ sleepers' \in {sleepers, sleepers + 1, 0} \/ (sleepers > 0 /\ sleepers' = sleepers - 1)
      /\ stale' \in {stale, stale + sleepers} \/ (stale > 0 /\ stale' = stale - 1)
  BY DEF asyncVars, fixed, AsyncNext, Task, Begin, NoAttempt, EnterSync, StartAsync, PollAsync, Core, Exit, PollTimer,
     Resume, End, Wake, Expire, Ring, Timer, Sleep
<1>4. sleepers' \in Nat /\ stale' \in Nat
  BY <1>0, <1>3
<1> QED
  BY <1>0, <1>1, <1>2, <1>4 DEF Timing

(* The node at idx has answered: the next one is entered, or the attempt    *)
(* ends with an error before the core.                                      *)
LEMMA NodeAnswered ==
    ASSUME IInv, Timing, how' = how, attempt' = attempt, cores' = cores,
           pc = "enter", idx \in 1..N, NEW code \in Codes, Answered(code),
           req' \in Seq(Marks), copy' \in Seq(Marks), Work' = Upto(idx),
           how \in Retrying => req' = req, how \notin Retrying => copy' = copy
    PROVE  IInv'
<1>0. /\ AsyncTypeOK /\ Kept /\ Cored /\ N \in Nat /\ CoreAtMostOnce
      /\ cores = 0 /\ idx + 1 \in 1..N + 1 /\ idx + 1 - 1 = idx
      /\ io' = "none"
  BY Lengths DEF IInv, Cored, Entering, Answered
<1>1. CASE code = "continue"
  <2>1. idx' = idx + 1 /\ pc' = "enter" /\ result' = result
    BY <1>1 DEF Answered
  <2>2. AsyncTypeOK'
    BY <1>0, <2>1 DEF AsyncTypeOK, Timing, N
  <2>3. Progress'
    BY <1>0, <2>1 DEF Progress, Entering
  <2>4. Kept' /\ Cored' /\ AllOrNothing' /\ CoreAtMostOnce'
    BY <1>0, <2>1 DEF Kept, Cored, Entering, AllOrNothing, CoreAtMostOnce, Retrying
  <2> QED
    BY <2>2, <2>3, <2>4 DEF IInv
<1>2. CASE code # "continue"
  <2>1. idx' = idx /\ pc' = "end" /\ result' \in {"chain", "panic"}
    BY <1>2 DEF Answered, Codes
  <2>2. AsyncTypeOK'
    BY <1>0, <2>1 DEF AsyncTypeOK, Timing, N
  <2>3. Progress'
    BY <1>0, <2>1 DEF Progress, Entering
  <2>4. Kept' /\ Cored' /\ AllOrNothing' /\ CoreAtMostOnce'
    BY <1>0, <2>1 DEF Kept, Cored, Entering, AllOrNothing, CoreAtMostOnce, Retrying
  <2> QED
    BY <2>2, <2>3, <2>4 DEF IInv
<1> QED
  BY <1>1, <1>2

(* A node that is entered for the first time adds its mark.                 *)
LEMMA NodeEntered ==
    ASSUME IInv, how' = how, pc = "enter", io = "none", idx <= Len(Chain), Touch(<<"enter", idx>>)
    PROVE  /\ idx \in 1..N /\ Work' = Upto(idx)
           /\ req' \in Seq(Marks) /\ copy' \in Seq(Marks)
           /\ how \in Retrying => req' = req
           /\ how \notin Retrying => copy' = copy
<1>0. AsyncTypeOK /\ N \in Nat /\ idx \in 1..N + 1
  BY Lengths DEF IInv, Progress, Entering
<1>1. idx \in 1..N /\ idx - 1 \in 0..(2 * N) /\ idx - 1 + 1 = idx
  BY <1>0 DEF N
<1>2. Work = Upto(idx - 1) /\ Onion[idx] = <<"enter", idx>> /\ <<"enter", idx>> \in Marks
  BY <1>1, OnionMarks, MarksOfNodes DEF IInv, Progress, Entering
<1>3. Append(Upto(idx - 1), <<"enter", idx>>) = Upto(idx)
  BY <1>1, <1>2, Growing
<1> QED
  BY <1>0, <1>1, <1>2, <1>3, Touched, TouchedType

LEMMA EnterSyncStep ==
    ASSUME IInv, Timing, how' = how, EnterSync
    PROVE  IInv'
<1>1. /\ pc = "enter" /\ idx <= Len(Chain) /\ Chain[idx] = "sync" /\ Touch(<<"enter", idx>>)
      /\ attempt' = attempt /\ cores' = cores
  BY DEF EnterSync, At
<1>2. io = "none"
  BY <1>1 DEF IInv, Progress, Entering
<1>3. PICK code \in Codes : Answered(code)
  BY DEF EnterSync
<1> QED
  BY <1>1, <1>2, <1>3, NodeEntered, NodeAnswered

(* A node suspends.                                                         *)
LEMMA StartAsyncStep ==
    ASSUME IInv, Timing, how' = how, StartAsync
    PROVE  IInv'
<1>1. /\ pc = "enter" /\ idx <= Len(Chain) /\ Chain[idx] = "async" /\ io = "none"
      /\ Touch(<<"enter", idx>>) /\ attempt' = attempt /\ cores' = cores
  BY DEF StartAsync, At
<1>2. /\ idx \in 1..N /\ Work' = Upto(idx)
      /\ req' \in Seq(Marks) /\ copy' \in Seq(Marks)
      /\ how \in Retrying => req' = req
      /\ how \notin Retrying => copy' = copy
  BY <1>1, NodeEntered
<1>3. CASE \E code \in Codes : Answered(code)
  BY <1>1, <1>2, <1>3, NodeAnswered
<1>4. CASE io' = "pending" /\ pc' = "timer" /\ UNCHANGED <<idx, result>>
  <2>0. AsyncTypeOK /\ Kept /\ Cored /\ CoreAtMostOnce
    BY DEF IInv
  <2>1. AsyncTypeOK'
    BY <1>1, <1>2, <1>4, <2>0 DEF AsyncTypeOK, Timing
  <2>2. Progress'
    <3>1. idx' \in 1..N + 1 /\ idx' <= N
      BY <1>2, <1>4, Lengths
    <3> QED
      BY <1>1, <1>2, <1>4, <3>1 DEF Progress, Entering
  <2>3. Kept' /\ Cored' /\ AllOrNothing' /\ CoreAtMostOnce'
    BY <1>1, <1>2, <1>4, <2>0 DEF Kept, Cored, Entering, AllOrNothing, CoreAtMostOnce, Retrying
  <2> QED
    BY <2>1, <2>2, <2>3 DEF IInv
<1> QED
  BY <1>3, <1>4 DEF StartAsync

(* A step between the suspension of a node and its next poll.               *)
LEMMA Waiting ==
    ASSUME IInv, Timing, how' = how, Entering, Entering', io # "none", io' \in {"pending", "ready"},
           UNCHANGED <<idx, attempt, req, copy, result, cores>>
    PROVE  IInv'
<1>0. AsyncTypeOK /\ Kept /\ Cored /\ CoreAtMostOnce
  BY DEF IInv
<1>1. AsyncTypeOK'
  BY <1>0 DEF AsyncTypeOK, Timing, Entering
<1>2. Progress'
  BY DEF IInv, Progress, Entering, Work
<1>3. Kept' /\ Cored' /\ AllOrNothing' /\ CoreAtMostOnce'
  BY <1>0 DEF Kept, Cored, Entering, AllOrNothing, CoreAtMostOnce, Retrying
<1> QED
  BY <1>1, <1>2, <1>3 DEF IInv

LEMMA PollAsyncStep ==
    ASSUME IInv, Timing, how' = how, PollAsync
    PROVE  IInv'
<1>1. /\ pc = "enter" /\ idx <= Len(Chain) /\ Chain[idx] = "async" /\ io # "none"
      /\ attempt' = attempt /\ cores' = cores /\ req' = req /\ copy' = copy
  BY DEF PollAsync, At
<1>2. idx \in 1..N /\ Work' = Upto(idx) /\ req' \in Seq(Marks) /\ copy' \in Seq(Marks)
  <2>1. idx \in 1..N + 1 /\ idx <= N /\ Work = Upto(idx)
    BY <1>1 DEF IInv, Progress, Entering
  <2>2. Work' = Work
    BY <1>1 DEF Work
  <2>3. req \in Seq(Marks) /\ copy \in Seq(Marks)
    BY DEF IInv, AsyncTypeOK
  <2> QED
    BY <1>1, <2>1, <2>2, <2>3, Lengths
<1>3. CASE io = "ready"
  <2>1. PICK code \in Codes : Answered(code)
    BY <1>3 DEF PollAsync
  <2> QED
    BY <1>1, <1>2, <2>1, NodeAnswered
<1>4. CASE io # "ready"
  <2>1. io' = io /\ io = "pending" /\ pc' = "timer" /\ UNCHANGED <<idx, result>>
    BY <1>1, <1>4 DEF PollAsync, IInv, AsyncTypeOK
  <2> QED
    BY <1>1, <2>1, Waiting DEF Entering
<1> QED
  BY <1>3, <1>4

LEMMA PollTimerStep ==
    ASSUME IInv, Timing, how' = how, PollTimer
    PROVE  IInv'
<1>0. /\ AsyncTypeOK /\ Kept /\ Cored /\ CoreAtMostOnce
      /\ pc = "timer" /\ io' = io /\ io # "none" /\ io \in {"pending", "ready"}
      /\ UNCHANGED <<idx, attempt, req, copy, cores>>
  BY DEF IInv, AsyncTypeOK, Progress, PollTimer
<1>1. CASE pc' = "parked" /\ UNCHANGED result
  BY <1>0, <1>1, Waiting DEF Entering
<1>2. CASE pc' = "end" /\ result' = "timeout"
  <2>1. cores = 0
    BY <1>0 DEF Cored, Entering
  <2>2. AsyncTypeOK'
    BY <1>0, <1>2 DEF AsyncTypeOK, Timing
  <2>3. Progress'
    BY <1>0, <1>2 DEF Progress, Entering
  <2>4. Kept' /\ Cored' /\ AllOrNothing' /\ CoreAtMostOnce'
    BY <1>0, <1>2, <2>1 DEF Kept, Cored, Entering, AllOrNothing, CoreAtMostOnce, Retrying
  <2> QED
    BY <2>2, <2>3, <2>4 DEF IInv
<1> QED
  BY <1>1, <1>2 DEF PollTimer

LEMMA CoreStep ==
    ASSUME IInv, Timing, how' = how, Core
    PROVE  IInv'
<1>0. /\ AsyncTypeOK /\ Kept /\ Cored /\ N \in Nat
      /\ pc = "enter" /\ idx > N /\ Touch(<<"core", 0>>) /\ cores' = cores + 1
      /\ io' = io /\ attempt' = attempt /\ cores = 0
  BY Lengths DEF IInv, Core, N, Cored, Entering
<1>1. idx = N + 1 /\ io = "none" /\ Work = Upto(N)
  <2>1. idx \in 1..N + 1 /\ (io # "none" => idx <= N) /\ (io = "none" => Work = Upto(idx - 1))
    BY <1>0 DEF IInv, Progress, Entering
  <2>2. idx = N + 1 /\ ~(idx <= N) /\ idx - 1 = N
    BY <1>0, <2>1
  <2> QED
    BY <2>1, <2>2
<1>2. /\ Work' = Upto(N + 1)
      /\ req' \in Seq(Marks) /\ copy' \in Seq(Marks)
      /\ how \in Retrying => req' = req
      /\ how \notin Retrying => copy' = copy
  <2>1. <<"core", 0>> \in Marks
    BY DEF Marks
  <2>2. Append(Upto(N), <<"core", 0>>) = Upto(N + 1)
    <3>1. N \in 0..(2 * N)
      BY <1>0
    <3> QED
      BY <3>1, Growing, OnionMarks
  <2> QED
    BY <1>0, <1>1, <2>1, <2>2, Touched, TouchedType
<1>3. cores' = 1
  BY <1>0
<1>4. CASE pc' = "exit" /\ idx' = Len(Chain) /\ UNCHANGED result
  <2>1. AsyncTypeOK'
    BY <1>0, <1>2, <1>3, <1>4 DEF AsyncTypeOK, Timing, N
  <2>2. Progress'
    <3>1. idx' \in 0..N /\ 2 * N + 1 - idx' = N + 1
      BY <1>0, <1>4 DEF N
    <3> QED
      BY <1>2, <1>4, <3>1 DEF Progress, Entering
  <2>3. Kept' /\ Cored' /\ AllOrNothing' /\ CoreAtMostOnce'
    BY <1>0, <1>2, <1>3, <1>4 DEF Kept, Cored, Entering, AllOrNothing, CoreAtMostOnce, Retrying
  <2> QED
    BY <2>1, <2>2, <2>3 DEF IInv
<1>5. CASE pc' = "end" /\ result' = "panic" /\ UNCHANGED idx
  <2>1. AsyncTypeOK'
    BY <1>0, <1>2, <1>3, <1>5 DEF AsyncTypeOK, Timing, N
  <2>2. Progress'
    BY <1>5 DEF Progress, Entering
  <2>3. Kept' /\ Cored' /\ AllOrNothing' /\ CoreAtMostOnce'
    BY <1>0, <1>2, <1>3, <1>5 DEF Kept, Cored, Entering, AllOrNothing, CoreAtMostOnce, Retrying
  <2> QED
    BY <2>1, <2>2, <2>3 DEF IInv
<1> QED
  BY <1>4, <1>5 DEF Core

LEMMA ExitStep ==
    ASSUME IInv, Timing, how' = how, Exit
    PROVE  IInv'
<1>0. /\ AsyncTypeOK /\ Kept /\ Cored /\ CoreAtMostOnce /\ N \in Nat
      /\ pc = "exit" /\ io' = io /\ attempt' = attempt /\ cores' = cores
      /\ idx \in 0..N /\ Work = Upto(2 * N + 1 - idx)
  BY Lengths DEF IInv, Exit, Progress
<1>1. CASE idx = 0
  <2>1. pc' = "end" /\ result' = "ok" /\ idx' = idx /\ req' = req /\ copy' = copy
    BY <1>0, <1>1 DEF Exit
  <2>2. AsyncTypeOK'
    BY <1>0, <2>1 DEF AsyncTypeOK, Timing
  <2>3. Work' = Onion
    <3>1. 2 * N + 1 - idx = 2 * N + 1
      BY <1>0, <1>1
    <3> QED
      BY <1>0, <2>1, <3>1, Growing DEF Work
  <2>4. Progress'
    BY <2>1, <2>3 DEF Progress, Entering
  <2>5. Kept' /\ Cored' /\ AllOrNothing' /\ CoreAtMostOnce'
    BY <1>0, <2>1 DEF Kept, Cored, Entering, AllOrNothing, CoreAtMostOnce, Retrying
  <2> QED
    BY <2>2, <2>4, <2>5 DEF IInv
<1>2. CASE idx # 0
  <2>1. Touch(<<"exit", idx>>) /\ idx' = idx - 1
    BY <1>0, <1>2 DEF Exit
  <2>2. /\ idx \in 1..N /\ idx - 1 \in 0..N
        /\ 2 * N + 1 - idx \in 0..(2 * N) /\ (2 * N + 1 - idx) + 1 = 2 * N + 2 - idx
        /\ 2 * N + 1 - (idx - 1) = 2 * N + 2 - idx
    BY <1>0, <1>2
  <2>3. Append(Upto(2 * N + 1 - idx), <<"exit", idx>>) = Upto(2 * N + 2 - idx)
    <3>1. Append(Upto(2 * N + 1 - idx), Onion[(2 * N + 1 - idx) + 1]) = Upto((2 * N + 1 - idx) + 1)
      BY <2>2, Growing
    <3>2. Onion[2 * N + 2 - idx] = <<"exit", idx>>
      BY <2>2, OnionMarks
    <3> QED
      BY <2>2, <3>1, <3>2
  <2>4. /\ Work' = Upto(2 * N + 1 - idx')
        /\ req' \in Seq(Marks) /\ copy' \in Seq(Marks)
        /\ how \in Retrying => req' = req
        /\ how \notin Retrying => copy' = copy
    BY <1>0, <2>1, <2>2, <2>3, Touched, TouchedType, MarksOfNodes
  <2>5. idx' \in 0..N /\ idx' \in 0..N + 1
    BY <1>0, <2>1, <2>2
  <2>6. CASE UNCHANGED <<pc, result>>
    <3>1. AsyncTypeOK'
      BY <1>0, <2>4, <2>5, <2>6 DEF AsyncTypeOK, Timing, N
    <3>2. Progress'
      BY <1>0, <2>4, <2>5, <2>6 DEF Progress, Entering
    <3>3. Kept' /\ Cored' /\ AllOrNothing' /\ CoreAtMostOnce'
      BY <1>0, <2>4, <2>6 DEF Kept, Cored, Entering, AllOrNothing, CoreAtMostOnce, Retrying
    <3> QED
      BY <3>1, <3>2, <3>3 DEF IInv
  <2>7. CASE pc' = "end" /\ result' = "panic"
    <3>1. AsyncTypeOK'
      BY <1>0, <2>4, <2>5, <2>7 DEF AsyncTypeOK, Timing, N
    <3>2. Progress'
      BY <2>7 DEF Progress, Entering
    <3>3. Kept' /\ Cored' /\ AllOrNothing' /\ CoreAtMostOnce'
      BY <1>0, <2>4, <2>7 DEF Kept, Cored, Entering, AllOrNothing, CoreAtMostOnce, Retrying
    <3> QED
      BY <3>1, <3>2, <3>3 DEF IInv
  <2> QED
    BY <1>0, <1>2, <2>6, <2>7 DEF Exit
<1> QED
  BY <1>1, <1>2

(* Nodes becoming ready, time passing and threads waking the task.          *)
LEMMA Around ==
    ASSUME IInv, Timing, io' = io \/ (io = "pending" /\ io' = "ready"),
           UNCHANGED <<how, pc, idx, attempt, req, copy, result, cores>>
    PROVE  IInv'
<1>1. AsyncTypeOK'
  BY DEF IInv, AsyncTypeOK, Timing
<1>2. Progress'
  BY DEF IInv, Progress, Entering, Work
<1>3. Kept' /\ Cored' /\ AllOrNothing' /\ CoreAtMostOnce'
  BY DEF IInv, Kept, Cored, Entering, AllOrNothing, CoreAtMostOnce, Timing
<1> QED
  BY <1>1, <1>2, <1>3 DEF IInv

-----------------------------------------------------------------------------
(* Attempts begin and end.                                                  *)

LEMMA BeginStep ==
    ASSUME IInv, Timing, how' = how, Begin
    PROVE  IInv'
<1>0. /\ AsyncTypeOK /\ pc = "begin" /\ req = <<>> /\ cores = 0 /\ attempt \in Nat
      /\ attempt < tries /\ tries \in Nat /\ tries' = tries
      /\ req' = req /\ cores' = cores /\ idx' = 1 /\ io' = "none" /\ attempt' = attempt + 1
  BY CallAssumption DEF IInv, AsyncTypeOK, Kept, Cored, Begin, Timing
<1>1. /\ how \in Retrying \cup {"rollback"} => copy' = <<>>
      /\ copy' \in Seq(Marks) /\ req' \in Seq(Marks)
  BY <1>0 DEF Begin, Clone, AsyncTypeOK
<1>2. Work' = <<>>
  BY <1>0, <1>1 DEF Work
<1>3. attempt' \in 0..tries' /\ idx' \in 0..Len(Chain) + 1 /\ idx' \in 1..N + 1 /\ idx' - 1 = 0
  BY <1>0, Lengths DEF N
<1>4. /\ pc' \in {"enter", "end"}
      /\ result' \in {"none", "ok", "chain", "timeout", "panic"}
      /\ pc' = "end" => how = "deadline" /\ result' = "chain"
  BY <1>0 DEF Begin, AsyncTypeOK
<1>5. AsyncTypeOK'
  BY <1>0, <1>1, <1>3, <1>4 DEF AsyncTypeOK, Timing
<1>6. Progress'
  BY <1>0, <1>2, <1>3, <1>4, Growing DEF Progress, Entering
<1>7. Kept'
  BY <1>0, <1>1, <1>4 DEF Kept
<1>8. Cored' /\ AllOrNothing' /\ CoreAtMostOnce'
  BY <1>0, <1>4 DEF Cored, Entering, AllOrNothing, CoreAtMostOnce
<1> QED
  BY <1>5, <1>6, <1>7, <1>8 DEF IInv

LEMMA NoAttemptStep ==
    ASSUME IInv, Timing, how' = how, NoAttempt
    PROVE  IInv'
<1>0. /\ AsyncTypeOK /\ req = <<>> /\ cores = 0
      /\ pc' = "done" /\ result' = "chain"
      /\ UNCHANGED <<idx, io, attempt, req, copy, cores>>
  BY DEF IInv, Kept, Cored, NoAttempt
<1>1. AsyncTypeOK'
  BY <1>0 DEF AsyncTypeOK, Timing
<1>2. Progress' /\ Kept' /\ Cored' /\ AllOrNothing' /\ CoreAtMostOnce'
  BY <1>0 DEF Progress, Entering, Kept, Cored, AllOrNothing, CoreAtMostOnce
<1> QED
  BY <1>1, <1>2 DEF IInv

LEMMA EndStep ==
    ASSUME IInv, Timing, how' = how, End
    PROVE  IInv'
<1>0. /\ AsyncTypeOK /\ Kept /\ Cored /\ CoreAtMostOnce /\ pc = "end"
      /\ io' = "none" /\ req' = Settled /\ UNCHANGED <<idx, attempt, copy, cores>>
      /\ pc' = IF Retries THEN "begin" ELSE "done"
      /\ result' = CASE how = "catch" /\ result = "panic" -> "chain"
                     [] how = "or" /\ result = "chain" -> "ok"
                     [] OTHER -> result
      /\ req \in Seq(Marks) /\ copy \in Seq(Marks) /\ cores \in Nat /\ cores <= 1
      /\ result = "ok" => Work = Onion
      /\ cores = 1 => result \in {"ok", "panic"}
  BY DEF IInv, AsyncTypeOK, Progress, Cored, CoreAtMostOnce, End
<1>1. CASE how \in Retrying
  <2>1. result' = result /\ req = <<>>
    BY <1>0, <1>1 DEF Retrying, Kept
  <2>2. req' = IF result = "ok" THEN copy ELSE req
    BY <1>0, <1>1 DEF Settled, Retrying
  <2>3. result = "ok" => copy = Onion
    BY <1>0, <1>1 DEF Work
  <2>4. /\ pc' = "begin" => result \in {"chain", "timeout"} /\ attempt < tries
        /\ pc' \in {"begin", "done"}
    BY <1>0 DEF Retries
  <2>5. AsyncTypeOK'
    BY <1>0, <2>1, <2>2, <2>4 DEF AsyncTypeOK, Timing
  <2>6. Progress'
    BY <2>4 DEF Progress, Entering
  <2>7. Kept'
    BY <1>0, <1>1, <2>1, <2>2, <2>4 DEF Kept, Retrying, Timing
  <2>8. Cored' /\ CoreAtMostOnce'
    <3>1. cores = 0 \/ cores = 1
      BY <1>0
    <3> QED
      BY <1>0, <2>1, <2>4, <3>1 DEF Cored, Entering, CoreAtMostOnce
  <2>9. AllOrNothing'
    BY <1>0, <1>1, <2>1, <2>2, <2>3 DEF AllOrNothing, Retrying
  <2> QED
    BY <2>5, <2>6, <2>7, <2>8, <2>9 DEF IInv
<1>2. CASE how \notin Retrying
  <2>1. pc' = "done"
    BY <1>0, <1>2 DEF Retries
  <2>2. Progress' /\ Kept'
    BY <2>1 DEF Progress, Entering, Kept
  <2>3. cores = 0 \/ cores = 1
    BY <1>0
  <2>4. Cored' /\ CoreAtMostOnce'
    BY <1>0, <2>1, <2>3 DEF Cored, Entering, CoreAtMostOnce
  <2>5. CASE how = "or" /\ result = "chain"
    <3>1. /\ req' = Append(req, <<"fallback", 0>>) /\ result' = "ok"
          /\ <<"fallback", 0>> \in Marks /\ cores = 0
      BY <1>0, <2>3, <2>5 DEF Settled, Retrying, Marks
    <3>2. req' \in Seq(Marks) /\ req'[Len(req')] = <<"fallback", 0>>
      BY <1>0, <3>1
    <3>3. AsyncTypeOK'
      BY <1>0, <2>1, <3>1, <3>2 DEF AsyncTypeOK, Timing
    <3>4. AllOrNothing'
      BY <1>0, <1>2, <2>5, <3>1, <3>2 DEF AllOrNothing
    <3> QED
      BY <2>2, <2>4, <3>3, <3>4 DEF IInv
  <2>6. CASE ~(how = "or" /\ result = "chain")
    <3>1. req' = IF how = "rollback" /\ result \in {"chain", "timeout"} THEN copy ELSE req
      BY <1>0, <1>2, <2>6 DEF Settled
    <3>2. result' = IF how = "catch" /\ result = "panic" THEN "chain" ELSE result
      BY <1>0, <2>6
    <3>3. AsyncTypeOK'
      BY <1>0, <2>1, <3>1, <3>2 DEF AsyncTypeOK, Timing
    <3>4. result = "ok" => req = Onion
      BY <1>0, <1>2 DEF Work
    <3>5. how = "rollback" => copy = <<>>
      BY <1>0 DEF Kept
    <3>6. AllOrNothing'
      BY <1>2, <3>1, <3>2, <3>4, <3>5 DEF AllOrNothing, Onion
    <3> QED
      BY <2>2, <2>4, <3>3, <3>6 DEF IInv
  <2> QED
    BY <2>5, <2>6
<1> QED
  BY <1>1, <1>2

LEMMA Start ==
    ASSUME AsyncInit
    PROVE  IInv
<1>0. /\ MaxTries \in Nat /\ Len(Chain) \in Nat
      /\ tries \in 0..MaxTries \cup {1} /\ tries \in Nat
  BY CallAssumption DEF AsyncInit
<1>1. AsyncTypeOK
  <2>1. idx \in 0..Len(Chain) + 1 /\ attempt \in 0..tries
    BY <1>0 DEF AsyncInit
  <2>2. req \in Seq(Marks) /\ copy \in Seq(Marks)
    BY DEF AsyncInit
  <2>3. {sleepers, stale, cores} \subseteq Nat
    BY DEF AsyncInit
  <2>4. {expired, woken} \subseteq BOOLEAN
    BY DEF AsyncInit
  <2>5. /\ how \in Operations /\ pc = "begin" /\ io = "none" /\ result = "none"
    BY DEF AsyncInit
  <2> QED
    BY <1>0, <2>1, <2>2, <2>3, <2>4, <2>5 DEF AsyncTypeOK
<1>2. attempt = 0 /\ (tries = 0 \/ 0 < tries)
  BY <1>0 DEF AsyncInit
<1> QED
  BY <1>1, <1>2 DEF AsyncInit, IInv, Progress, Entering, Kept, Cored, AllOrNothing, CoreAtMostOnce

LEMMA Inductive == AsyncSpec => []IInv
<1>1. ASSUME IInv, [AsyncNext]_asyncVars
      PROVE  IInv'
  <2>1. Timing /\ how' = how
    BY <1>1, TimerTypes DEF IInv
  <2>2. CASE Resume
    <3>1. /\ pc = "parked" /\ pc' = "enter" /\ io' = io
          /\ UNCHANGED <<idx, attempt, req, copy, result, cores>>
      BY <2>2 DEF Resume
    <3>2. io # "none" /\ io \in {"none", "pending", "ready"}
      BY <1>1, <3>1 DEF IInv, Progress, AsyncTypeOK
    <3> QED
      BY <1>1, <2>1, <3>1, <3>2, Waiting DEF Entering
  <2>3. CASE Task
    BY <1>1, <2>1, <2>2, <2>3, BeginStep, NoAttemptStep, EnterSyncStep, StartAsyncStep, PollAsyncStep, CoreStep,
       ExitStep, PollTimerStep, EndStep DEF Task
  <2>4. CASE Wake \/ Expire \/ Ring \/ UNCHANGED asyncVars
    BY <1>1, <2>1, <2>4, Around DEF Wake, Expire, Ring, asyncVars
  <2> QED
    BY <1>1, <2>3, <2>4 DEF AsyncNext
<1> QED
  BY <1>1, Start, PTL DEF AsyncSpec

(* The state stays in its type; an attempt is never begun beyond the last.  *)
THEOREM TypeCorrect == AsyncSpec => []AsyncTypeOK
<1>1. IInv => AsyncTypeOK
  BY DEF IInv
<1> QED
  BY <1>1, Inductive, PTL

(* A call of any chain that succeeds has done one whole onion to the        *)
(* request, and a retried or rolled back call that fails has done nothing.  *)
THEOREM NothingHalf == AsyncSpec => []AllOrNothing
<1>1. IInv => AllOrNothing
  BY DEF IInv
<1> QED
  BY <1>1, Inductive, PTL

(* No call runs the core twice, and one that answers "timeout" or           *)
(* "rejected" has not run it.                                               *)
THEOREM CoreOnce == AsyncSpec => []CoreAtMostOnce
<1>1. IInv => CoreAtMostOnce
  BY DEF IInv
<1> QED
  BY <1>1, Inductive, PTL
=============================================================================
