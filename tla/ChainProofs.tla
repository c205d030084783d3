---------------------------- MODULE ChainProofs ----------------------------
(***************************************************************************)
(* Proofs about the calls of a chain: one call through any channel (Onion) *)
(* for chains of every length and any number of tries, and a batch of      *)
(* calls (Parallel) of every size.                                         *)
(*                                                                         *)
(* What an attempt has made of the request is always a beginning of all    *)
(* that its channel does, and the call's place says how much of it.        *)
(***************************************************************************)
EXTENDS Onion, Parallel, SequenceTheorems, TLAPS

(* All that a call of operation o through channel c does to a request, mark *)
(* by mark in the order of that channel, and its first k marks.  It is the  *)
(* whole onion (WholeIs) but for a function of compose_chain!, whose exits  *)
(* run forwards.                                                            *)
Lead(o) == IF o = "trace" THEN 1 ELSE 0
Size(o) == Lead(o) + 2 * Nodes + 1
Full(c, o) ==
    [i \in 1..Size(o) |->
        IF i <= Lead(o) THEN <<"trace", 0>>
        ELSE IF i <= Lead(o) + Nodes THEN <<"enter", i - Lead(o)>>
        ELSE IF i = Lead(o) + Nodes + 1 THEN <<"core", 0>>
        ELSE <<"exit", IF c = "precompiled" THEN i - (Lead(o) + Nodes + 1) ELSE Size(o) + 1 - i>>]
Upto(c, o, k) == [i \in 1..k |-> Full(c, o)[i]]

(* How far the attempt has come.                                            *)
Position ==
    /\ \E k \in 0..Size(op) : work = Upto(chan, op, k)
    /\ pc = "enter" => work = Upto(chan, op, Lead(op) + idx - 1)
    /\ pc = "exit" => /\ work = Upto(chan, op, Lead(op) + Nodes + idx)
                      /\ result \in {"ok", "core"}
    /\ op = "trace" /\ pc # "loop" => work # <<>>

(* What the result of an attempt says of it.                                *)
Judged ==
    /\ pc \in {"exit", "end"} /\ result = "core" => chan # "opaque" \/ op = "fallible"
    /\ pc = "exit" /\ result = "core" => chan = "opaque"
    /\ pc = "loop" => result \notin {"ok", "panic"}
    /\ pc = "loop" /\ op # "retry" => result \in {"continue", "halted"}
    /\ pc = "end" /\ result = "ok" => work = Full(chan, op)
    /\ pc \in {"loop", "end"} =>
         /\ result = "core" => IF chan = "opaque" THEN work = Full(chan, op) ELSE work = Inwards
         /\ result \in {"continue", "halted", "timeout", "rejected"} =>
              \E k \in 0..(Lead(op) + Nodes) : work = Upto(chan, op, k)

(* What an attempt leaves of the caller's request.                          *)
Kept ==
    /\ op # "retry" => tries = 1 /\ (pc = "loop" => attempt = 0)
    /\ pc = "loop" => req = <<>> \/ (op = "trace" /\ req = Upto(chan, op, 1))
    /\ pc # "done" => /\ InPlace => req = work
                      /\ ~InPlace => req = <<>>

Panics ==
    /\ pc \in {"loop", "enter", "exit"} => cause = "none"
    /\ pc = "end" => (cause # "none" <=> result = "panic")

CallInv ==
    /\ TypeOK /\ Position /\ Judged /\ Kept /\ Panics
    /\ AnswersTrue /\ RequestKept

-----------------------------------------------------------------------------
(* The whole onion and its beginnings.                                      *)

LEMMA Sizes ==
    /\ Nodes \in Nat
    /\ \A o : Lead(o) \in {0, 1} /\ Size(o) \in Nat /\ Size(o) = Lead(o) + 2 * Nodes + 1
BY SizeAssumption DEF Lead, Size

LEMMA MarksOfNodes ==
    /\ \A i \in 1..Nodes : <<"enter", i>> \in Marks /\ <<"exit", i>> \in Marks
    /\ <<"core", 0>> \in Marks /\ <<"trace", 0>> \in Marks /\ <<"fallback", 0>> \in Marks
<1>1. \A i \in 1..Nodes : /\ <<"enter", i>> \in {"enter", "exit"} \X (1..Nodes)
                          /\ <<"exit", i>> \in {"enter", "exit"} \X (1..Nodes)
  OBVIOUS
<1>2. \A x \in {"core", "trace", "fallback"} : <<x, 0>> \in {"core", "trace", "fallback"} \X {0}
  OBVIOUS
<1> QED
  BY <1>1, <1>2 DEF Marks

(* The mark at each place: first those up to the core, then the exits.      *)
LEMMA MarkAt ==
    ASSUME NEW c, NEW o
    PROVE  /\ DOMAIN Full(c, o) = 1..Size(o)
           /\ o = "trace" => Full(c, o)[1] = <<"trace", 0>>
           /\ \A i \in 1..Nodes : Full(c, o)[Lead(o) + i] = <<"enter", i>>
           /\ Full(c, o)[Lead(o) + Nodes + 1] = <<"core", 0>>
           /\ \A i \in 1..Nodes :
                 Full(c, o)[Lead(o) + Nodes + 1 + i]
                   = <<"exit", IF c = "precompiled" THEN i ELSE Nodes + 1 - i>>
<1>0. Nodes \in Nat /\ Lead(o) \in {0, 1} /\ Size(o) = Lead(o) + 2 * Nodes + 1
  BY Sizes
<1>1. DOMAIN Full(c, o) = 1..Size(o)
  BY DEF Full
<1>2. ASSUME o = "trace" PROVE Full(c, o)[1] = <<"trace", 0>>
  <2>1. Lead(o) = 1 /\ 1 \in 1..Size(o)
    BY <1>0, <1>2 DEF Lead
  <2> QED BY <2>1 DEF Full
<1>3. ASSUME NEW i \in 1..Nodes PROVE Full(c, o)[Lead(o) + i] = <<"enter", i>>
  <2>1. /\ Lead(o) + i \in 1..Size(o) /\ ~(Lead(o) + i <= Lead(o))
        /\ Lead(o) + i <= Lead(o) + Nodes /\ (Lead(o) + i) - Lead(o) = i
    BY <1>0
  <2>2. Full(c, o)[Lead(o) + i] = <<"enter", (Lead(o) + i) - Lead(o)>>
    BY <2>1 DEF Full
  <2> QED BY <2>1, <2>2
<1>4. Full(c, o)[Lead(o) + Nodes + 1] = <<"core", 0>>
  <2>1. /\ Lead(o) + Nodes + 1 \in 1..Size(o) /\ ~(Lead(o) + Nodes + 1 <= Lead(o))
        /\ ~(Lead(o) + Nodes + 1 <= Lead(o) + Nodes)
    BY <1>0
  <2> QED BY <2>1 DEF Full
<1>5. ASSUME NEW i \in 1..Nodes
      PROVE  Full(c, o)[Lead(o) + Nodes + 1 + i]
               = <<"exit", IF c = "precompiled" THEN i ELSE Nodes + 1 - i>>
  <2> DEFINE j == Lead(o) + Nodes + 1 + i
  <2>1. /\ j \in 1..Size(o) /\ ~(j <= Lead(o)) /\ ~(j <= Lead(o) + Nodes)
        /\ j # Lead(o) + Nodes + 1 /\ j - (Lead(o) + Nodes + 1) = i
        /\ Size(o) + 1 - j = Nodes + 1 - i
    BY <1>0
  <2>2. Full(c, o)[j]
          = <<"exit", IF c = "precompiled" THEN j - (Lead(o) + Nodes + 1) ELSE Size(o) + 1 - j>>
    BY <2>1 DEF Full
  <2> QED BY <2>1, <2>2
<1> QED
  BY <1>1, <1>2, <1>3, <1>4, <1>5

(* Which marks there are up to the core and after it.                       *)
LEMMA MarksWithin ==
    ASSUME NEW c, NEW o
    PROVE  /\ \A i \in 1..Size(o) : Full(c, o)[i] \in Marks /\ Full(c, o)[i] # <<"fallback", 0>>
           /\ \A i \in 1..(Lead(o) + Nodes) : Full(c, o)[i] # <<"core", 0>>
           /\ \A i \in 1..(Lead(o) + Nodes + 1), j \in 1..Nodes : Full(c, o)[i] # <<"exit", j>>
<1>0. Nodes \in Nat /\ Lead(o) \in {0, 1} /\ Size(o) = Lead(o) + 2 * Nodes + 1
  BY Sizes
<1>1. ASSUME NEW i \in 1..(Lead(o) + Nodes)
      PROVE  Full(c, o)[i] = <<"trace", 0>> \/ \E n \in 1..Nodes : Full(c, o)[i] = <<"enter", n>>
  <2>1. CASE i <= Lead(o)
    <3>1. i = 1 /\ o = "trace"
      BY <1>0, <2>1 DEF Lead
    <3> QED BY <3>1, MarkAt
  <2>2. CASE i > Lead(o)
    <3>1. PICK n \in 1..Nodes : i = Lead(o) + n
      <4>1. i - Lead(o) \in 1..Nodes /\ i = Lead(o) + (i - Lead(o))
        BY <1>0, <2>2
      <4> QED BY <4>1
    <3>2. Full(c, o)[i] = <<"enter", n>>
      BY <3>1, MarkAt
    <3> QED BY <3>2
  <2> QED BY <1>0, <2>1, <2>2
<1>2. ASSUME NEW i \in (Lead(o) + Nodes + 2)..Size(o)
      PROVE  \E n \in 1..Nodes : Full(c, o)[i] = <<"exit", n>>
  <2>1. PICK n \in 1..Nodes : i = Lead(o) + Nodes + 1 + n
    <3>1. i - (Lead(o) + Nodes + 1) \in 1..Nodes
          /\ i = Lead(o) + Nodes + 1 + (i - (Lead(o) + Nodes + 1))
      BY <1>0
    <3> QED BY <3>1
  <2>2. (IF c = "precompiled" THEN n ELSE Nodes + 1 - n) \in 1..Nodes
    BY <1>0
  <2>3. Full(c, o)[i] = <<"exit", IF c = "precompiled" THEN n ELSE Nodes + 1 - n>>
    BY <2>1, MarkAt
  <2> QED BY <2>2, <2>3
<1>3. \A i \in 1..Size(o) : \/ i \in 1..(Lead(o) + Nodes) \/ i = Lead(o) + Nodes + 1
                            \/ i \in (Lead(o) + Nodes + 2)..Size(o)
  BY <1>0
<1>4. ASSUME NEW i \in 1..Size(o)
      PROVE  Full(c, o)[i] \in Marks /\ Full(c, o)[i] # <<"fallback", 0>>
  <2>1. CASE i \in 1..(Lead(o) + Nodes)
    <3>1. CASE Full(c, o)[i] = <<"trace", 0>>
      BY <3>1, MarksOfNodes
    <3>2. CASE \E n \in 1..Nodes : Full(c, o)[i] = <<"enter", n>>
      <4>1. PICK n \in 1..Nodes : Full(c, o)[i] = <<"enter", n>>
        BY <3>2
      <4>2. <<"enter", n>> \in Marks /\ <<"enter", n>> # <<"fallback", 0>>
        BY MarksOfNodes
      <4> QED BY <4>1, <4>2
    <3> QED BY <1>1, <2>1, <3>1, <3>2
  <2>2. CASE i = Lead(o) + Nodes + 1
    BY <2>2, MarkAt, MarksOfNodes
  <2>3. CASE i \in (Lead(o) + Nodes + 2)..Size(o)
    <3>1. PICK n \in 1..Nodes : Full(c, o)[i] = <<"exit", n>>
      BY <1>2, <2>3
    <3>2. <<"exit", n>> \in Marks /\ <<"exit", n>> # <<"fallback", 0>>
      BY MarksOfNodes
    <3> QED BY <3>1, <3>2
  <2> QED BY <1>3, <2>1, <2>2, <2>3
<1>5. \A i \in 1..(Lead(o) + Nodes) : Full(c, o)[i] # <<"core", 0>>
  BY <1>1
<1>6. ASSUME NEW i \in 1..(Lead(o) + Nodes + 1), NEW j \in 1..Nodes
      PROVE  Full(c, o)[i] # <<"exit", j>>
  <2>1. i \in 1..(Lead(o) + Nodes) \/ i = Lead(o) + Nodes + 1
    BY <1>0
  <2>2. CASE i \in 1..(Lead(o) + Nodes)
    BY <1>1, <2>2
  <2>3. CASE i = Lead(o) + Nodes + 1
    BY <2>3, MarkAt
  <2> QED BY <2>1, <2>2, <2>3
<1> QED
  BY <1>4, <1>5, <1>6

LEMMA Growing ==
    ASSUME NEW c, NEW o
    PROVE  /\ Upto(c, o, 0) = <<>> /\ Upto(c, o, Size(o)) = Full(c, o)
           /\ \A k \in 0..Size(o) : /\ Upto(c, o, k) \in Seq(Marks) /\ Len(Upto(c, o, k)) = k
                                    /\ \A i \in 1..k : Upto(c, o, k)[i] = Full(c, o)[i]
           /\ \A k \in 0..(Size(o) - 1) :
                 Append(Upto(c, o, k), Full(c, o)[k + 1]) = Upto(c, o, k + 1)
<1>0. Size(o) \in Nat
  BY Sizes
<1>1. Upto(c, o, 0) = <<>>
  BY DEF Upto
<1>2. Upto(c, o, Size(o)) = Full(c, o)
  <2>1. Full(c, o) = [i \in 1..Size(o) |-> Full(c, o)[i]]
    BY DEF Full
  <2> QED BY <2>1 DEF Upto
<1>3. ASSUME NEW k \in 0..Size(o)
      PROVE  /\ Upto(c, o, k) \in Seq(Marks) /\ Len(Upto(c, o, k)) = k
             /\ \A i \in 1..k : Upto(c, o, k)[i] = Full(c, o)[i]
  <2>1. k \in Nat /\ \A i \in 1..k : Full(c, o)[i] \in Marks
    BY <1>0, MarksWithin
  <2> QED BY <2>1 DEF Upto
<1>4. ASSUME NEW k \in 0..(Size(o) - 1)
      PROVE  Append(Upto(c, o, k), Full(c, o)[k + 1]) = Upto(c, o, k + 1)
  <2>1. k \in 0..Size(o) /\ k + 1 \in 0..Size(o) /\ k + 1 \in 1..Size(o) /\ k \in Nat
    BY <1>0
  <2>2. PICK u, v, m : u = Upto(c, o, k) /\ v = Upto(c, o, k + 1) /\ m = Full(c, o)[k + 1]
    OBVIOUS
  <2>3. /\ u \in Seq(Marks) /\ Len(u) = k /\ \A i \in 1..k : u[i] = Full(c, o)[i]
        /\ v \in Seq(Marks) /\ Len(v) = k + 1 /\ \A i \in 1..(k + 1) : v[i] = Full(c, o)[i]
        /\ m \in Marks
    BY <1>3, <2>1, <2>2, MarksWithin
  <2>4. /\ Append(u, m) \in Seq(Marks) /\ Len(Append(u, m)) = k + 1
        /\ \A i \in 1..k : Append(u, m)[i] = u[i] /\ Append(u, m)[k + 1] = m
    BY <2>3, AppendProperties
  <2>5. \A i \in 1..(k + 1) : Append(u, m)[i] = v[i]
    <3>1. Append(u, m)[k + 1] = m
      BY <2>3, AppendProperties
    <3> QED BY <2>1, <2>2, <2>3, <2>4, <3>1
  <2>6. Append(u, m) = v
    BY <2>3, <2>4, <2>5, SeqEqual
  <2> QED BY <2>2, <2>6
<1> QED
  BY <1>1, <1>2, <1>3, <1>4

(* The specification's own words for it.                                    *)
LEMMA InwardsIs ==
    /\ Inwards \in Seq(Marks) /\ Len(Inwards) = Nodes + 1
    /\ \A i \in 1..Nodes : Inwards[i] = <<"enter", i>>
    /\ Inwards[Nodes + 1] = <<"core", 0>>
<1> DEFINE e == [i \in 1..Nodes |-> <<"enter", i>>]
           k == <<<<"core", 0>>>>
<1>0. Nodes \in Nat
  BY Sizes
<1>1. e \in Seq(Marks) /\ Len(e) = Nodes /\ \A i \in 1..Nodes : e[i] = <<"enter", i>>
  <2>1. \A i \in 1..Nodes : <<"enter", i>> \in Marks
    BY MarksOfNodes
  <2> QED BY <1>0, <2>1
<1>2. k \in Seq(Marks) /\ Len(k) = 1 /\ k[1] = <<"core", 0>>
  BY MarksOfNodes
<1>3. Inwards = e \o k
  BY DEF Inwards
<1> HIDE DEF e, k
<1>4. /\ e \o k \in Seq(Marks) /\ Len(e \o k) = Nodes + 1
      /\ \A i \in 1..(Nodes + 1) : (e \o k)[i] = IF i <= Nodes THEN e[i] ELSE k[i - Nodes]
  <2>1. /\ e \o k \in Seq(Marks) /\ Len(e \o k) = Len(e) + Len(k)
        /\ \A i \in 1..(Len(e) + Len(k)) : (e \o k)[i] = IF i <= Len(e) THEN e[i] ELSE k[i - Len(e)]
    BY <1>1, <1>2, ConcatProperties
  <2> QED BY <1>1, <1>2, <2>1
<1>5. /\ \A i \in 1..Nodes : i \in 1..(Nodes + 1) /\ i <= Nodes
      /\ Nodes + 1 \in 1..(Nodes + 1) /\ ~(Nodes + 1 <= Nodes) /\ Nodes + 1 - Nodes = 1
  BY <1>0
<1> QED
  BY <1>1, <1>2, <1>3, <1>4, <1>5

LEMMA InwardsUpto ==
    ASSUME NEW c, NEW o, o # "trace"
    PROVE  Inwards = Upto(c, o, Nodes + 1)
<1>1. Nodes \in Nat /\ Lead(o) = 0 /\ Nodes + 1 \in 0..Size(o)
  BY Sizes DEF Lead
<1>2. PICK u : u = Upto(c, o, Nodes + 1)
  OBVIOUS
<1>3. u \in Seq(Marks) /\ Len(u) = Nodes + 1 /\ \A i \in 1..(Nodes + 1) : u[i] = Full(c, o)[i]
  BY <1>1, <1>2, Growing
<1>4. \A i \in 1..Nodes : Full(c, o)[i] = <<"enter", i>>
  <2>1. \A i \in 1..Nodes : Lead(o) + i = i
    BY <1>1
  <2> QED BY <2>1, MarkAt
<1>5. Full(c, o)[Nodes + 1] = <<"core", 0>>
  <2>1. Lead(o) + Nodes + 1 = Nodes + 1
    BY <1>1
  <2> QED BY <2>1, MarkAt
<1>6. \A i \in 1..(Nodes + 1) : i \in 1..Nodes \/ i = Nodes + 1
  BY <1>1
<1>7. \A i \in 1..Len(Inwards) : Inwards[i] = u[i]
  BY <1>3, <1>4, <1>5, <1>6, InwardsIs
<1> QED
  BY <1>2, <1>3, <1>7, InwardsIs, SeqEqual

LEMMA WholeIs ==
    ASSUME chan # "precompiled"
    PROVE  Whole = Full(chan, op)
<1> DEFINE t == IF op = "trace" THEN <<<<"trace", 0>>>> ELSE <<>>
           a == t \o Inwards
           f == Full(chan, op)
<1>0. Nodes \in Nat /\ Lead(op) \in {0, 1} /\ Size(op) \in Nat /\ Size(op) = Lead(op) + 2 * Nodes + 1
  BY Sizes
<1>1. /\ t \in Seq(Marks) /\ Len(t) = Lead(op)
      /\ \A i \in 1..Lead(op) : t[i] = f[i]
  <2>1. CASE op = "trace"
    BY <2>1, MarksOfNodes, MarkAt DEF Lead
  <2>2. CASE op # "trace"
    BY <2>2 DEF Lead
  <2> QED BY <2>1, <2>2
<1>2. /\ Outwards \in Seq(Marks) /\ Len(Outwards) = Nodes
      /\ \A i \in 1..Nodes : Outwards[i] = f[Lead(op) + Nodes + 1 + i]
  <2>1. \A i \in 1..Nodes : Nodes + 1 - i \in 1..Nodes
    BY <1>0
  <2>2. \A i \in 1..Nodes : Outwards[i] = <<"exit", Nodes + 1 - i>>
    BY DEF Outwards
  <2>3. Outwards \in Seq(Marks) /\ Len(Outwards) = Nodes
    <3>1. \A i \in 1..Nodes : <<"exit", Nodes + 1 - i>> \in Marks
      BY <2>1, MarksOfNodes
    <3>2. Outwards \in [1..Nodes -> Marks]
      BY <3>1 DEF Outwards
    <3>3. \A g \in [1..Nodes -> Marks] : g \in Seq(Marks) /\ Len(g) = Nodes
      BY <1>0
    <3> QED BY <3>2, <3>3
  <2>4. \A i \in 1..Nodes : f[Lead(op) + Nodes + 1 + i] = <<"exit", Nodes + 1 - i>>
    BY MarkAt
  <2> QED BY <2>2, <2>3, <2>4
<1>3. Whole = a \o Outwards
  BY DEF Whole
<1>4. /\ \A i \in 1..Nodes : Inwards[i] = f[Lead(op) + i]
      /\ Inwards[Nodes + 1] = f[Lead(op) + (Nodes + 1)]
  <2>1. Lead(op) + (Nodes + 1) = Lead(op) + Nodes + 1
    BY <1>0
  <2> QED BY <2>1, InwardsIs, MarkAt
<1>5. \A i \in 1..(Nodes + 1) : Inwards[i] = f[Lead(op) + i]
  <2>1. \A i \in 1..(Nodes + 1) : i \in 1..Nodes \/ i = Nodes + 1
    BY <1>0
  <2> QED BY <1>4, <2>1
<1>6. f \in Seq(Marks) /\ Len(f) = Size(op)
  BY <1>0, Growing
<1> HIDE DEF t, f
<1>7. /\ a \in Seq(Marks) /\ Len(a) = Lead(op) + Nodes + 1
      /\ \A i \in 1..(Lead(op) + Nodes + 1) : a[i] = f[i]
  <2>1. /\ a \in Seq(Marks) /\ Len(a) = Lead(op) + (Nodes + 1)
        /\ \A i \in 1..(Lead(op) + (Nodes + 1)) :
              a[i] = IF i <= Lead(op) THEN t[i] ELSE Inwards[i - Lead(op)]
    <3>1. /\ a \in Seq(Marks) /\ Len(a) = Len(t) + Len(Inwards)
          /\ \A i \in 1..(Len(t) + Len(Inwards)) :
                a[i] = IF i <= Len(t) THEN t[i] ELSE Inwards[i - Len(t)]
      BY <1>1, InwardsIs, ConcatProperties
    <3> QED BY <1>1, InwardsIs, <3>1
  <2>2. ASSUME NEW i \in 1..(Lead(op) + (Nodes + 1)) PROVE a[i] = f[i]
    <3>1. CASE i <= Lead(op)
      <4>1. i \in 1..Lead(op)
        BY <1>0, <3>1
      <4> QED BY <1>1, <2>1, <3>1, <4>1
    <3>2. CASE ~(i <= Lead(op))
      <4>1. i - Lead(op) \in 1..(Nodes + 1) /\ Lead(op) + (i - Lead(op)) = i
        BY <1>0, <3>2
      <4>2. a[i] = Inwards[i - Lead(op)]
        BY <2>1, <3>2
      <4> QED BY <1>5, <4>1, <4>2
    <3> QED BY <3>1, <3>2
  <2>3. Lead(op) + (Nodes + 1) = Lead(op) + Nodes + 1
    BY <1>0
  <2> QED BY <2>1, <2>2, <2>3
<1> HIDE DEF a
<1>8. /\ Whole \in Seq(Marks) /\ Len(Whole) = Size(op)
      /\ \A i \in 1..Size(op) : Whole[i] = f[i]
  <2>1. /\ Whole \in Seq(Marks) /\ Len(Whole) = (Lead(op) + Nodes + 1) + Nodes
        /\ \A i \in 1..((Lead(op) + Nodes + 1) + Nodes) :
              Whole[i] = IF i <= Lead(op) + Nodes + 1 THEN a[i]
                         ELSE Outwards[i - (Lead(op) + Nodes + 1)]
    <3>1. PICK x, z : x = Outwards /\ z = Whole
      OBVIOUS
    <3>2. z = a \o x /\ x \in Seq(Marks) /\ Len(x) = Nodes
      BY <1>2, <1>3, <3>1
    <3>3. /\ z \in Seq(Marks) /\ Len(z) = Len(a) + Len(x)
          /\ \A i \in 1..(Len(a) + Len(x)) : z[i] = IF i <= Len(a) THEN a[i] ELSE x[i - Len(a)]
      BY <1>7, <3>2, ConcatProperties
    <3> QED BY <1>7, <3>1, <3>2, <3>3
  <2>2. ASSUME NEW i \in 1..((Lead(op) + Nodes + 1) + Nodes) PROVE Whole[i] = f[i]
    <3>1. CASE i <= Lead(op) + Nodes + 1
      <4>1. i \in 1..(Lead(op) + Nodes + 1)
        BY <1>0, <3>1
      <4> QED BY <1>7, <2>1, <3>1, <4>1
    <3>2. CASE ~(i <= Lead(op) + Nodes + 1)
      <4>1. /\ i - (Lead(op) + Nodes + 1) \in 1..Nodes
            /\ Lead(op) + Nodes + 1 + (i - (Lead(op) + Nodes + 1)) = i
        BY <1>0, <3>2
      <4>2. Whole[i] = Outwards[i - (Lead(op) + Nodes + 1)]
        BY <2>1, <3>2
      <4> QED BY <1>2, <4>1, <4>2
    <3> QED BY <3>1, <3>2
  <2>3. (Lead(op) + Nodes + 1) + Nodes = Size(op)
    BY <1>0
  <2> QED BY <2>1, <2>2, <2>3
<1>9. Whole = f
  BY <1>6, <1>8, SeqEqual
<1> QED
  BY <1>9 DEF f

(* All that a function of compose_chain! does: each exit once.              *)
LEMMA AllLeft ==
    ASSUME work = Full(chan, op), op # "trace"
    PROVE  EachExit
<1>0. Nodes \in Nat /\ Lead(op) = 0 /\ Size(op) = 2 * Nodes + 1 /\ Size(op) \in 0..Size(op)
  BY Sizes DEF Lead
<1>1. Len(work) = 2 * Nodes + 1 /\ DOMAIN work = 1..Size(op)
  <2>1. Len(Upto(chan, op, Size(op))) = Size(op) /\ Upto(chan, op, Size(op)) = work
    BY <1>0, Growing
  <2> QED BY <1>0, <2>1, MarkAt
<1>2. \A i \in 1..(Nodes + 1) : work[i] = Inwards[i]
  <2>1. ASSUME NEW i \in 1..Nodes PROVE work[i] = Inwards[i]
    <3>1. Lead(op) + i = i
      BY <1>0
    <3>2. Full(chan, op)[Lead(op) + i] = <<"enter", i>>
      BY MarkAt
    <3> QED BY <3>1, <3>2, InwardsIs
  <2>2. work[Nodes + 1] = Inwards[Nodes + 1]
    <3>1. Lead(op) + Nodes + 1 = Nodes + 1
      BY <1>0
    <3>2. Full(chan, op)[Lead(op) + Nodes + 1] = <<"core", 0>>
      BY MarkAt
    <3> QED BY <3>1, <3>2, InwardsIs
  <2>3. \A i \in 1..(Nodes + 1) : i \in 1..Nodes \/ i = Nodes + 1
    BY <1>0
  <2> QED BY <2>1, <2>2, <2>3
<1>3. ASSUME NEW n \in 1..Nodes PROVE Ran(<<"exit", n>>)
  <2>1. PICK j \in 1..Nodes : n = IF chan = "precompiled" THEN j ELSE Nodes + 1 - j
    <3>1. n \in 1..Nodes /\ Nodes + 1 - n \in 1..Nodes /\ Nodes + 1 - (Nodes + 1 - n) = n
      BY <1>0
    <3> QED BY <3>1
  <2>2. Lead(op) + Nodes + 1 + j \in 1..Size(op)
    BY <1>0
  <2>3. work[Lead(op) + Nodes + 1 + j] = <<"exit", n>>
    BY <2>1, MarkAt
  <2> QED BY <1>1, <2>2, <2>3 DEF Ran
<1> QED
  BY <1>1, <1>2, <1>3 DEF EachExit

-----------------------------------------------------------------------------
(* The steps of a call.                                                     *)

LEMMA Same ==
    ASSUME UNCHANGED fixed
    PROVE  Whole' = Whole /\ InPlace' = InPlace /\ chan' = chan /\ op' = op /\ tries' = tries
BY DEF fixed, Whole, Outwards, InPlace

LEMMA OnlyOpaqueTraces ==
    ASSUME TypeOK, op = "trace"
    PROVE  chan = "opaque"
<1>1. chan \in {"opaque", "ctx", "async", "async_generic", "generic", "precompiled"}
  BY DEF TypeOK, Operations
<1>2. op \in Operations[chan]
  BY DEF TypeOK
<1>3. /\ "trace" \notin Operations["ctx"] /\ "trace" \notin Operations["async"]
      /\ "trace" \notin Operations["async_generic"] /\ "trace" \notin Operations["generic"]
      /\ "trace" \notin Operations["precompiled"]
  BY DEF Operations
<1> QED
  BY <1>1, <1>2, <1>3

(* The properties are about calls that have returned.                       *)
LEMMA NotYet ==
    ASSUME pc' # "done"
    PROVE  AnswersTrue' /\ RequestKept'
BY DEF AnswersTrue, RequestKept

(* A mark is added to the attempt's request, and in place to the caller's.  *)
LEMMA Touched ==
    ASSUME TypeOK, Kept, pc # "done", NEW k \in 0..(Size(op) - 1), work = Upto(chan, op, k),
           NEW mark, mark = Full(chan, op)[k + 1], Touch(mark)
    PROVE  /\ work' = Upto(chan, op, k + 1) /\ k + 1 \in 0..Size(op)
           /\ work' # <<>>
           /\ req' \in Seq(Marks) /\ work' \in Seq(Marks)
           /\ InPlace => req' = work'
           /\ ~InPlace => req' = <<>>
<1>1. k + 1 \in 1..Size(op) /\ k + 1 \in 0..Size(op)
  BY Sizes
<1>2. mark \in Marks
  BY <1>1, MarksWithin
<1>3. req \in Seq(Marks) /\ work \in Seq(Marks)
  BY DEF TypeOK
<1>4. /\ Append(req, mark) \in Seq(Marks)
      /\ Append(work, mark) \in Seq(Marks) /\ Append(work, mark) # <<>>
  BY <1>2, <1>3, AppendProperties
<1>5. work' = Append(work, mark) /\ req' = IF InPlace THEN Append(req, mark) ELSE req
  BY DEF Touch
<1>6. Append(Upto(chan, op, k), mark) = Upto(chan, op, k + 1)
  BY Growing
<1>7. (InPlace => req = work) /\ (~InPlace => req = <<>>)
  BY DEF Kept
<1> QED
  BY <1>1, <1>3, <1>4, <1>5, <1>6, <1>7

(* A node is entered.                                                       *)
LEMMA NodeStep ==
    ASSUME CallInv, UNCHANGED <<fixed, attempt>>, pc = "enter", idx <= Nodes,
           Touch(<<"enter", idx>>), Decide \/ (Unwind("call") /\ UNCHANGED idx)
    PROVE  CallInv'
<1>0. /\ TypeOK /\ Kept /\ Panics /\ Nodes \in Nat /\ Lead(op) \in {0, 1}
      /\ Size(op) = Lead(op) + 2 * Nodes + 1 /\ idx \in 1..Nodes
      /\ chan' = chan /\ op' = op /\ tries' = tries /\ attempt' = attempt
      /\ Whole' = Whole /\ InPlace' = InPlace
  BY Sizes, Same DEF CallInv, TypeOK
<1>1. /\ Lead(op) + idx - 1 \in 0..(Size(op) - 1) /\ (Lead(op) + idx - 1) + 1 = Lead(op) + idx
      /\ Lead(op) + idx \in 0..(Lead(op) + Nodes) /\ Lead(op) + idx \in 0..Size(op)
      /\ Lead(op) + (idx + 1) - 1 = Lead(op) + idx /\ idx + 1 \in 1..Nodes + 1
  BY <1>0
<1>2. /\ work = Upto(chan, op, Lead(op) + idx - 1)
      /\ Full(chan, op)[(Lead(op) + idx - 1) + 1] = <<"enter", idx>>
  <2>1. work = Upto(chan, op, Lead(op) + idx - 1)
    BY DEF CallInv, Position
  <2>2. Full(chan, op)[Lead(op) + idx] = <<"enter", idx>>
    BY <1>0, MarkAt
  <2> QED BY <1>1, <2>1, <2>2
<1>3. /\ work' = Upto(chan, op, Lead(op) + idx) /\ work' # <<>>
      /\ req' \in Seq(Marks) /\ work' \in Seq(Marks)
      /\ InPlace => req' = work'
      /\ ~InPlace => req' = <<>>
  <2>1. PICK k \in 0..(Size(op) - 1) : k = Lead(op) + idx - 1
    BY <1>1
  <2> QED BY <1>0, <1>1, <1>2, <2>1, Touched
<1>4. cause = "none"
  BY <1>0 DEF Panics
<1>5. CASE idx' = idx + 1 /\ UNCHANGED <<pc, result, cause>>
  <2>1. TypeOK'
    BY <1>0, <1>1, <1>3, <1>5 DEF TypeOK
  <2>2. Position' /\ Judged' /\ Kept' /\ Panics'
    BY <1>0, <1>1, <1>3, <1>4, <1>5 DEF Position, Judged, Kept, Panics
  <2> QED BY <1>5, <2>1, <2>2, NotYet DEF CallInv
<1>6. ASSUME NEW r \in {"halted", "rejected"}, Fail(r), UNCHANGED idx
      PROVE  CallInv'
  <2>0. pc' = "end" /\ result' = r /\ cause' = cause
    BY <1>6 DEF Fail
  <2>1. TypeOK'
    BY <1>0, <1>3, <1>6, <2>0 DEF TypeOK
  <2>2. Position' /\ Kept' /\ Panics'
    BY <1>0, <1>1, <1>3, <1>4, <2>0 DEF Position, Kept, Panics
  <2>3. Judged'
    BY <1>0, <1>1, <1>3, <2>0 DEF Judged
  <2> QED BY <2>0, <2>1, <2>2, <2>3, NotYet DEF CallInv
<1>7. ASSUME NEW p \in {"call", "enter"}, Unwind(p), UNCHANGED idx
      PROVE  CallInv'
  <2>0. pc' = "end" /\ result' = "panic" /\ cause' = p
    BY <1>7 DEF Unwind
  <2>1. TypeOK'
    BY <1>0, <1>3, <1>7, <2>0 DEF TypeOK
  <2>2. Position' /\ Judged' /\ Kept' /\ Panics'
    BY <1>0, <1>1, <1>3, <2>0 DEF Position, Judged, Kept, Panics
  <2> QED BY <2>0, <2>1, <2>2, NotYet DEF CallInv
<1> QED
  BY <1>5, <1>6, <1>7 DEF Decide

LEMMA CancelStep ==
    ASSUME CallInv, Cancel
    PROVE  CallInv'
<1>0. /\ TypeOK /\ Position /\ Kept /\ Panics /\ Nodes \in Nat /\ Lead(op) \in {0, 1}
      /\ pc = "enter" /\ pc' = "end" /\ result' = "timeout" /\ idx <= Nodes
      /\ UNCHANGED <<chan, op, tries, idx, attempt, req, work, cause>>
      /\ InPlace' = InPlace
  BY Sizes, Same DEF CallInv, Cancel, Fail, fixed
<1>1. /\ Lead(op) + idx - 1 \in 0..(Lead(op) + Nodes)
      /\ work = Upto(chan, op, Lead(op) + idx - 1)
  BY <1>0 DEF Position, TypeOK
<1>2. TypeOK' /\ Position'
  BY <1>0 DEF TypeOK, Position
<1>3. Judged' /\ Kept' /\ Panics'
  BY <1>0, <1>1 DEF Judged, Kept, Panics
<1> QED
  BY <1>0, <1>2, <1>3, NotYet DEF CallInv

(* The core runs once all nodes are entered.                                *)
LEMMA CoreStep ==
    ASSUME CallInv, OpaqueCore \/ Core
    PROVE  CallInv'
<1>0. /\ TypeOK /\ Kept /\ Panics /\ Nodes \in Nat /\ Lead(op) \in {0, 1}
      /\ Size(op) = Lead(op) + 2 * Nodes + 1
      /\ pc = "enter" /\ idx = Nodes + 1 /\ Touch(<<"core", 0>>) /\ attempt' = attempt
      /\ chan' = chan /\ op' = op /\ tries' = tries
      /\ Whole' = Whole /\ InPlace' = InPlace
  <2>1. /\ pc = "enter" /\ idx > Nodes /\ Touch(<<"core", 0>>) /\ attempt' = attempt
        /\ UNCHANGED fixed
    BY DEF OpaqueCore, Core
  <2>2. idx = Nodes + 1
    BY <2>1, Sizes DEF CallInv, TypeOK
  <2> QED BY <2>1, <2>2, Sizes, Same DEF CallInv
<1>1. /\ Lead(op) + idx - 1 = Lead(op) + Nodes /\ Lead(op) + Nodes \in 0..(Size(op) - 1)
      /\ Lead(op) + Nodes + 1 \in 0..Size(op) /\ 1 \in 1..Nodes + 1
  BY <1>0
<1>2. /\ work = Upto(chan, op, Lead(op) + Nodes)
      /\ Full(chan, op)[Lead(op) + Nodes + 1] = <<"core", 0>>
  <2>1. work = Upto(chan, op, Lead(op) + idx - 1)
    BY <1>0 DEF CallInv, Position
  <2> QED BY <1>1, <2>1, MarkAt
<1>3. /\ work' = Upto(chan, op, Lead(op) + Nodes + 1) /\ work' # <<>>
      /\ req' \in Seq(Marks) /\ work' \in Seq(Marks)
      /\ InPlace => req' = work'
      /\ ~InPlace => req' = <<>>
  <2>1. PICK k \in 0..(Size(op) - 1) : k = Lead(op) + Nodes
    BY <1>1
  <2> QED BY <1>0, <1>1, <1>2, <2>1, Touched
<1>4. cause = "none"
  BY <1>0 DEF Panics
<1>5. \/ pc' = "exit" /\ idx' = 1 /\ cause' = cause
         /\ (result' = "ok" \/ (chan = "opaque" /\ op = "fallible" /\ result' = "core"))
      \/ chan # "opaque" /\ Fail("core") /\ idx' = idx
      \/ Unwind("core") /\ idx' = idx
  BY DEF OpaqueCore, Core
<1>6. CASE pc' = "exit" /\ idx' = 1 /\ cause' = cause
           /\ (result' = "ok" \/ (chan = "opaque" /\ op = "fallible" /\ result' = "core"))
  <2>1. TypeOK'
    BY <1>0, <1>1, <1>3, <1>6 DEF TypeOK
  <2>2. Position' /\ Judged' /\ Kept' /\ Panics'
    BY <1>0, <1>1, <1>3, <1>4, <1>6 DEF Position, Judged, Kept, Panics
  <2> QED BY <1>6, <2>1, <2>2, NotYet DEF CallInv
<1>7. CASE chan # "opaque" /\ Fail("core") /\ idx' = idx
  <2>0. pc' = "end" /\ result' = "core" /\ cause' = cause
    BY <1>7 DEF Fail
  <2>1. TypeOK'
    BY <1>0, <1>3, <1>7, <2>0 DEF TypeOK
  <2>2. work' = Inwards
    <3>1. op # "trace"
      BY <1>0, <1>7, OnlyOpaqueTraces
    <3>2. Lead(op) + Nodes + 1 = Nodes + 1
      BY <1>0, <3>1 DEF Lead
    <3> QED BY <1>3, <3>1, <3>2, InwardsUpto
  <2>3. Position' /\ Kept' /\ Panics'
    BY <1>0, <1>1, <1>3, <1>4, <2>0 DEF Position, Kept, Panics
  <2>4. Judged'
    <3>1. Inwards' = Inwards
      BY DEF Inwards
    <3> QED BY <1>0, <1>7, <2>0, <2>2, <3>1 DEF Judged
  <2> QED BY <2>0, <2>1, <2>3, <2>4, NotYet DEF CallInv
<1>8. CASE Unwind("core") /\ idx' = idx
  <2>0. pc' = "end" /\ result' = "panic" /\ cause' = "core"
    BY <1>8 DEF Unwind
  <2>1. TypeOK'
    BY <1>0, <1>3, <1>8, <2>0 DEF TypeOK
  <2>2. Position' /\ Judged' /\ Kept' /\ Panics'
    BY <1>0, <1>1, <1>3, <2>0 DEF Position, Judged, Kept, Panics
  <2> QED BY <2>0, <2>1, <2>2, NotYet DEF CallInv
<1> QED
  BY <1>5, <1>6, <1>7, <1>8

LEMMA ExitStep ==
    ASSUME CallInv, Exit
    PROVE  CallInv'
<1>0. /\ TypeOK /\ Position /\ Kept /\ Panics /\ Judged /\ Nodes \in Nat /\ Lead(op) \in {0, 1}
      /\ Size(op) = Lead(op) + 2 * Nodes + 1 /\ idx \in 1..Nodes + 1
      /\ pc = "exit" /\ attempt' = attempt
      /\ chan' = chan /\ op' = op /\ tries' = tries
      /\ Whole' = Whole /\ InPlace' = InPlace
      /\ work = Upto(chan, op, Lead(op) + Nodes + idx) /\ result \in {"ok", "core"}
  BY Sizes, Same DEF CallInv, TypeOK, Exit, Position
<1>1. CASE idx > Nodes
  <2>0. pc' = "end" /\ UNCHANGED <<idx, req, work, result, cause>>
    BY <1>0, <1>1 DEF Exit
  <2>1. work = Full(chan, op)
    <3>1. Lead(op) + Nodes + idx = Size(op)
      BY <1>0, <1>1
    <3> QED BY <1>0, <3>1, Growing
  <2>2. TypeOK' /\ Position'
    BY <1>0, <2>0 DEF TypeOK, Position
  <2>3. Judged' /\ Kept' /\ Panics'
    BY <1>0, <2>0, <2>1 DEF Judged, Kept, Panics
  <2> QED BY <2>0, <2>2, <2>3, NotYet DEF CallInv
<1>2. CASE ~(idx > Nodes)
  <2>0. /\ Touch(<<"exit", ExitNode>>)
        /\ \/ idx' = idx + 1 /\ UNCHANGED <<pc, result, cause>>
           \/ Unwind("exit") /\ UNCHANGED idx
    BY <1>0, <1>2 DEF Exit
  <2>1. /\ idx \in 1..Nodes /\ Lead(op) + Nodes + idx \in 0..(Size(op) - 1)
        /\ (Lead(op) + Nodes + idx) + 1 = Lead(op) + Nodes + 1 + idx
        /\ (Lead(op) + Nodes + idx) + 1 \in 0..Size(op)
        /\ (Lead(op) + Nodes + idx) + 1 = Lead(op) + Nodes + (idx + 1)
        /\ idx + 1 \in 1..Nodes + 1
    BY <1>0, <1>2
  <2>2. Full(chan, op)[(Lead(op) + Nodes + idx) + 1] = <<"exit", ExitNode>>
    <3>1. ExitNode = IF chan = "precompiled" THEN idx ELSE Nodes + 1 - idx
      BY DEF ExitNode, Forwards, Backwards
    <3> QED BY <2>1, <3>1, MarkAt
  <2>3. /\ work' = Upto(chan, op, (Lead(op) + Nodes + idx) + 1) /\ work' # <<>>
        /\ req' \in Seq(Marks) /\ work' \in Seq(Marks)
        /\ InPlace => req' = work'
        /\ ~InPlace => req' = <<>>
    <3>1. PICK k \in 0..(Size(op) - 1) : k = Lead(op) + Nodes + idx
      BY <2>1
    <3> QED BY <1>0, <2>0, <2>2, <3>1, Touched
  <2>4. CASE idx' = idx + 1 /\ UNCHANGED <<pc, result, cause>>
    <3>1. TypeOK'
      BY <1>0, <2>1, <2>3, <2>4 DEF TypeOK
    <3>2. Position'
      BY <1>0, <2>1, <2>3, <2>4 DEF Position
    <3>3. Judged' /\ Kept' /\ Panics'
      BY <1>0, <2>3, <2>4 DEF Judged, Kept, Panics
    <3> QED BY <1>0, <2>4, <3>1, <3>2, <3>3, NotYet DEF CallInv
  <2>5. CASE Unwind("exit") /\ UNCHANGED idx
    <3>0. pc' = "end" /\ result' = "panic" /\ cause' = "exit"
      BY <2>5 DEF Unwind
    <3>1. TypeOK'
      BY <1>0, <2>3, <2>5, <3>0 DEF TypeOK
    <3>2. Position'
      BY <1>0, <2>1, <2>3, <3>0 DEF Position
    <3>3. Judged' /\ Kept' /\ Panics'
      BY <1>0, <2>3, <3>0 DEF Judged, Kept, Panics
    <3> QED BY <3>0, <3>1, <3>2, <3>3, NotYet DEF CallInv
  <2> QED BY <2>0, <2>4, <2>5
<1> QED
  BY <1>1, <1>2

-----------------------------------------------------------------------------
(* Attempts begin and end, and calls return.                                *)

(* What the first k marks do not hold.                                      *)
LEMMA Absent ==
    ASSUME NEW k \in 0..Size(op), work = Upto(chan, op, k)
    PROVE  /\ k <= Lead(op) + Nodes => ~Ran(<<"core", 0>>)
           /\ k <= Lead(op) + Nodes + 1 => NoExit
           /\ work # <<>> => work[Len(work)] # <<"fallback", 0>>
<1>0. Nodes \in Nat /\ Lead(op) \in {0, 1} /\ Size(op) = Lead(op) + 2 * Nodes + 1
  BY Sizes
<1>1. /\ work \in Seq(Marks) /\ Len(work) = k /\ DOMAIN work = 1..k
      /\ \A i \in 1..k : work[i] = Full(chan, op)[i]
  <2>1. PICK u : u = Upto(chan, op, k)
    OBVIOUS
  <2>2. u \in Seq(Marks) /\ Len(u) = k /\ \A i \in 1..k : u[i] = Full(chan, op)[i]
    BY <2>1, Growing
  <2>3. DOMAIN u = 1..k
    BY <2>2
  <2> QED BY <2>1, <2>2, <2>3
<1>2. ASSUME k <= Lead(op) + Nodes PROVE ~Ran(<<"core", 0>>)
  <2>1. \A i \in 1..k : i \in 1..(Lead(op) + Nodes)
    BY <1>0, <1>2
  <2>2. \A i \in 1..k : work[i] # <<"core", 0>>
    BY <1>1, <2>1, MarksWithin
  <2> QED BY <1>1, <2>2 DEF Ran
<1>3. ASSUME k <= Lead(op) + Nodes + 1 PROVE NoExit
  <2>1. \A i \in 1..k : i \in 1..(Lead(op) + Nodes + 1)
    BY <1>0, <1>3
  <2>2. \A i \in 1..k, j \in 1..Nodes : work[i] # <<"exit", j>>
    BY <1>1, <2>1, MarksWithin
  <2> QED BY <1>1, <2>2 DEF Ran, NoExit
<1>4. ASSUME work # <<>> PROVE work[Len(work)] # <<"fallback", 0>>
  <2>1. k \in 1..Size(op) /\ k \in 1..k
    BY <1>0, <1>1, <1>4
  <2> QED BY <1>1, <2>1, MarksWithin
<1> QED
  BY <1>2, <1>3, <1>4

(* What is known of a call that is over apart from its answer.              *)
LEMMA Over ==
    ASSUME CallInv, UNCHANGED <<fixed, work>>, pc' = "done", pc # "loop" \/ op # "trace"
    PROVE  Position' /\ Judged' /\ Kept' /\ Panics'
<1>1. chan' = chan /\ op' = op /\ tries' = tries /\ work' = work
  BY DEF fixed
<1> QED
  BY <1>1 DEF CallInv, Position, Judged, Kept, Panics

(* An attempt's result is true of it, and stays true when it is answered.   *)
LEMMA Answered ==
    ASSUME CallInv, UNCHANGED <<fixed, work, cause>>, pc \in {"loop", "end"}, pc' = "done",
           \/ result' = result /\ (pc = "end" \/ result # "ok")
           \/ result' = "rejected" /\ (cause # "none" \/ (pc = "loop" /\ op # "retry"))
    PROVE  AnswersTrue'
<1>0. /\ Whole' = Whole /\ Inwards' = Inwards /\ chan' = chan /\ op' = op
      /\ work' = work /\ cause' = cause
      /\ Nodes \in Nat /\ Lead(op) \in {0, 1} /\ Size(op) = Lead(op) + 2 * Nodes + 1
  BY Same, Sizes DEF Inwards
<1>1. ~Ran(<<"core", 0>>)' = ~Ran(<<"core", 0>>)
  BY <1>0 DEF Ran
<1>2. ASSUME result \in {"continue", "halted", "timeout", "rejected"}
      PROVE  ~Ran(<<"core", 0>>)
  <2>1. PICK k \in 0..(Lead(op) + Nodes) : work = Upto(chan, op, k)
    BY <1>2 DEF CallInv, Judged
  <2>2. k \in 0..Size(op) /\ k <= Lead(op) + Nodes
    BY <1>0
  <2> QED BY <2>1, <2>2, Absent
<1>3. CASE result' = result /\ (pc = "end" \/ result # "ok")
  <2>1. /\ result = "ok" => work = Full(chan, op)
        /\ result = "core" => IF chan = "opaque" THEN work = Full(chan, op) ELSE work = Inwards
    BY <1>3 DEF CallInv, Judged
  <2>2. /\ result = "ok" /\ chan # "precompiled" => work = Whole
        /\ result = "core" => IF chan = "opaque" THEN work = Whole ELSE work = Inwards
    BY <2>1, WholeIs
  <2>3. result = "ok" /\ chan = "precompiled" => EachExit
    <3>1. chan = "precompiled" => op # "trace"
      BY OnlyOpaqueTraces DEF CallInv
    <3> QED BY <2>1, <3>1, AllLeft
  <2>4. EachExit' = EachExit
    BY <1>0 DEF EachExit, Ran
  <2> QED BY <1>0, <1>1, <1>2, <1>3, <2>2, <2>3, <2>4 DEF AnswersTrue
<1>4. CASE result' = "rejected" /\ (cause # "none" \/ (pc = "loop" /\ op # "retry"))
  <2>1. cause # "none" \/ result \in {"continue", "halted"}
    BY <1>4 DEF CallInv, Judged
  <2> QED BY <1>0, <1>1, <1>2, <1>4, <2>1 DEF AnswersTrue
<1> QED
  BY <1>3, <1>4

LEMMA LoopStep ==
    ASSUME CallInv, Loop
    PROVE  CallInv'
<1>0. /\ TypeOK /\ Position /\ Judged /\ Kept /\ Panics /\ pc = "loop"
      /\ op = "trace" => req # <<>>
      /\ chan' = chan /\ op' = op /\ tries' = tries /\ InPlace' = InPlace
      /\ UNCHANGED <<fixed, req, result, cause>> /\ cause = "none"
      /\ req \in Seq(Marks) /\ Nodes \in Nat
  BY Same, Sizes DEF CallInv, Loop, TypeOK, Panics
<1>1. CASE attempt = tries
  <2>1. /\ pc' = "done" /\ UNCHANGED <<idx, attempt, work>>
        /\ op = "retry" /\ ~InPlace /\ req = <<>> /\ result \notin {"ok", "panic"}
    BY <1>0, <1>1 DEF Loop, Kept, InPlace, Judged
  <2>2. TypeOK' /\ Position' /\ Judged' /\ Kept' /\ Panics'
    BY <1>0, <2>1, Over DEF TypeOK
  <2>3. AnswersTrue'
    BY <1>0, <2>1, Answered
  <2>4. RequestKept'
    BY <1>0, <1>1, <2>1 DEF RequestKept, FellBack
  <2> QED BY <2>2, <2>3, <2>4 DEF CallInv
<1>2. CASE attempt # tries
  <2>1. pc' = "enter" /\ idx' = 1 /\ attempt' = attempt + 1 /\ work' = req /\ req' = req
    BY <1>0, <1>2 DEF Loop, Clone
  <2>2. attempt + 1 \in 0..tries
    BY <1>0, <1>2, SizeAssumption DEF TypeOK
  <2>3. TypeOK'
    <3>1. 1 \in 1..Nodes + 1
      BY <1>0
    <3> QED BY <1>0, <2>1, <2>2, <3>1 DEF TypeOK
  <2>4. /\ req = Upto(chan, op, Lead(op)) /\ Lead(op) + 1 - 1 = Lead(op)
        /\ Lead(op) \in 0..Size(op)
    <3>1. CASE op = "trace"
      BY <1>0, <3>1, Sizes DEF Kept, Lead
    <3>2. CASE op # "trace"
      <4>1. req = <<>> /\ Lead(op) = 0
        BY <1>0, <3>2 DEF Kept, Lead
      <4> QED BY <4>1, Growing, Sizes
    <3> QED BY <3>1, <3>2
  <2>5. Position'
    BY <1>0, <2>1, <2>4 DEF Position
  <2>6. Judged' /\ Kept' /\ Panics'
    BY <1>0, <2>1 DEF Judged, Kept, Panics
  <2> QED BY <2>1, <2>3, <2>5, <2>6, NotYet DEF CallInv
<1> QED
  BY <1>1, <1>2

LEMMA SetTraceStep ==
    ASSUME CallInv, SetTrace
    PROVE  CallInv'
<1>0. /\ TypeOK /\ Position /\ Judged /\ Kept /\ Panics /\ RequestKept
      /\ op = "trace" /\ req = <<>> /\ Touch(<<"trace", 0>>)
      /\ UNCHANGED <<fixed, pc, idx, attempt, result, cause>>
      /\ chan' = chan /\ op' = op /\ tries' = tries /\ InPlace' = InPlace /\ Whole' = Whole
      /\ Nodes \in Nat /\ Lead(op) = 1 /\ Size(op) = Lead(op) + 2 * Nodes + 1
  BY Same, Sizes DEF CallInv, SetTrace, Lead
<1>1. InPlace
  BY <1>0, OnlyOpaqueTraces DEF InPlace
<1>2. pc = "loop"
  <2>1. CASE pc = "done"
    BY <1>0, <1>1, <2>1 DEF RequestKept, FellBack, Position
  <2>2. CASE pc # "done"
    BY <1>0, <1>1, <2>2 DEF Kept, Position
  <2> QED BY <2>1, <2>2
<1>3. work = Upto(chan, op, 0) /\ 0 \in 0..(Size(op) - 1) /\ 0 + 1 = 1 /\ 1 \in 0..(Lead(op) + Nodes)
  BY <1>0, <1>1, <1>2, Growing DEF Kept
<1>4. /\ work' = Upto(chan, op, 1) /\ 1 \in 0..Size(op)
      /\ req' \in Seq(Marks) /\ work' \in Seq(Marks) /\ req' = work'
  <2>1. PICK k \in 0..(Size(op) - 1) : k = 0
    BY <1>3
  <2>2. Full(chan, op)[k + 1] = <<"trace", 0>>
    <3>1. Full(chan, op)[1] = <<"trace", 0>>
      BY <1>0, MarkAt
    <3> QED BY <1>3, <2>1, <3>1
  <2>3. pc # "done" /\ work = Upto(chan, op, k)
    BY <1>2, <1>3, <2>1
  <2>4. /\ work' = Upto(chan, op, k + 1) /\ k + 1 \in 0..Size(op)
        /\ req' \in Seq(Marks) /\ work' \in Seq(Marks) /\ req' = work'
    BY <1>0, <1>1, <2>2, <2>3, Touched
  <2> QED BY <2>1, <2>4
<1>5. result \in {"continue", "halted"}
  BY <1>0, <1>2 DEF Judged
<1>6. TypeOK' /\ Position'
  BY <1>0, <1>2, <1>4 DEF TypeOK, Position
<1>7. Judged' /\ Kept' /\ Panics'
  BY <1>0, <1>1, <1>2, <1>3, <1>4, <1>5 DEF Judged, Kept, Panics
<1> QED
  BY <1>0, <1>2, <1>6, <1>7, NotYet DEF CallInv

LEMMA OverdueStep ==
    ASSUME CallInv, Overdue
    PROVE  CallInv'
<1>0. /\ TypeOK /\ Kept /\ Panics /\ pc = "loop" /\ op = "deadline"
      /\ pc' = "done" /\ result' = "rejected"
      /\ UNCHANGED <<fixed, idx, attempt, req, work, cause>> /\ cause = "none"
      /\ chan' = chan /\ op' = op /\ tries' = tries /\ InPlace' = InPlace
  BY Same DEF CallInv, Overdue, Panics
<1>1. TypeOK' /\ Position' /\ Judged' /\ Kept' /\ Panics'
  BY <1>0, Over DEF TypeOK
<1>2. AnswersTrue'
  BY <1>0, Answered
<1>3. RequestKept'
  BY <1>0 DEF Kept, RequestKept, FellBack, InPlace
<1> QED
  BY <1>1, <1>2, <1>3 DEF CallInv

LEMMA EndStep ==
    ASSUME CallInv, End
    PROVE  CallInv'
<1>0. /\ TypeOK /\ Position /\ Judged /\ Kept /\ Panics /\ pc = "end"
      /\ UNCHANGED <<fixed, idx, attempt, work, cause>>
      /\ chan' = chan /\ op' = op /\ tries' = tries /\ attempt' = attempt /\ work' = work
      /\ cause' = cause /\ InPlace' = InPlace /\ Whole' = Whole
      /\ req \in Seq(Marks) /\ work \in Seq(Marks)
      /\ InPlace => req = work
      /\ ~InPlace => req = <<>>
      /\ cause # "none" <=> result = "panic"
      /\ RetryEnd \/ OrEnd \/ CatchEnd \/ PlainEnd
  BY Same DEF CallInv, End, TypeOK, Kept, Panics
<1>1. PICK n \in 0..Size(op) : work = Upto(chan, op, n)
  BY <1>0 DEF Position
<1>2. work # <<>> => work[Len(work)] # <<"fallback", 0>>
  BY <1>1, Absent
<1>3. CASE op = "retry"
  <2>1. /\ req' = IF chan = "opaque" /\ result = "ok" THEN work ELSE req
        /\ pc' = IF Failed THEN "loop" ELSE "done"
        /\ result' = result /\ ~InPlace /\ req = <<>>
    BY <1>0, <1>3 DEF RetryEnd, OrEnd, CatchEnd, PlainEnd, InPlace
  <2>2. TypeOK'
    BY <1>0, <2>1 DEF TypeOK
  <2>3. CASE Failed
    <3>1. pc' = "loop" /\ req' = <<>> /\ result \notin {"ok", "panic"} /\ cause = "none"
      BY <1>0, <2>1, <2>3 DEF Failed
    <3>2. Position'
      BY <1>0, <1>3, <3>1 DEF Position
    <3>3. Judged'
      <4>1. Inwards' = Inwards
        BY DEF Inwards
      <4> QED BY <1>0, <1>3, <2>1, <3>1, <4>1 DEF Judged
    <3>4. Kept' /\ Panics'
      BY <1>0, <1>3, <2>1, <3>1 DEF Kept, Panics
    <3> QED BY <2>2, <3>1, <3>2, <3>3, <3>4, NotYet DEF CallInv
  <2>4. CASE ~Failed
    <3>1. pc' = "done" /\ result \in {"ok", "panic"}
      BY <2>1, <2>4 DEF Failed
    <3>2. Position' /\ Judged' /\ Kept' /\ Panics' /\ AnswersTrue'
      BY <1>0, <2>1, <3>1, Over, Answered
    <3>3. result = "ok" /\ chan = "opaque" => work = Whole
      BY <1>0, WholeIs DEF Judged
    <3>4. RequestKept'
      BY <1>0, <1>3, <2>1, <3>1, <3>3 DEF RequestKept, FellBack
    <3> QED BY <2>2, <3>2, <3>4 DEF CallInv
  <2> QED BY <2>3, <2>4
<1>4. CASE op = "or"
  <2>1. /\ pc' = "done"
        /\ IF Failed THEN req' = Append(req, <<"fallback", 0>>) /\ result' = "ok"
                     ELSE req' = req /\ result' = result
    BY <1>0, <1>4 DEF RetryEnd, OrEnd, CatchEnd, PlainEnd
  <2>2. Position' /\ Judged' /\ Kept' /\ Panics'
    BY <1>0, <2>1, Over
  <2>3. CASE Failed
    <3>1. req' = Append(req, <<"fallback", 0>>) /\ result' = "ok" /\ cause = "none"
      BY <1>0, <2>1, <2>3 DEF Failed
    <3>2. /\ req' \in Seq(Marks) /\ req' # <<>> /\ req'[Len(req')] = <<"fallback", 0>>
          /\ req = <<>> => req' = <<<<"fallback", 0>>>>
      <4>1. PICK m \in Marks : m = <<"fallback", 0>>
        BY MarksOfNodes
      <4>2. req' = Append(req, m)
        BY <3>1, <4>1
      <4>3. /\ req' \in Seq(Marks) /\ req' # <<>> /\ Len(req') = Len(req) + 1
            /\ req'[Len(req) + 1] = m
        BY <1>0, <4>2, AppendProperties
      <4>4. req = <<>> => req' = <<m>>
        BY <4>2
      <4> QED BY <4>1, <4>3, <4>4
    <3>3. TypeOK'
      BY <1>0, <2>1, <3>1, <3>2 DEF TypeOK
    <3>4. FellBack'
      BY <1>0, <1>4, <3>2 DEF FellBack
    <3>5. NoExit'
      <4>1. \E k \in 0..(Lead(op) + Nodes + 1) : work = Upto(chan, op, k)
        <5>1. CASE result = "core"
          <6>1. work = Inwards
            BY <1>0, <1>4, <5>1 DEF Judged
          <6>2. work = Upto(chan, op, Nodes + 1)
            BY <1>4, <6>1, InwardsUpto
          <6>3. Nodes + 1 \in 0..(Lead(op) + Nodes + 1)
            BY Sizes
          <6> QED BY <6>2, <6>3
        <5>2. CASE result # "core"
          <6>1. result \in {"continue", "halted", "timeout", "rejected"}
            BY <1>0, <2>3, <5>2 DEF Failed, TypeOK
          <6>2. PICK k \in 0..(Lead(op) + Nodes) : work = Upto(chan, op, k)
            BY <1>0, <6>1 DEF Judged
          <6>3. k \in 0..(Lead(op) + Nodes + 1)
            BY Sizes
          <6> QED BY <6>2, <6>3
        <5> QED BY <5>1, <5>2
      <4>2. PICK k \in 0..(Lead(op) + Nodes + 1) : work = Upto(chan, op, k)
        BY <4>1
      <4>3. k \in 0..Size(op) /\ k <= Lead(op) + Nodes + 1
        BY Sizes
      <4>4. NoExit
        BY <4>2, <4>3, Absent
      <4> QED BY <1>0, <4>4 DEF NoExit, Ran
    <3>6. AnswersTrue'
      <4>1. chan # "precompiled"
        BY <1>0, <1>4 DEF TypeOK, Operations
      <4> QED BY <1>0, <3>1, <3>4, <3>5, <4>1 DEF AnswersTrue
    <3>7. RequestKept'
      BY <1>0, <1>4, <3>1, <3>2, <3>4 DEF RequestKept, InPlace
    <3> QED BY <2>2, <3>3, <3>6, <3>7 DEF CallInv
  <2>4. CASE ~Failed
    <3>1. req' = req /\ result' = result
      BY <2>1, <2>4
    <3>2. TypeOK' /\ AnswersTrue'
      BY <1>0, <2>1, <3>1, Answered DEF TypeOK
    <3>3. ~FellBack'
      BY <1>0, <1>2, <3>1 DEF FellBack
    <3>4. RequestKept'
      BY <1>0, <1>4, <2>1, <3>1, <3>3 DEF RequestKept, InPlace
    <3> QED BY <2>2, <3>2, <3>4 DEF CallInv
  <2> QED BY <2>3, <2>4
<1>5. CASE op = "catch"
  <2>1. /\ pc' = "done" /\ req' = req
        /\ result' = IF result = "panic" /\ Catches THEN "rejected" ELSE result
    BY <1>0, <1>5 DEF RetryEnd, OrEnd, CatchEnd, PlainEnd
  <2>2. TypeOK'
    BY <1>0, <2>1 DEF TypeOK
  <2>3. Position' /\ Judged' /\ Kept' /\ Panics' /\ AnswersTrue'
    BY <1>0, <2>1, Over, Answered
  <2>4. RequestKept'
    BY <1>0, <1>5, <2>1 DEF RequestKept, FellBack, InPlace
  <2> QED BY <2>2, <2>3, <2>4 DEF CallInv
<1>6. CASE op \notin {"retry", "or", "catch"}
  <2>1. pc' = "done" /\ req' = req /\ result' = result
    BY <1>0, <1>6 DEF RetryEnd, OrEnd, CatchEnd, PlainEnd
  <2>2. TypeOK'
    BY <1>0, <2>1 DEF TypeOK
  <2>3. Position' /\ Judged' /\ Kept' /\ Panics' /\ AnswersTrue'
    BY <1>0, <2>1, Over, Answered
  <2>4. RequestKept'
    BY <1>0, <1>6, <2>1 DEF RequestKept, FellBack, InPlace
  <2> QED BY <2>2, <2>3, <2>4 DEF CallInv
<1> QED
  BY <1>3, <1>4, <1>5, <1>6

LEMMA CallStarts ==
    ASSUME Init
    PROVE  CallInv
<1>0. /\ pc = "loop" /\ idx = 1 /\ attempt = 0 /\ req = <<>> /\ work = <<>> /\ cause = "none"
      /\ result = NoAttempt(chan) /\ chan \in DOMAIN Operations /\ op \in Operations[chan]
      /\ tries \in IF op = "retry" THEN 0..MaxTries ELSE {1}
      /\ result \in {"continue", "halted"} /\ Nodes \in Nat /\ MaxTries \in Nat
  BY Sizes, SizeAssumption DEF Init, NoAttempt
<1>1. /\ tries \in 0..MaxTries \cup {1} /\ 0 \in 0..tries /\ 1 \in 1..Nodes + 1
      /\ 0 \in 0..Size(op) /\ 0 \in 0..(Lead(op) + Nodes)
  BY <1>0, Sizes
<1>2. work = Upto(chan, op, 0)
  BY <1>0, Growing
<1>3. TypeOK
  BY <1>0, <1>1 DEF TypeOK
<1>4. Position /\ Judged /\ Kept /\ Panics
  BY <1>0, <1>1, <1>2 DEF Position, Judged, Kept, Panics
<1> QED
  BY <1>0, <1>3, <1>4 DEF CallInv, AnswersTrue, RequestKept

LEMMA CallStutters ==
    ASSUME CallInv, UNCHANGED vars
    PROVE  CallInv'
<1>1. /\ Whole' = Whole /\ InPlace' = InPlace /\ Inwards' = Inwards
      /\ UNCHANGED <<chan, op, tries, pc, idx, attempt, req, work, result, cause>>
  BY Same DEF vars, fixed, Inwards
<1> QED
  BY <1>1 DEF CallInv, TypeOK, Position, Judged, Kept, Panics, AnswersTrue, RequestKept,
     FellBack, NoExit, EachExit, Ran

LEMMA CallInvariant == Spec => []CallInv
<1>1. ASSUME CallInv, [Next]_vars
      PROVE  CallInv'
  <2>1. CASE Enter \/ Await
    BY <1>1, <2>1, NodeStep DEF Enter, Await
  <2> QED
    BY <1>1, <2>1, LoopStep, SetTraceStep, OverdueStep, CancelStep, CoreStep, ExitStep, EndStep,
       CallStutters DEF Next
<1> QED
  BY <1>1, CallStarts, PTL DEF Spec

(* The state of a call keeps its shape; no attempt beyond the last begins.  *)
THEOREM CallTypeCorrect == Spec => []TypeOK
BY CallInvariant, PTL DEF CallInv

(* Whatever a call of a chain of any length answers is true of what ran,    *)
(* through every channel and under every wrapper.                           *)
THEOREM AnswersAreTrue == Spec => []AnswersTrue
BY CallInvariant, PTL DEF CallInv

(* A call leaves in the caller's request what its wrapper promises:         *)
(* nothing, a whole onion, or as much as was done in place.                 *)
THEOREM RequestsAreKept == Spec => []RequestKept
BY CallInvariant, PTL DEF CallInv

-----------------------------------------------------------------------------
(***************************************************************************)
(* A batch.  The caller joins in input order, so that what it has          *)
(* collected is a prefix of the answers, and a thread that has been joined *)
(* has ended and does not change again.                                    *)
(***************************************************************************)

(* Only threads that have ended are joined.                                 *)
JoinedEnded == \A i \in 1..joined : worker[i] \in Ended

(* The answers of the joined threads, in input order.                       *)
Collected == Len(results) = joined /\ \A i \in 1..joined : results[i] = Answer(i)

(* The plain chain stopped at the first bad input.                          *)
Stopped ==
    /\ joined \in Inputs /\ worker[joined] # "ok" /\ results = <<"error">>
    /\ \A j \in 1..(joined - 1) : worker[j] = "ok"

(* What has been collected when the caller is still joining, and after.     *)
Progress ==
    IF caller \in {"spawning", "joining"}
    THEN Collected /\ (flavour = "chain" => \A i \in 1..joined : worker[i] = "ok")
    ELSE \/ joined = Batch /\ Collected
            /\ (flavour = "chain" => \A i \in 1..joined : worker[i] = "ok")
         \/ flavour = "chain" /\ Stopped

(* A call is over when every thread is, and only one that left threads      *)
(* behind can panic.                                                        *)
AllOver ==
    Returned => /\ \A i \in Inputs : worker[i] \in Ended
                /\ caller = "panicked" => joined < Batch

BatchInv == BatchTypeOK /\ JoinedEnded /\ Progress /\ AllOver

LEMMA BatchStarts == BatchInit => BatchInv
BY BatchAssumption
   DEF BatchInit, BatchInv, BatchTypeOK, JoinedEnded, Progress, Collected, AllOver, Returned

LEMMA BatchStep == BatchInv /\ [BatchNext]_batchVars => BatchInv'
<1> SUFFICES ASSUME BatchInv, [BatchNext]_batchVars PROVE BatchInv'
  OBVIOUS
<1> USE BatchAssumption DEF BatchInv, BatchTypeOK, JoinedEnded, Progress, AllOver, Inputs, Ended
<1>1. CASE Spawn
  BY <1>1 DEF Spawn, Collected, Answer, Returned
<1>2. ASSUME NEW i \in Inputs, Finish(i) PROVE BatchInv'
  <2>1. \A j \in Inputs : worker[j] \in Ended => worker'[j] = worker[j]
    BY <1>2 DEF Finish
  <2>2. worker' \in [Inputs -> Ended \cup {"new", "running"}]
    BY <1>2 DEF Finish
  <2>3. UNCHANGED <<flavour, joined, results, caller>>
    BY <1>2 DEF Finish
  <2>4. 1..joined \subseteq Inputs
    OBVIOUS
  <2> QED BY <2>1, <2>2, <2>3, <2>4 DEF Collected, Answer, Stopped, Returned
<1>3. CASE Join
  <2>1. /\ caller = "joining" /\ joined' = joined + 1 /\ joined' \in Inputs
        /\ worker[joined + 1] \in Ended /\ UNCHANGED <<flavour, worker>>
    BY <1>3 DEF Join
  <2>2. CASE flavour = "chain" /\ Answer(joined + 1) = "error"
    <3>1. caller' = "leaving" /\ results' = <<"error">>
      BY <1>3, <2>2 DEF Join
    <3>2. Stopped'
      BY <2>1, <2>2, <3>1 DEF Stopped, Answer
    <3> QED BY <2>1, <2>2, <3>1, <3>2 DEF Returned
  <2>3. CASE ~(flavour = "chain" /\ Answer(joined + 1) = "error")
    <3>1. caller' = caller /\ results' = Append(results, Answer(joined + 1))
      BY <1>3, <2>3 DEF Join
    <3>2. Answer(joined + 1) \in {"ok", "error"}
      BY DEF Answer
    <3>3. Collected'
      BY <2>1, <3>1, <3>2, AppendProperties DEF Collected, Answer
    <3>4. flavour = "chain" => worker[joined + 1] = "ok"
      BY <2>3 DEF Answer
    <3> QED BY <2>1, <3>1, <3>2, <3>3, <3>4 DEF Returned
  <2> QED BY <2>2, <2>3
<1>4. CASE AllJoined
  BY <1>4 DEF AllJoined, Collected, Answer, Returned
<1>5. CASE Leave
  BY <1>5 DEF Leave, Collected, Answer, Stopped, Returned
<1>6. CASE UNCHANGED batchVars
  BY <1>6 DEF batchVars, Collected, Answer, Stopped, Returned
<1> QED BY <1>1, <1>2, <1>3, <1>4, <1>5, <1>6 DEF BatchNext, CallerStep

LEMMA BatchInvariant == BatchSpec => []BatchInv
BY BatchStarts, BatchStep, PTL DEF BatchSpec

(* The state keeps its shape, for every batch.                              *)
THEOREM BatchTypeCorrect == BatchSpec => []BatchTypeOK
BY BatchInvariant, PTL DEF BatchInv

(* The opaque chain answers every input in input order, whichever threads   *)
(* fail or panic and in whatever order they end, and never panics itself.   *)
THEOREM OpaqueAnswers == BatchSpec => []OpaqueAnswersAll
<1>1. BatchInv => OpaqueAnswersAll
  <2> SUFFICES ASSUME BatchInv, Returned, flavour = "opaque"
               PROVE  /\ caller = "returned"
                      /\ results = [i \in Inputs |-> IF worker[i] = "ok" THEN "ok" ELSE "error"]
    BY DEF OpaqueAnswersAll
  <2>1. joined = Batch /\ Collected
    BY DEF BatchInv, Progress, Returned
  <2> QED BY <2>1, BatchAssumption DEF BatchInv, BatchTypeOK, AllOver, Returned, Collected, Answer, Inputs
<1> QED BY <1>1, BatchInvariant, PTL

(* The plain chain answers all inputs, or with the error of the first bad   *)
(* one in input order, whichever thread failed first.                       *)
THEOREM ChainAnswers == BatchSpec => []ChainAllOrFirstError
<1>1. BatchInv => ChainAllOrFirstError
  <2> SUFFICES ASSUME BatchInv, Returned, flavour = "chain" PROVE ChainAllOrFirstError
    BY DEF ChainAllOrFirstError
  <2>1. CASE Stopped
    BY <2>1 DEF Stopped, ChainAllOrFirstError
  <2>2. CASE joined = Batch /\ Collected /\ \A i \in 1..joined : worker[i] = "ok"
    BY <2>2, BatchAssumption DEF BatchInv, BatchTypeOK, Collected, Answer, Inputs, ChainAllOrFirstError
  <2> QED BY <2>1, <2>2 DEF BatchInv, Progress, Returned
<1> QED BY <1>1, BatchInvariant, PTL
=============================================================================
