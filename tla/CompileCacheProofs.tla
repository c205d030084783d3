------------------------- MODULE CompileCacheProofs -------------------------
(***************************************************************************)
(* Proofs about CompileCache for any threads, sources and bounds.  A       *)
(* number belongs to one thread at a time, whatever crashes have left      *)
(* under it, so that nobody else writes its crate, its artefact or its     *)
(* temporary file.                                                         *)
(***************************************************************************)
EXTENDS CompileCache, FiniteSetTheorems, SequenceTheorems, TLAPS

(* A directory has one file of a name at most.                              *)
OneOfAName(d) == \A i, j \in DOMAIN d : SameName(d[i], d[j]) => i = j

(* Threads that have taken a number, and those that still need two or one.  *)
Numbered == {t \in Threads : req[t].pc \in {"lock", "build", "copy", "copying", "rename"}}
NeedTwo == {t \in Threads : req[t].pc = "prepare"}
NeedOne == {t \in Threads : req[t].pc \in {"lock", "build", "copy"}}

Apart ==
    /\ \A t \in Threads : req[t].pc # "idle" => req[t].src \in Sources
    /\ \A t \in Numbered : req[t].n < counter
    /\ \A t, u \in Numbered : t # u => req[t].n # req[u].n
    /\ counter + 2 * Cardinality(NeedTwo) + Cardinality(NeedOne) <= MaxCount

(* The crate, the artefact and the temporary file of a request.             *)
Crates ==
    /\ \A t \in Threads : req[t].pc \in {"lock", "build"} => crates[req[t].n] = req[t].src
    /\ \A t \in Threads : req[t].pc = "copy" => target[req[t].n] \in {None, req[t].src}

(* A set of files: finished entries are whole and of their source, an entry *)
(* stands under a source, and the copy of a request is of its source.       *)
Correct(D) == \A g \in D : g.kind = "entry" => g.whole /\ g.built = g.src
Stands(D, s) == \E g \in D : SameName(g, Entry(s, s, TRUE))
CopyOf(D, r) == \A g \in D :
    SameName(g, Temp(r.src, r.n, None, FALSE)) => /\ g.built = r.src
                                                  /\ r.pc = "rename" => g.whole

Directory ==
    /\ OneOfAName(dir)
    /\ Correct(ToSet(dir))
    /\ \A t \in Threads : req[t].pc \in {"copying", "rename"} => CopyOf(ToSet(dir), req[t])
    /\ \A t \in Threads : req[t].pc = "load" /\ ~req[t].gone => Stands(ToSet(dir), req[t].src)

(* A sweep counts at least the files it has left.                           *)
Swept == Len(sweep.left) <= sweep.total

IInv == TypeOK /\ Apart /\ Crates /\ Directory /\ Swept

Requests == [pc : {"idle", "load", "prepare", "lock", "build", "copy", "copying", "rename"},
             src : Sources \cup {None}, n : Numbers, gone : BOOLEAN]

(* How the request of a thread goes on or ends.                             *)
Goes(t, p, q, n) ==
    /\ req[t].pc = p /\ req'[t].pc = q
    /\ req'[t].src = req[t].src /\ req'[t].n = n /\ req'[t].gone = req[t].gone
Ends(t, p) == req[t].pc = p /\ req'[t] = Idle
Others(t) == \A u \in Threads : u # t => req'[u] = req[u]

-----------------------------------------------------------------------------
(* What the operations on directories do to the set of files.               *)

(* A sequence that has lost its k-th element.                               *)
LEMMA Removed ==
    ASSUME NEW S, NEW d \in Seq(S), NEW k \in 1..Len(d)
    PROVE  /\ RemoveAt(d, k) \in Seq(S)
           /\ Len(RemoveAt(d, k)) = Len(d) - 1
           /\ \A i \in 1..(Len(d) - 1) : RemoveAt(d, k)[i] = d[IF i < k THEN i ELSE i + 1]
<1>0. /\ Len(d) \in Nat /\ k \in Int /\ k - 1 \in Int /\ k + 1 \in Int
      /\ \A i \in 1..Len(d) : d[i] \in S
  OBVIOUS
<1>1. /\ SubSeq(d, 1, k - 1) \in Seq(S)
      /\ Len(SubSeq(d, 1, k - 1)) = k - 1
      /\ \A i \in 1..(k - 1) : SubSeq(d, 1, k - 1)[i] = d[i]
  <2>1. \A i \in 1..(k - 1) : d[i] \in S
    BY <1>0
  <2> QED
    BY <1>0, <2>1, SubSeqProperties
<1>2. /\ SubSeq(d, k + 1, Len(d)) \in Seq(S)
      /\ Len(SubSeq(d, k + 1, Len(d))) = Len(d) - k
      /\ \A i \in 1..(Len(d) - k) : SubSeq(d, k + 1, Len(d))[i] = d[k + i]
  <2>1. \A i \in (k + 1)..Len(d) : d[i] \in S
    BY <1>0
  <2>2. /\ SubSeq(d, k + 1, Len(d)) \in Seq(S)
        /\ Len(SubSeq(d, k + 1, Len(d))) = IF k + 1 <= Len(d) THEN Len(d) - (k + 1) + 1 ELSE 0
        /\ \A i \in 1..(Len(d) - (k + 1) + 1) : SubSeq(d, k + 1, Len(d))[i] = d[(k + 1) + i - 1]
    BY <1>0, <2>1, SubSeqProperties
  <2> QED
    BY <1>0, <2>2
<1> DEFINE A == SubSeq(d, 1, k - 1)
           B == SubSeq(d, k + 1, Len(d))
<1>3. /\ A \o B \in Seq(S)
      /\ Len(A \o B) = Len(A) + Len(B)
      /\ \A i \in 1..(Len(A) + Len(B)) : (A \o B)[i] = IF i <= Len(A) THEN A[i] ELSE B[i - Len(A)]
  BY <1>1, <1>2, ConcatProperties
<1>4. Len(A) = k - 1 /\ Len(B) = Len(d) - k
  BY <1>1, <1>2
<1> HIDE DEF A, B
<1>5. Len(A) + Len(B) = Len(d) - 1
  BY <1>0, <1>4
<1>6. ASSUME NEW i \in 1..(Len(d) - 1)
      PROVE  (A \o B)[i] = d[IF i < k THEN i ELSE i + 1]
  <2>0. (A \o B)[i] = IF i <= k - 1 THEN A[i] ELSE B[i - (k - 1)]
    BY <1>3, <1>4, <1>5
  <2>1. CASE i < k
    <3>1. i \in 1..(k - 1) /\ i <= k - 1
      BY <1>0, <2>1
    <3> QED
      BY <1>1, <2>0, <2>1, <3>1 DEF A
  <2>2. CASE ~(i < k)
    <3>1. i - (k - 1) \in 1..(Len(d) - k) /\ k + (i - (k - 1)) = i + 1 /\ ~(i <= k - 1)
      BY <1>0, <2>2
    <3>2. B[i - (k - 1)] = d[k + (i - (k - 1))]
      BY <1>2, <3>1 DEF B
    <3> QED
      BY <2>0, <2>2, <3>1, <3>2
  <2> QED
    BY <2>1, <2>2
<1>7. RemoveAt(d, k) = A \o B
  BY DEF RemoveAt, A, B
<1> QED
  BY <1>3, <1>6, <1>5, <1>7

(* Without takes away the files of one name, of which there is one at most. *)
LEMMA Kept ==
    ASSUME NEW S, NEW d \in Seq(S), OneOfAName(d), NEW f
    PROVE  /\ Without(d, f) \in Seq(S)
           /\ OneOfAName(Without(d, f))
           /\ ToSet(Without(d, f)) = {g \in ToSet(d) : ~SameName(g, f)}
<1>0. Len(d) \in Nat /\ DOMAIN d = 1..Len(d)
  OBVIOUS
<1>1. CASE ~Has(d, f)
  <2>1. Without(d, f) = d
    BY <1>1 DEF Without
  <2>2. \A g \in ToSet(d) : ~SameName(g, f)
    BY <1>1 DEF Has, ToSet
  <2> QED
    BY <2>1, <2>2
<1>2. CASE Has(d, f)
  <2>1. PICK k : k = CHOOSE i \in DOMAIN d : SameName(d[i], f)
    OBVIOUS
  <2>2. k \in 1..Len(d) /\ SameName(d[k], f)
    BY <1>0, <1>2, <2>1 DEF Has
  <2>3. Without(d, f) = RemoveAt(d, k)
    BY <1>2, <2>1 DEF Without
  <2>4. PICK w : w = RemoveAt(d, k)
    OBVIOUS
  <2>5. /\ w \in Seq(S)
        /\ Len(w) = Len(d) - 1
        /\ \A i \in 1..(Len(d) - 1) : w[i] = d[IF i < k THEN i ELSE i + 1]
    BY <2>2, <2>4, Removed
  <2>6. DOMAIN w = 1..(Len(d) - 1)
    BY <2>5
  <2>7. \A i \in 1..Len(d) : SameName(d[i], f) => i = k
    BY <1>0, <2>2 DEF OneOfAName, SameName
  <2>8. OneOfAName(w)
    <3>1. SUFFICES ASSUME NEW i \in 1..(Len(d) - 1), NEW j \in 1..(Len(d) - 1), SameName(w[i], w[j])
                   PROVE  i = j
      BY <2>6 DEF OneOfAName
    <3>2. PICK x \in 1..Len(d), y \in 1..Len(d) :
            /\ x = IF i < k THEN i ELSE i + 1
            /\ y = IF j < k THEN j ELSE j + 1
      BY <1>0, <2>2
    <3>3. w[i] = d[x] /\ w[j] = d[y]
      BY <2>5, <3>2
    <3>4. x = y
      BY <1>0, <3>1, <3>3 DEF OneOfAName
    <3> QED
      BY <1>0, <2>2, <3>2, <3>4
  <2>9. ASSUME NEW g \in ToSet(w)
        PROVE  g \in ToSet(d) /\ ~SameName(g, f)
    <3>1. PICK i \in 1..(Len(d) - 1) : g = w[i]
      BY <2>6 DEF ToSet
    <3>2. PICK x \in 1..Len(d) : x = IF i < k THEN i ELSE i + 1
      BY <1>0, <2>2
    <3>3. g = d[x] /\ x # k
      BY <1>0, <2>2, <2>5, <3>1, <3>2
    <3> QED
      BY <1>0, <2>7, <3>3 DEF ToSet
  <2>10. ASSUME NEW g \in ToSet(d), ~SameName(g, f)
         PROVE  g \in ToSet(w)
    <3>1. PICK x \in 1..Len(d) : g = d[x]
      BY <1>0 DEF ToSet
    <3>2. x # k
      BY <2>2, <2>10, <3>1
    <3>3. PICK i \in 1..(Len(d) - 1) : i = IF x < k THEN x ELSE x - 1
      BY <1>0, <2>2, <3>2
    <3>4. x = IF i < k THEN i ELSE i + 1
      BY <1>0, <2>2, <3>2, <3>3
    <3>5. w[i] = d[x]
      BY <2>5, <3>4
    <3> QED
      BY <2>6, <3>1, <3>5 DEF ToSet
  <2> QED
    BY <2>3, <2>4, <2>5, <2>8, <2>9, <2>10
<1> QED
  BY <1>1, <1>2

(* A file of a new name is added at the end.                                *)
LEMMA Added ==
    ASSUME NEW S, NEW d \in Seq(S), OneOfAName(d), NEW f \in S,
           \A g \in ToSet(d) : ~SameName(g, f)
    PROVE  /\ Append(d, f) \in Seq(S)
           /\ OneOfAName(Append(d, f))
           /\ ToSet(Append(d, f)) = ToSet(d) \cup {f}
<1>0. Len(d) \in Nat /\ DOMAIN d = 1..Len(d)
  OBVIOUS
<1>1. PICK w : w = Append(d, f)
  OBVIOUS
<1>2. /\ w \in Seq(S) /\ DOMAIN w = 1..(Len(d) + 1)
      /\ \A i \in 1..Len(d) : w[i] = d[i]
      /\ w[Len(d) + 1] = f
  BY <1>0, <1>1
<1>3. \A i \in 1..Len(d) : ~SameName(d[i], f) /\ ~SameName(f, d[i])
  BY <1>0 DEF ToSet, SameName
<1>4. OneOfAName(w)
  <2>1. SUFFICES ASSUME NEW i \in 1..(Len(d) + 1), NEW j \in 1..(Len(d) + 1), SameName(w[i], w[j])
                 PROVE  i = j
    BY <1>2 DEF OneOfAName
  <2>2. CASE i \in 1..Len(d) /\ j \in 1..Len(d)
    BY <1>0, <1>2, <2>1, <2>2 DEF OneOfAName
  <2>3. CASE i \in 1..Len(d) /\ j = Len(d) + 1
    BY <1>2, <1>3, <2>1, <2>3
  <2>4. CASE i = Len(d) + 1 /\ j \in 1..Len(d)
    BY <1>2, <1>3, <2>1, <2>4
  <2> QED
    BY <1>0, <2>2, <2>3, <2>4
<1>5. ASSUME NEW g \in ToSet(w)
      PROVE  g \in ToSet(d) \cup {f}
  <2>1. PICK i \in 1..(Len(d) + 1) : g = w[i]
    BY <1>2 DEF ToSet
  <2>2. CASE i \in 1..Len(d)
    BY <1>0, <1>2, <2>1, <2>2 DEF ToSet
  <2> QED
    BY <1>0, <1>2, <2>1, <2>2
<1>6. ToSet(d) \cup {f} \subseteq ToSet(w)
  <2>1. ToSet(d) \subseteq ToSet(w)
    BY <1>0, <1>2 DEF ToSet
  <2>2. f \in ToSet(w)
    <3>1. Len(d) + 1 \in 1..(Len(d) + 1)
      BY <1>0
    <3> QED
      BY <1>2, <3>1 DEF ToSet
  <2> QED
    BY <2>1, <2>2
<1> QED
  BY <1>1, <1>2, <1>4, <1>5, <1>6

(* A file takes another name, of which there is none.                       *)
Renaming(d, f, e) == [i \in DOMAIN d |-> IF SameName(d[i], f) THEN e ELSE d[i]]

LEMMA Renamed ==
    ASSUME NEW S, NEW d \in Seq(S), OneOfAName(d), NEW f, NEW e \in S,
           \A g \in ToSet(d) : ~SameName(g, e),
           NEW w, w = Renaming(d, f, e)
    PROVE  /\ w \in Seq(S)
           /\ OneOfAName(w)
           /\ ToSet(w) \subseteq {g \in ToSet(d) : ~SameName(g, f)} \cup {e}
           /\ {g \in ToSet(d) : ~SameName(g, f)} \subseteq ToSet(w)
           /\ (\E g \in ToSet(d) : SameName(g, f)) => e \in ToSet(w)
<1>0. Len(d) \in Nat /\ DOMAIN d = 1..Len(d) /\ \A i \in 1..Len(d) : d[i] \in S
  OBVIOUS
<1>1. /\ w \in [1..Len(d) -> S] /\ DOMAIN w = 1..Len(d)
      /\ \A i \in 1..Len(d) : w[i] = IF SameName(d[i], f) THEN e ELSE d[i]
  BY <1>0 DEF Renaming
<1>2. w \in Seq(S)
  BY <1>0, <1>1
<1>3. \A i \in 1..Len(d) : ~SameName(d[i], e) /\ ~SameName(e, d[i])
  BY <1>0 DEF ToSet, SameName
<1>4. OneOfAName(w)
  <2>1. SUFFICES ASSUME NEW i \in 1..Len(d), NEW j \in 1..Len(d), SameName(w[i], w[j])
                 PROVE  i = j
    BY <1>1 DEF OneOfAName
  <2>2. CASE SameName(d[i], f) /\ SameName(d[j], f)
    <3>1. SameName(d[i], d[j])
      BY <2>2 DEF SameName
    <3> QED
      BY <1>0, <3>1 DEF OneOfAName
  <2>3. CASE ~SameName(d[i], f) /\ ~SameName(d[j], f)
    BY <1>0, <1>1, <2>1, <2>3 DEF OneOfAName
  <2> QED
    BY <1>1, <1>3, <2>1, <2>2, <2>3
<1>5. ToSet(w) \subseteq {g \in ToSet(d) : ~SameName(g, f)} \cup {e}
  BY <1>0, <1>1 DEF ToSet
<1>6. {g \in ToSet(d) : ~SameName(g, f)} \subseteq ToSet(w)
  BY <1>0, <1>1 DEF ToSet
<1>7. ASSUME NEW g \in ToSet(d), SameName(g, f)
      PROVE  e \in ToSet(w)
  BY <1>0, <1>1, <1>7 DEF ToSet
<1> QED
  BY <1>2, <1>4, <1>5, <1>6, <1>7

(* The file of a name.                                                      *)
LEMMA Found ==
    ASSUME NEW f, Exists(f)
    PROVE  Named(f) \in ToSet(dir) /\ SameName(Named(f), f)
<1>1. \E g \in ToSet(dir) : SameName(g, f)
  BY DEF Exists, Has, ToSet
<1> QED
  BY <1>1 DEF Named

-----------------------------------------------------------------------------
(* What the steps do to the requests.                                       *)

LEMMA Bounds == MaxCount \in Nat /\ MaxFiles \in Nat /\ 0 \in Numbers /\ Idle \in Requests
<1>1. MaxCount \in Nat /\ MaxFiles \in Nat
  BY BoundsAssumption
<1>2. 0 \in Numbers
  BY <1>1 DEF Numbers
<1> QED
  BY <1>1, <1>2 DEF Idle, Requests

(* A thread's step moves its own request only.                              *)
LEMMA ThreadMoves ==
    ASSUME TypeOK, NEW t \in Threads, ThreadStep(t)
    PROVE  /\ req' \in [Threads -> Requests]
           /\ Others(t)
           /\ \/ /\ Prepare(t)
                 /\ Ends(t, "prepare") \/ Goes(t, "prepare", "lock", counter)
              \/ /\ Lock(t)
                 /\ Ends(t, "lock") \/ Goes(t, "lock", "build", req[t].n)
              \/ /\ Build(t)
                 /\ Ends(t, "build") \/ Goes(t, "build", "copy", req[t].n)
              \/ /\ StartCopy(t)
                 /\ Ends(t, "copy") \/ Goes(t, "copy", "copying", counter)
              \/ /\ EndCopy(t)
                 /\ Ends(t, "copying") \/ Goes(t, "copying", "rename", req[t].n)
              \/ /\ Rename(t)
                 /\ Ends(t, "rename") \/ Goes(t, "rename", "load", req[t].n)
              \/ Load(t) /\ Ends(t, "load")
<1>1. req \in [Threads -> Requests] /\ counter \in Numbers
  BY DEF TypeOK, Requests
<1>2. ASSUME NEW p, Answer(t), req[t].pc = p
      PROVE  req' \in [Threads -> Requests] /\ Others(t) /\ Ends(t, p)
  BY <1>1, <1>2, Bounds DEF Answer, Others, Ends
<1>3. ASSUME NEW p, NEW q \in {"build", "copy", "rename", "load"}, Goto(t, q), req[t].pc = p
      PROVE  req' \in [Threads -> Requests] /\ Others(t) /\ Goes(t, p, q, req[t].n)
  BY <1>1, <1>3 DEF Goto, Others, Goes, Requests
<1>4. ASSUME NEW p, NEW q \in {"lock", "copying"}, req[t].pc = p,
             req' = [req EXCEPT ![t].pc = q, ![t].n = counter]
      PROVE  req' \in [Threads -> Requests] /\ Others(t) /\ Goes(t, p, q, counter)
  BY <1>1, <1>4 DEF Others, Goes, Requests
<1>5. CASE Prepare(t)
  BY <1>2, <1>4, <1>5 DEF Prepare
<1>6. CASE Lock(t)
  BY <1>2, <1>3, <1>6 DEF Lock
<1>7. CASE Build(t)
  BY <1>2, <1>3, <1>7 DEF Build
<1>8. CASE StartCopy(t)
  BY <1>2, <1>4, <1>8 DEF StartCopy
<1>9. CASE EndCopy(t)
  BY <1>2, <1>3, <1>9 DEF EndCopy
<1>10. CASE Rename(t)
  BY <1>2, <1>3, <1>10 DEF Rename
<1>11. CASE Load(t)
  BY <1>2, <1>11 DEF Load
<1> QED
  BY <1>5, <1>6, <1>7, <1>8, <1>9, <1>10, <1>11 DEF ThreadStep

(* A request begins with a hit or a miss.                                   *)
LEMMA CheckMoves ==
    ASSUME TypeOK, NEW t \in Threads, NEW s \in Sources, Check(t, s)
    PROVE  /\ req' \in [Threads -> Requests]
           /\ Others(t)
           /\ req[t].pc = "idle" /\ req'[t].src = s /\ req'[t].n = 0
           /\ \/ req'[t].pc = "load" /\ Stands(ToSet(dir), s)
              \/ req'[t].pc = "prepare"
<1>1. req \in [Threads -> Requests]
  BY DEF TypeOK, Requests
<1>2. PICK r : r = [pc |-> IF Cached(s) THEN "load" ELSE "prepare", src |-> s, n |-> 0, gone |-> FALSE]
  OBVIOUS
<1>3. /\ r \in Requests /\ r.src = s /\ r.n = 0
      /\ r.pc = IF Cached(s) THEN "load" ELSE "prepare"
  BY <1>2, Bounds DEF Requests
<1>4. req' = [req EXCEPT ![t] = r] /\ req[t] = Idle
  BY <1>2 DEF Check
<1>5. Cached(s) => Stands(ToSet(dir), s)
  BY DEF Cached, Exists, Has, Stands, ToSet
<1>6. req'[t] = r /\ req[t].pc = "idle"
  BY <1>1, <1>4 DEF Idle
<1> QED
  BY <1>1, <1>3, <1>4, <1>5, <1>6 DEF Others

(* A cleanup only notes that it has taken an answer away.                   *)
LEMMA CleanupMoves ==
    ASSUME TypeOK, RemoveOldest
    PROVE  /\ req' \in [Threads -> Requests]
           /\ \A t \in Threads :
                 /\ req'[t].pc = req[t].pc /\ req'[t].src = req[t].src /\ req'[t].n = req[t].n
                 /\ req[t].pc = "load" /\ ~req'[t].gone =>
                       ~req[t].gone /\ ~SameName(Head(sweep.left), Entry(req[t].src, None, TRUE))
<1>1. req \in [Threads -> Requests]
  BY DEF TypeOK, Requests
<1>2. ASSUME NEW t \in Threads
      PROVE  /\ req'[t] \in Requests
             /\ req'[t].pc = req[t].pc /\ req'[t].src = req[t].src /\ req'[t].n = req[t].n
             /\ req[t].pc = "load" /\ ~req'[t].gone =>
                   ~req[t].gone /\ ~SameName(Head(sweep.left), Entry(req[t].src, None, TRUE))
  <2>1. req[t] \in Requests
    BY <1>1
  <2>2. CASE req[t].pc = "load" /\ SameName(Head(sweep.left), Entry(req[t].src, None, TRUE))
    <3>1. req'[t] = [req[t] EXCEPT !.gone = TRUE]
      BY <2>2 DEF RemoveOldest
    <3> QED
      BY <2>1, <3>1 DEF Requests
  <2>3. CASE ~(req[t].pc = "load" /\ SameName(Head(sweep.left), Entry(req[t].src, None, TRUE)))
    <3>1. req'[t] = req[t]
      BY <2>3 DEF RemoveOldest
    <3> QED
      BY <2>1, <2>3, <3>1
  <2> QED
    BY <2>2, <2>3
<1>3. req' = [t \in Threads |-> req'[t]]
  BY DEF RemoveOldest
<1> QED
  BY <1>2, <1>3

-----------------------------------------------------------------------------
(* Numbers.  Each request has room for the numbers it still needs.          *)

LEMMA Counts ==
    /\ IsFiniteSet(NeedTwo) /\ Cardinality(NeedTwo) \in Nat
    /\ IsFiniteSet(NeedOne) /\ Cardinality(NeedOne) \in Nat
<1>1. NeedTwo \in SUBSET Threads /\ NeedOne \in SUBSET Threads
  BY DEF NeedTwo, NeedOne
<1>2. IsFiniteSet(NeedTwo) /\ IsFiniteSet(NeedOne)
  BY <1>1, ThreadsAssumption, FS_Subset
<1> QED
  BY <1>2, FS_CardinalityType

LEMMA Room ==
    ASSUME TypeOK, Apart, NEW t \in Threads
    PROVE  /\ req[t].pc = "prepare" => counter + 2 <= MaxCount
           /\ req[t].pc = "copy" => counter + 1 <= MaxCount
<1>1. counter \in Nat /\ MaxCount \in Nat
  BY Bounds DEF TypeOK, Numbers
<1>2. ASSUME req[t].pc = "prepare"
      PROVE  Cardinality(NeedTwo) >= 1
  BY <1>2, Counts, FS_EmptySet DEF NeedTwo
<1>3. ASSUME req[t].pc = "copy"
      PROVE  Cardinality(NeedOne) >= 1
  BY <1>3, Counts, FS_EmptySet DEF NeedOne
<1> QED
  BY <1>1, <1>2, <1>3, Counts DEF Apart

(* The numbers in use stay apart under a step that takes at most the next   *)
(* one.                                                                     *)
LEMMA StayApart ==
    ASSUME TypeOK, Apart, NEW t \in Threads, Others(t),
           req' \in [Threads -> Requests], counter' \in {counter, counter + 1},
           req'[t].pc # "idle" => req'[t].src \in Sources,
           t \in Numbered' => \/ t \in Numbered /\ req'[t].n = req[t].n
                              \/ req'[t].n = counter /\ counter' = counter + 1
    PROVE  /\ \A u \in Threads : req'[u].pc # "idle" => req'[u].src \in Sources
           /\ \A u \in Numbered' : req'[u].n < counter'
           /\ \A u, v \in Numbered' : u # v => req'[u].n # req'[v].n
<1>1. counter \in Nat /\ counter' \in Nat /\ \A u \in Threads : req[u].n \in Nat
  BY DEF TypeOK, Numbers
<1>2. \A u \in Threads : u # t => req'[u] = req[u] /\ (u \in Numbered' <=> u \in Numbered)
  BY DEF Others, Numbered
<1>3. Numbered' \subseteq Threads /\ Numbered \subseteq Threads
  BY DEF Numbered
<1>4. \A u \in Threads : req'[u].pc # "idle" => req'[u].src \in Sources
  BY <1>2 DEF Apart
<1>5. \A u \in Numbered' : req'[u].n < counter'
  <2>1. SUFFICES ASSUME NEW u \in Numbered' PROVE req'[u].n < counter'
    OBVIOUS
  <2>2. CASE u # t
    <3>1. req[u].n < counter /\ req'[u].n = req[u].n
      BY <1>2, <1>3, <2>2 DEF Apart
    <3> QED
      BY <1>1, <1>3, <3>1
  <2>3. CASE u = t
    <3>1. (t \in Numbered /\ req'[t].n = req[t].n) \/ (req'[t].n = counter /\ counter' = counter + 1)
      BY <2>3
    <3>2. t \in Numbered => req[t].n < counter
      BY DEF Apart
    <3> QED
      BY <1>1, <2>3, <3>1, <3>2
  <2> QED
    BY <2>2, <2>3
<1>6. ASSUME NEW u \in Numbered', u # t, t \in Numbered'
      PROVE  req'[u].n # req'[t].n
  <2>1. u \in Numbered /\ req'[u].n = req[u].n /\ req[u].n < counter
    BY <1>2, <1>3, <1>6 DEF Apart
  <2>2. t \in Numbered => req[u].n # req[t].n
    BY <1>6, <2>1 DEF Apart
  <2>3. req[u].n # counter
    BY <1>1, <1>3, <2>1
  <2> QED
    BY <1>6, <2>1, <2>2, <2>3
<1>7. ASSUME NEW u \in Numbered', NEW v \in Numbered', u # v
      PROVE  req'[u].n # req'[v].n
  <2>1. CASE u # t /\ v # t
    BY <1>2, <1>3, <1>7, <2>1 DEF Apart
  <2> QED
    BY <1>6, <1>7, <2>1
<1> QED
  BY <1>4, <1>5, <1>7

LEMMA ApartStep ==
    ASSUME IInv, [Next]_vars
    PROVE  Apart' /\ counter' \in Numbers /\ req' \in [Threads -> Requests]
<1>0. /\ TypeOK /\ Apart
      /\ counter \in Nat /\ MaxCount \in Nat /\ req \in [Threads -> Requests]
      /\ Cardinality(NeedTwo) \in Nat /\ Cardinality(NeedOne) \in Nat
      /\ counter + 2 * Cardinality(NeedTwo) + Cardinality(NeedOne) <= MaxCount
  BY Bounds, Counts, SMTT(30) DEF IInv, TypeOK, Requests, Numbers, Apart
<1>1. ASSUME counter' \in Nat,
             Cardinality(NeedTwo') \in Nat, Cardinality(NeedOne') \in Nat,
             counter' + 2 * Cardinality(NeedTwo') + Cardinality(NeedOne') <= MaxCount
      PROVE  counter' \in Numbers
  BY <1>0, <1>1 DEF Numbers
(* How a thread's step changes the two sets.                                *)
<1>2. ASSUME NEW t \in Threads, Others(t), req'[t].pc # "prepare"
      PROVE  /\ NeedTwo' = NeedTwo \ {t}
             /\ req'[t].pc \notin {"lock", "build", "copy"} => NeedOne' = NeedOne \ {t}
             /\ req'[t].pc \in {"lock", "build", "copy"} => NeedOne' = NeedOne \cup {t}
  BY <1>2 DEF Others, NeedTwo, NeedOne
<1>3. ASSUME NEW t \in Threads
      PROVE  /\ Cardinality(NeedTwo \ {t}) = IF t \in NeedTwo THEN Cardinality(NeedTwo) - 1
                                             ELSE Cardinality(NeedTwo)
             /\ Cardinality(NeedOne \ {t}) = IF t \in NeedOne THEN Cardinality(NeedOne) - 1
                                             ELSE Cardinality(NeedOne)
             /\ Cardinality(NeedOne \cup {t}) = IF t \in NeedOne THEN Cardinality(NeedOne)
                                                ELSE Cardinality(NeedOne) + 1
             /\ t \in NeedTwo => Cardinality(NeedTwo) >= 1
             /\ t \in NeedOne => Cardinality(NeedOne) >= 1
  <2>1. Cardinality(NeedTwo \ {t}) = IF t \in NeedTwo THEN Cardinality(NeedTwo) - 1 ELSE Cardinality(NeedTwo)
    BY Counts, FS_RemoveElement
  <2>2. Cardinality(NeedOne \ {t}) = IF t \in NeedOne THEN Cardinality(NeedOne) - 1 ELSE Cardinality(NeedOne)
    BY Counts, FS_RemoveElement
  <2>3. Cardinality(NeedOne \cup {t}) = IF t \in NeedOne THEN Cardinality(NeedOne) ELSE Cardinality(NeedOne) + 1
    BY Counts, FS_AddElement
  <2>4. (t \in NeedTwo => Cardinality(NeedTwo) # 0) /\ (t \in NeedOne => Cardinality(NeedOne) # 0)
    BY Counts, FS_EmptySet
  <2>5. (t \in NeedTwo => Cardinality(NeedTwo) >= 1) /\ (t \in NeedOne => Cardinality(NeedOne) >= 1)
    BY <1>0, <2>4
  <2> QED
    BY <2>1, <2>2, <2>3, <2>5
(* A step that needs no more numbers than before.                           *)
<1>4. ASSUME NEW t \in Threads, Others(t), req' \in [Threads -> Requests],
             counter' = counter, req'[t].pc # "prepare",
             req'[t].pc # "idle" => req'[t].src = req[t].src /\ req[t].pc # "idle",
             t \in Numbered' => t \in Numbered /\ req'[t].n = req[t].n,
             req'[t].pc \in {"lock", "build", "copy"} => t \in NeedOne
      PROVE  Apart' /\ counter' \in Numbers
  <2>1. req'[t].pc # "idle" => req'[t].src \in Sources
    BY <1>0, <1>4 DEF Apart
  <2>2. /\ \A u \in Threads : req'[u].pc # "idle" => req'[u].src \in Sources
        /\ \A u \in Numbered' : req'[u].n < counter'
        /\ \A u, v \in Numbered' : u # v => req'[u].n # req'[v].n
    <3>1. counter' \in {counter, counter + 1}
      BY <1>4
    <3>2. t \in Numbered' => \/ t \in Numbered /\ req'[t].n = req[t].n
                             \/ req'[t].n = counter /\ counter' = counter + 1
      BY <1>4
    <3> QED
      BY <1>0, <1>4, <2>1, <3>1, <3>2, StayApart
  <2>3. /\ Cardinality(NeedTwo') \in Nat /\ Cardinality(NeedOne') \in Nat
        /\ Cardinality(NeedTwo') <= Cardinality(NeedTwo)
        /\ Cardinality(NeedOne') <= Cardinality(NeedOne)
    <3>1. NeedTwo' = NeedTwo \ {t} /\ NeedOne' \in {NeedOne \ {t}, NeedOne \cup {t}}
      BY <1>2, <1>4
    <3>2. NeedOne' = NeedOne \cup {t} => t \in NeedOne
      BY <1>2, <1>4
    <3>3. Cardinality(NeedTwo') \in Nat /\ Cardinality(NeedTwo') <= Cardinality(NeedTwo)
      <4>1. Cardinality(NeedTwo') = IF t \in NeedTwo THEN Cardinality(NeedTwo) - 1 ELSE Cardinality(NeedTwo)
        BY <1>3, <3>1
      <4>2. t \in NeedTwo => Cardinality(NeedTwo) >= 1
        BY <1>3
      <4> QED
        BY <1>0, <4>1, <4>2
    <3>4. Cardinality(NeedOne') \in Nat /\ Cardinality(NeedOne') <= Cardinality(NeedOne)
      <4>1. CASE NeedOne' = NeedOne \ {t}
        <5>1. Cardinality(NeedOne') = IF t \in NeedOne THEN Cardinality(NeedOne) - 1 ELSE Cardinality(NeedOne)
          BY <1>3, <4>1
        <5>2. t \in NeedOne => Cardinality(NeedOne) >= 1
          BY <1>3
        <5> QED
          BY <1>0, <5>1, <5>2
      <4>2. CASE NeedOne' = NeedOne \cup {t}
        <5>1. Cardinality(NeedOne') = Cardinality(NeedOne)
          BY <1>3, <3>2, <4>2
        <5> QED
          BY <1>0, <5>1
      <4> QED
        BY <3>1, <4>1, <4>2
    <3> QED
      BY <3>3, <3>4
  <2>4. counter' + 2 * Cardinality(NeedTwo') + Cardinality(NeedOne') <= MaxCount
    BY <1>0, <1>4, <2>3
  <2> QED
    BY <1>0, <1>1, <1>4, <2>2, <2>3, <2>4 DEF Apart
(* A step that takes the next number.                                       *)
<1>5. ASSUME NEW t \in Threads, Others(t), req' \in [Threads -> Requests],
             counter' = counter + 1, req'[t].pc # "prepare",
             req'[t].pc # "idle" => req'[t].src = req[t].src /\ req[t].pc # "idle",
             t \in Numbered' => req'[t].n = counter,
             \/ t \in NeedTwo /\ t \notin NeedOne
             \/ t \in NeedOne /\ t \notin NeedTwo /\ req'[t].pc \notin {"lock", "build", "copy"}
      PROVE  Apart' /\ counter' \in Numbers
  <2>1. req'[t].pc # "idle" => req'[t].src \in Sources
    BY <1>0, <1>5 DEF Apart
  <2>2. /\ \A u \in Threads : req'[u].pc # "idle" => req'[u].src \in Sources
        /\ \A u \in Numbered' : req'[u].n < counter'
        /\ \A u, v \in Numbered' : u # v => req'[u].n # req'[v].n
    BY <1>0, <1>5, <2>1, StayApart
  <2>3. /\ Cardinality(NeedTwo') \in Nat /\ Cardinality(NeedOne') \in Nat
        /\ \/ /\ Cardinality(NeedTwo') + 1 = Cardinality(NeedTwo)
              /\ Cardinality(NeedOne') <= Cardinality(NeedOne) + 1
           \/ /\ Cardinality(NeedTwo') = Cardinality(NeedTwo)
              /\ Cardinality(NeedOne') + 1 = Cardinality(NeedOne)
    <3>1. NeedTwo' = NeedTwo \ {t} /\ NeedOne' \in {NeedOne \ {t}, NeedOne \cup {t}}
      BY <1>2, <1>5
    <3>2. CASE t \in NeedTwo /\ t \notin NeedOne
      <4>1. Cardinality(NeedTwo') = Cardinality(NeedTwo) - 1 /\ Cardinality(NeedTwo) >= 1
        BY <1>3, <3>1, <3>2
      <4>2. Cardinality(NeedOne') \in {Cardinality(NeedOne), Cardinality(NeedOne) + 1}
        BY <1>3, <3>1, <3>2
      <4> QED
        BY <1>0, <4>1, <4>2
    <3>3. CASE /\ t \in NeedOne /\ t \notin NeedTwo
               /\ req'[t].pc \notin {"lock", "build", "copy"}
      <4>1. NeedOne' = NeedOne \ {t}
        BY <1>2, <1>5, <3>3
      <4>2. Cardinality(NeedTwo') = Cardinality(NeedTwo)
        BY <1>3, <3>1, <3>3
      <4>3. Cardinality(NeedOne') = Cardinality(NeedOne) - 1 /\ Cardinality(NeedOne) >= 1
        BY <1>3, <3>3, <4>1
      <4> QED
        BY <1>0, <4>2, <4>3
    <3> QED
      BY <1>5, <3>2, <3>3
  <2>4. counter' + 2 * Cardinality(NeedTwo') + Cardinality(NeedOne') <= MaxCount
    BY <1>0, <1>5, <2>3
  <2>5. counter' \in Nat
    BY <1>0, <1>5
  <2> QED
    BY <1>0, <1>1, <2>2, <2>3, <2>4, <2>5 DEF Apart
<1>6. ASSUME NEW t \in Threads, NEW s \in Sources, Check(t, s)
      PROVE  Apart' /\ counter' \in Numbers /\ req' \in [Threads -> Requests]
  <2>1. /\ req' \in [Threads -> Requests] /\ Others(t) /\ req[t].pc = "idle"
        /\ req'[t].src = s /\ req'[t].pc \in {"load", "prepare"}
    BY <1>0, <1>6, CheckMoves
  <2>2. counter' = counter
    BY <1>6 DEF Check
  <2>3. t \notin Numbered'
    BY <2>1 DEF Numbered
  <2>4. /\ \A u \in Threads : req'[u].pc # "idle" => req'[u].src \in Sources
        /\ \A u \in Numbered' : req'[u].n < counter'
        /\ \A u, v \in Numbered' : u # v => req'[u].n # req'[v].n
    BY <1>0, <2>1, <2>2, <2>3, StayApart
  <2>5. NeedTwo' \subseteq NeedTwo \cup {t} /\ NeedOne' = NeedOne
    BY <2>1 DEF Others, NeedTwo, NeedOne
  <2>6. PICK busy : busy = {u \in Threads : req[u] # Idle}
    OBVIOUS
  <2>7. IsFiniteSet(busy) /\ Cardinality(busy) \in Nat
    BY <2>6, ThreadsAssumption, FS_Subset, FS_CardinalityType
  <2>8. counter + 2 * Cardinality(busy) + 2 <= MaxCount
    BY <1>6, <2>6 DEF Check
  <2>9. /\ NeedTwo \cup NeedOne \in SUBSET busy
        /\ NeedTwo \cap NeedOne = {}
    BY <2>6 DEF NeedTwo, NeedOne, Idle
  <2>10. Cardinality(NeedTwo) + Cardinality(NeedOne) <= Cardinality(busy)
    <3>1. Cardinality(NeedTwo \cup NeedOne) = Cardinality(NeedTwo) + Cardinality(NeedOne) - Cardinality(NeedTwo \cap NeedOne)
      BY Counts, FS_Union
    <3>2. Cardinality(NeedTwo \cap NeedOne) = 0
      BY <2>9, FS_EmptySet
    <3>3. Cardinality(NeedTwo \cup NeedOne) <= Cardinality(busy)
      BY <2>7, <2>9, FS_Subset
    <3> QED
      BY <1>0, <2>7, <3>1, <3>2, <3>3
  <2>11. Cardinality(NeedTwo') \in Nat /\ Cardinality(NeedTwo') <= Cardinality(NeedTwo) + 1
    <3>1. /\ IsFiniteSet(NeedTwo \cup {t})
          /\ Cardinality(NeedTwo \cup {t}) <= Cardinality(NeedTwo) + 1
          /\ Cardinality(NeedTwo \cup {t}) \in Nat
      <4>1. /\ IsFiniteSet(NeedTwo \cup {t})
            /\ Cardinality(NeedTwo \cup {t}) = IF t \in NeedTwo THEN Cardinality(NeedTwo)
                                              ELSE Cardinality(NeedTwo) + 1
        BY Counts, FS_AddElement
      <4> QED
        BY <1>0, <4>1
    <3>2. IsFiniteSet(NeedTwo') /\ Cardinality(NeedTwo') <= Cardinality(NeedTwo \cup {t})
      BY <2>5, <3>1, FS_Subset
    <3>3. Cardinality(NeedTwo') \in Nat
      BY <3>2, FS_CardinalityType
    <3> QED
      BY <1>0, <3>1, <3>2, <3>3
  <2>12. counter' + 2 * Cardinality(NeedTwo') + Cardinality(NeedOne') <= MaxCount
    BY <1>0, <2>2, <2>5, <2>7, <2>8, <2>10, <2>11
  <2> QED
    BY <1>0, <1>1, <2>1, <2>2, <2>4, <2>5, <2>11, <2>12 DEF Apart
<1>7. ASSUME NEW t \in Threads, ThreadStep(t)
      PROVE  Apart' /\ counter' \in Numbers /\ req' \in [Threads -> Requests]
  <2>0. req' \in [Threads -> Requests] /\ Others(t)
    BY <1>0, <1>7, ThreadMoves
  <2>1. CASE Prepare(t) /\ (Ends(t, "prepare") \/ Goes(t, "prepare", "lock", counter))
    <3>1. /\ counter' = counter + 1 /\ req'[t].pc \in {"idle", "lock"}
          /\ t \in NeedTwo /\ t \notin NeedOne /\ req[t].pc = "prepare"
      BY <2>1 DEF Prepare, Ends, Goes, Idle, NeedTwo, NeedOne
    <3>2. req'[t].pc = "lock" => req'[t].src = req[t].src /\ req'[t].n = counter
      BY <2>1 DEF Ends, Goes, Idle
    <3>3. t \in Numbered' => req'[t].n = counter
      BY <3>1, <3>2 DEF Numbered
    <3> QED
      BY <1>5, <2>0, <3>1, <3>2, <3>3
  <2>2. CASE StartCopy(t) /\ (Ends(t, "copy") \/ Goes(t, "copy", "copying", counter))
    <3>1. /\ counter' = counter + 1 /\ req'[t].pc \in {"idle", "copying"}
          /\ t \notin NeedTwo /\ t \in NeedOne /\ req[t].pc = "copy"
      BY <2>2 DEF StartCopy, Ends, Goes, Idle, NeedTwo, NeedOne
    <3>2. req'[t].pc = "copying" => req'[t].src = req[t].src /\ req'[t].n = counter
      BY <2>2 DEF Ends, Goes, Idle
    <3>3. t \in Numbered' => req'[t].n = counter
      BY <3>1, <3>2 DEF Numbered
    <3> QED
      BY <1>5, <2>0, <3>1, <3>2, <3>3
  <2>3. ASSUME counter' = counter,
               NEW p \in {"lock", "build", "copying", "rename", "load"}, NEW q \in {"build", "copy", "rename", "load"},
               Ends(t, p) \/ Goes(t, p, q, req[t].n),
               p \in {"copying", "rename"} => q \in {"rename", "load"},
               p = "load" => Ends(t, p)
        PROVE  Apart' /\ counter' \in Numbers
    <3>1. /\ req'[t].pc # "prepare"
          /\ req'[t].pc # "idle" => req'[t].src = req[t].src /\ req[t].pc # "idle"
      BY <2>3 DEF Ends, Goes, Idle
    <3>2. t \in Numbered' => t \in Numbered /\ req'[t].n = req[t].n
      BY <2>3 DEF Ends, Goes, Idle, Numbered
    <3>3. req'[t].pc \in {"lock", "build", "copy"} => t \in NeedOne
      BY <2>3 DEF Ends, Goes, Idle, NeedOne
    <3> QED
      BY <1>4, <2>0, <2>3, <3>1, <3>2, <3>3
  <2>4. CASE Lock(t) /\ (Ends(t, "lock") \/ Goes(t, "lock", "build", req[t].n))
    BY <2>0, <2>3, <2>4 DEF Lock
  <2>5. CASE Build(t) /\ (Ends(t, "build") \/ Goes(t, "build", "copy", req[t].n))
    BY <2>0, <2>3, <2>5 DEF Build
  <2>6. CASE EndCopy(t) /\ (Ends(t, "copying") \/ Goes(t, "copying", "rename", req[t].n))
    BY <2>0, <2>3, <2>6 DEF EndCopy
  <2>7. CASE Rename(t) /\ (Ends(t, "rename") \/ Goes(t, "rename", "load", req[t].n))
    BY <2>0, <2>3, <2>7 DEF Rename
  <2>8. CASE Load(t) /\ Ends(t, "load")
    BY <2>0, <2>3, <2>8 DEF Load
  <2> QED
    BY <1>0, <1>7, <2>0, <2>1, <2>2, <2>4, <2>5, <2>6, <2>7, <2>8, ThreadMoves
<1>8. CASE UNCHANGED <<req, counter>>
  BY <1>0, <1>8 DEF Apart, Numbered, NeedTwo, NeedOne, Numbers
<1>9. CASE RemoveOldest
  <2>1. req' \in [Threads -> Requests] /\ counter' = counter
    BY <1>0, <1>9, CleanupMoves DEF RemoveOldest
  <2>2. \A t \in Threads : req'[t].pc = req[t].pc /\ req'[t].src = req[t].src /\ req'[t].n = req[t].n
    BY <1>0, <1>9, CleanupMoves
  <2>3. Numbered' = Numbered /\ NeedTwo' = NeedTwo /\ NeedOne' = NeedOne /\ Numbered \subseteq Threads
    BY <2>2 DEF Numbered, NeedTwo, NeedOne
  <2> QED
    BY <1>0, <2>1, <2>2, <2>3 DEF Apart, Numbers
<1>10. CASE Crash
  <2>1. /\ req' \in [Threads -> Requests] /\ counter' = 0
        /\ \A t \in Threads : req'[t].pc = "idle"
    BY <1>10, Bounds DEF Crash, Idle
  <2>2. Numbered' = {} /\ NeedTwo' = {} /\ NeedOne' = {}
    BY <2>1 DEF Numbered, NeedTwo, NeedOne
  <2>3. Cardinality(NeedTwo') = 0 /\ Cardinality(NeedOne') = 0
    BY <2>2, FS_EmptySet
  <2>4. counter' + 2 * Cardinality(NeedTwo') + Cardinality(NeedOne') <= MaxCount
    BY <1>0, <2>1, <2>3
  <2> QED
    BY <2>1, <2>2, <2>4, Bounds DEF Apart
<1> QED
  BY <1>6, <1>7, <1>8, <1>9, <1>10 DEF Next, CleanTarget, ListCache, EndSweep, vars

-----------------------------------------------------------------------------
(* Crates and artefacts.                                                    *)

(* A step that leaves the crates alone, and no thread comes to the lock or  *)
(* to a copy by it.                                                         *)
LEMMA CratesKept ==
    ASSUME TypeOK, Crates, crates' = crates,
           target' = target \/ target' = [n \in Numbers |-> None],
           \A u \in Threads :
              /\ req'[u].pc \in {"lock", "build"} => req[u].pc \in {"lock", "build"}
              /\ req'[u].pc = "copy" => req[u].pc = "copy"
              /\ req'[u].pc \in {"lock", "build", "copy"} =>
                    req'[u].n = req[u].n /\ req'[u].src = req[u].src
    PROVE  Crates'
<1>1. \A u \in Threads : req'[u].pc \in {"lock", "build"} => crates'[req'[u].n] = req'[u].src
  BY DEF Crates
<1>2. ASSUME NEW u \in Threads, req'[u].pc = "copy"
      PROVE  target'[req'[u].n] \in {None, req'[u].src}
  <2>1. /\ req[u].pc = "copy" /\ req'[u].n = req[u].n /\ req'[u].src = req[u].src
        /\ req[u].n \in Numbers
    BY <1>2 DEF TypeOK
  <2>2. target[req[u].n] \in {None, req[u].src}
    BY <2>1 DEF Crates
  <2>3. CASE target' = target
    BY <2>1, <2>2, <2>3
  <2>4. CASE target' = [n \in Numbers |-> None]
    BY <2>1, <2>4
  <2> QED
    BY <2>3, <2>4
<1> QED
  BY <1>1, <1>2 DEF Crates

LEMMA CratesStep ==
    ASSUME IInv, [Next]_vars
    PROVE  Crates'
<1>0. /\ TypeOK /\ Apart /\ Crates
      /\ counter \in Numbers /\ counter \in Nat
      /\ req \in [Threads -> Requests] /\ \A u \in Threads : req[u].n \in Numbers /\ req[u].n \in Nat
      /\ crates \in [Numbers -> Sources \cup {None, Left}] /\ target \in [Numbers -> Sources \cup {None}]
  BY DEF IInv, TypeOK, Requests, Numbers
<1>1. ASSUME NEW t \in Threads, ThreadStep(t)
      PROVE  Crates'
  <2>0. req' \in [Threads -> Requests] /\ Others(t)
    BY <1>0, <1>1, ThreadMoves
  <2>1. CASE Prepare(t) /\ (Ends(t, "prepare") \/ Goes(t, "prepare", "lock", counter))
    <3>0. /\ target' = target /\ req[t].pc = "prepare"
          /\ \E x : crates' = [crates EXCEPT ![counter] = x]
      BY <2>1 DEF Prepare
    <3>1. \A n \in Numbers : n # counter => crates'[n] = crates[n]
      BY <1>0, <3>0
    <3>2. ASSUME NEW u \in Threads, u # t
          PROVE  req'[u] = req[u] /\ (req[u].pc \in {"lock", "build"} => req[u].n # counter)
      <4>1. req[u].pc \in {"lock", "build"} => u \in Numbered
        BY DEF Numbered
      <4>2. req[u].pc \in {"lock", "build"} => req[u].n < counter
        BY <1>0, <4>1 DEF Apart
      <4> QED
        BY <1>0, <2>0, <3>2, <4>2 DEF Others
    <3>3. /\ req'[t].pc \in {"idle", "lock"}
          /\ req'[t].pc = "lock" => req'[t].n = counter /\ req'[t].src = req[t].src
      BY <2>1 DEF Ends, Goes, Idle
    <3>4. req'[t].pc = "lock" => crates'[counter] = req[t].src
      <4>1. CASE crates' = [crates EXCEPT ![counter] = req[t].src]
        BY <1>0, <4>1
      <4>2. CASE Answer(t)
        BY <1>0, <4>2 DEF Answer, Idle
      <4> QED
        BY <2>1, <4>1, <4>2 DEF Prepare
    <3>5. ASSUME NEW u \in Threads, req'[u].pc \in {"lock", "build"}
          PROVE  crates'[req'[u].n] = req'[u].src
      <4>1. CASE u = t
        BY <3>3, <3>4, <3>5, <4>1
      <4>2. CASE u # t
        BY <1>0, <3>1, <3>2, <3>5, <4>2 DEF Crates
      <4> QED
        BY <4>1, <4>2
    <3>6. ASSUME NEW u \in Threads, req'[u].pc = "copy"
          PROVE  target'[req'[u].n] \in {None, req'[u].src}
      BY <1>0, <3>0, <3>2, <3>3, <3>6 DEF Crates
    <3> QED
      BY <3>5, <3>6 DEF Crates
  <2>2. CASE Build(t) /\ (Ends(t, "build") \/ Goes(t, "build", "copy", req[t].n))
    <3>0. /\ req[t].pc = "build" /\ t \in Numbered
          /\ crates' = crates \/ \E left : crates' = [crates EXCEPT ![req[t].n] = left]
      BY <2>2 DEF Build, RemoveCrate, Numbered
    <3>1. \A n \in Numbers : n # req[t].n => crates'[n] = crates[n]
      BY <1>0, <3>0
    <3>2. ASSUME NEW u \in Threads, u # t
          PROVE  /\ req'[u] = req[u]
                 /\ req[u].pc \in {"lock", "build", "copy"} => req[u].n # req[t].n
      BY <1>0, <2>0, <3>0, <3>2 DEF Others, Apart, Numbered
    <3>3. /\ \A n \in Numbers : n # req[t].n => target'[n] = target[n]
          /\ req'[t].pc \in {"idle", "copy"}
          /\ req'[t].pc = "copy" =>
                req'[t].n = req[t].n /\ req'[t].src = req[t].src /\ target'[req[t].n] = crates[req[t].n]
      <4>1. CASE target' = [target EXCEPT ![req[t].n] = crates[req[t].n]] /\ Goto(t, "copy")
        <5>1. /\ \A n \in Numbers : n # req[t].n => target'[n] = target[n]
              /\ target'[req[t].n] = crates[req[t].n]
          BY <1>0, <4>1
        <5>2. req'[t].pc = "copy" /\ req'[t].n = req[t].n /\ req'[t].src = req[t].src
          BY <1>0, <4>1 DEF Goto, Requests
        <5> QED
          BY <5>1, <5>2
      <4>2. CASE target' = target /\ Answer(t)
        <5>1. req'[t].pc = "idle"
          BY <1>0, <4>2 DEF Answer, Idle
        <5> QED
          BY <4>2, <5>1
      <4> QED
        BY <2>2, <4>1, <4>2 DEF Build
    <3>4. ASSUME NEW u \in Threads, req'[u].pc \in {"lock", "build"}
          PROVE  crates'[req'[u].n] = req'[u].src
      BY <1>0, <3>1, <3>2, <3>3, <3>4 DEF Crates
    <3>5. ASSUME NEW u \in Threads, req'[u].pc = "copy"
          PROVE  target'[req'[u].n] \in {None, req'[u].src}
      <4>1. CASE u = t
        BY <1>0, <3>0, <3>3, <3>5, <4>1 DEF Crates
      <4>2. CASE u # t
        BY <1>0, <3>2, <3>3, <3>5, <4>2 DEF Crates
      <4> QED
        BY <4>1, <4>2
    <3> QED
      BY <3>4, <3>5 DEF Crates
  <2>3. CASE \/ Lock(t) /\ (Ends(t, "lock") \/ Goes(t, "lock", "build", req[t].n))
             \/ StartCopy(t) /\ (Ends(t, "copy") \/ Goes(t, "copy", "copying", counter))
             \/ EndCopy(t) /\ (Ends(t, "copying") \/ Goes(t, "copying", "rename", req[t].n))
             \/ Rename(t) /\ (Ends(t, "rename") \/ Goes(t, "rename", "load", req[t].n))
             \/ Load(t) /\ Ends(t, "load")
    <3>1. crates' = crates /\ target' = target
      BY <2>3 DEF Lock, StartCopy, EndCopy, Rename, Load
    <3>2. /\ req'[t].pc \in {"lock", "build"} => req[t].pc \in {"lock", "build"}
          /\ req'[t].pc = "copy" => req[t].pc = "copy"
          /\ req'[t].pc \in {"lock", "build", "copy"} =>
                req'[t].n = req[t].n /\ req'[t].src = req[t].src
      BY <2>3 DEF Ends, Goes, Idle
    <3> QED
      BY <1>0, <2>0, <3>1, <3>2, CratesKept DEF Others
  <2> QED
    BY <1>0, <1>1, <2>1, <2>2, <2>3, ThreadMoves
<1>2. ASSUME NEW t \in Threads, NEW s \in Sources, Check(t, s)
      PROVE  Crates'
  <2>1. /\ Others(t) /\ req[t].pc = "idle" /\ req'[t].pc \in {"load", "prepare"}
    BY <1>0, <1>2, CheckMoves
  <2>2. crates' = crates /\ target' = target
    BY <1>2 DEF Check
  <2> QED
    BY <1>0, <2>1, <2>2, CratesKept DEF Others
<1>3. CASE CleanTarget
  BY <1>0, <1>3, CratesKept DEF CleanTarget
<1>4. CASE RemoveOldest
  <2>1. \A t \in Threads : req'[t].pc = req[t].pc /\ req'[t].src = req[t].src /\ req'[t].n = req[t].n
    BY <1>0, <1>4, CleanupMoves
  <2>2. crates' = crates /\ target' = target
    BY <1>4 DEF RemoveOldest
  <2> QED
    BY <1>0, <2>1, <2>2, CratesKept
<1>5. CASE Crash
  <2>1. \A t \in Threads : req'[t].pc = "idle"
    BY <1>5 DEF Crash, Idle
  <2> QED
    BY <2>1 DEF Crates
<1>6. CASE UNCHANGED <<req, crates, target>>
  BY <1>0, <1>6, CratesKept
<1> QED
  BY <1>1, <1>2, <1>3, <1>4, <1>5, <1>6 DEF Next, ListCache, EndSweep, vars

-----------------------------------------------------------------------------
(* The cache directory.                                                     *)

(* A thread's step that leaves the copies and the entries of the others.    *)
LEMMA DirectoryKept ==
    ASSUME TypeOK, Directory, NEW t \in Threads, Others(t),
           OneOfAName(dir'), Correct(ToSet(dir')),
           req'[t].pc \in {"copying", "rename"} => CopyOf(ToSet(dir'), req'[t]),
           req'[t].pc = "load" /\ ~req'[t].gone => Stands(ToSet(dir'), req'[t].src),
           \A u \in Threads : u # t /\ req[u].pc \in {"copying", "rename"}
                                   /\ CopyOf(ToSet(dir), req[u]) => CopyOf(ToSet(dir'), req[u]),
           \A s \in Sources \cup {None} : Stands(ToSet(dir), s) => Stands(ToSet(dir'), s)
    PROVE  Directory'
<1>1. \A u \in Threads : u # t => req'[u] = req[u] /\ req[u].src \in Sources \cup {None}
  BY DEF Others, TypeOK
<1>2. \A u \in Threads : req'[u].pc \in {"copying", "rename"} => CopyOf(ToSet(dir'), req'[u])
  BY <1>1 DEF Directory
<1>3. \A u \in Threads : req'[u].pc = "load" /\ ~req'[u].gone => Stands(ToSet(dir'), req'[u].src)
  BY <1>1 DEF Directory
<1> QED
  BY <1>2, <1>3 DEF Directory

(* A step that leaves the directory and starts no copy.                     *)
LEMMA DirectoryAlone ==
    ASSUME TypeOK, Directory, NEW t \in Threads, Others(t), dir' = dir,
           req'[t].pc \in {"copying", "rename"} => CopyOf(ToSet(dir), req'[t]),
           req'[t].pc = "load" /\ ~req'[t].gone => Stands(ToSet(dir), req'[t].src)
    PROVE  Directory'
  BY DirectoryKept DEF Directory

(* Where a thread's request has its temporary file.                         *)
LEMMA TempNames ==
    ASSUME TypeOK, Apart, NEW t \in Threads, NEW u \in Threads, u # t,
           req[u].pc \in {"copying", "rename"}, NEW g
    PROVE  /\ req[t].pc \in {"copying", "rename"} /\ SameName(g, TempOf(t)) =>
                 ~SameName(g, Temp(req[u].src, req[u].n, None, FALSE))
           /\ g.kind = "temp" /\ g.n = counter =>
                 ~SameName(g, Temp(req[u].src, req[u].n, None, FALSE))
<1>1. u \in Numbered /\ req[u].n < counter /\ req[u].n \in Nat /\ counter \in Nat
  BY DEF Numbered, Apart, TypeOK, Numbers
<1>2. req[u].n # counter
  BY <1>1
<1>3. req[t].pc \in {"copying", "rename"} => req[u].n # req[t].n
  BY <1>1 DEF Numbered, Apart
<1> QED
  BY <1>2, <1>3 DEF SameName, TempOf, Temp

LEMMA StartCopyStep ==
    ASSUME IInv, NEW t \in Threads, StartCopy(t),
           Ends(t, "copy") \/ Goes(t, "copy", "copying", counter), Others(t)
    PROVE  Directory' /\ dir' \in Seq(Files)
<1>0. /\ TypeOK /\ Apart /\ Crates /\ Directory /\ dir \in Seq(Files) /\ OneOfAName(dir)
      /\ req[t].pc = "copy" /\ counter \in Numbers
  BY DEF IInv, TypeOK, Directory, StartCopy
<1>1. CASE target[req[t].n] = None
  <2>1. dir' = dir /\ req'[t].pc = "idle"
    BY <1>0, <1>1 DEF StartCopy, Answer, Idle, TypeOK
  <2> QED
    BY <1>0, <2>1, DirectoryAlone
<1>2. CASE target[req[t].n] # None
  <2>1. PICK f : f = Temp(req[t].src, counter, target[req[t].n], FALSE)
    OBVIOUS
  <2>2. dir' = Append(Without(dir, f), f) /\ req' = [req EXCEPT ![t].pc = "copying", ![t].n = counter]
    BY <1>2, <2>1 DEF StartCopy
  <2>3. target[req[t].n] = req[t].src /\ req[t].src \in Sources
    BY <1>0, <1>2 DEF Crates, Apart
  <2>4. /\ f \in Files /\ f.kind = "temp" /\ f.n = counter /\ f.src = req[t].src /\ f.built = req[t].src
    BY <1>0, <2>1, <2>3 DEF Temp, Files
  <2>5. PICK w : w = Without(dir, f)
    OBVIOUS
  <2>6. w \in Seq(Files) /\ OneOfAName(w) /\ ToSet(w) = {g \in ToSet(dir) : ~SameName(g, f)}
    BY <1>0, <2>5, Kept
  <2>7. PICK v : v = Append(w, f)
    OBVIOUS
  <2>8. v \in Seq(Files) /\ OneOfAName(v) /\ ToSet(v) = ToSet(w) \cup {f}
    BY <2>4, <2>6, <2>7, Added
  <2>9. dir' = v
    BY <2>2, <2>5, <2>7
  <2>10. ToSet(v) = {g \in ToSet(dir) : ~SameName(g, f)} \cup {f}
    BY <2>6, <2>8
  <2>11. Correct(ToSet(v))
    BY <1>0, <2>4, <2>10 DEF Directory, Correct
  <2>12. /\ req'[t].pc = "copying" /\ req'[t].n = counter /\ req'[t].src = req[t].src
    BY <1>0, <2>2 DEF TypeOK
  <2>13. CopyOf(ToSet(v), req'[t])
    <3>1. SUFFICES ASSUME NEW g \in ToSet(v), SameName(g, Temp(req'[t].src, req'[t].n, None, FALSE))
                   PROVE  g.built = req'[t].src
      BY <2>12 DEF CopyOf
    <3>2. SameName(g, f)
      BY <2>4, <2>12, <3>1 DEF SameName, Temp
    <3> QED
      BY <2>4, <2>10, <2>12, <3>2
  <2>14. ASSUME NEW u \in Threads, u # t, req[u].pc \in {"copying", "rename"}, CopyOf(ToSet(dir), req[u])
         PROVE  CopyOf(ToSet(v), req[u])
    <3>1. ~SameName(f, Temp(req[u].src, req[u].n, None, FALSE))
      BY <1>0, <2>4, <2>14, TempNames
    <3> QED
      BY <2>10, <2>14, <3>1 DEF CopyOf
  <2>15. ASSUME NEW s, Stands(ToSet(dir), s)
         PROVE  Stands(ToSet(v), s)
    BY <2>4, <2>10, <2>15 DEF Stands, SameName, Entry
  <2> QED
    BY <1>0, <2>8, <2>9, <2>11, <2>12, <2>13, <2>14, <2>15, DirectoryKept
<1> QED
  BY <1>1, <1>2

LEMMA EndCopyStep ==
    ASSUME IInv, NEW t \in Threads, EndCopy(t),
           Ends(t, "copying") \/ Goes(t, "copying", "rename", req[t].n), Others(t)
    PROVE  Directory' /\ dir' \in Seq(Files)
<1>0. /\ TypeOK /\ Apart /\ Directory /\ dir \in Seq(Files) /\ OneOfAName(dir)
      /\ req[t].pc = "copying" /\ CopyOf(ToSet(dir), req[t])
      /\ req \in [Threads -> Requests]
  BY DEF IInv, TypeOK, Directory, EndCopy, Requests
<1>1. CASE Answer(t) /\ UNCHANGED dir
  <2>1. dir' = dir /\ req'[t].pc = "idle"
    BY <1>0, <1>1 DEF Answer, Idle
  <2> QED
    BY <1>0, <2>1, DirectoryAlone
<1>2. CASE Goto(t, "rename") /\ ~Exists(TempOf(t)) /\ dir' = dir
  <2>1. req'[t].pc = "rename" /\ req'[t].n = req[t].n /\ req'[t].src = req[t].src
    BY <1>0, <1>2 DEF Goto, Requests
  <2>2. \A g \in ToSet(dir) : ~SameName(g, TempOf(t))
    BY <1>2 DEF Exists, Has, ToSet
  <2>3. CopyOf(ToSet(dir), req'[t])
    BY <2>1, <2>2 DEF CopyOf, TempOf
  <2> QED
    BY <1>0, <1>2, <2>1, <2>3, DirectoryAlone
<1>3. CASE /\ Goto(t, "rename") /\ Exists(TempOf(t))
           /\ dir' = Append(Without(dir, TempOf(t)), [Named(TempOf(t)) EXCEPT !.whole = TRUE])
  <2>1. req'[t].pc = "rename" /\ req'[t].n = req[t].n /\ req'[t].src = req[t].src
    BY <1>0, <1>3 DEF Goto, Requests
  <2>2. PICK x, g0 : x = TempOf(t) /\ g0 = Named(x)
    OBVIOUS
  <2>3. g0 \in ToSet(dir) /\ SameName(g0, x)
    BY <1>3, <2>2, Found
  <2>4. g0 \in Files /\ g0.built = req[t].src
    <3>1. g0 \in Files
      BY <1>0, <2>3 DEF ToSet
    <3> QED
      BY <1>0, <2>2, <2>3, <3>1 DEF CopyOf, TempOf
  <2>5. PICK f : f = [g0 EXCEPT !.whole = TRUE]
    OBVIOUS
  <2>6. f \in Files /\ SameName(f, x) /\ f.kind = "temp" /\ f.built = req[t].src /\ f.whole
    BY <2>2, <2>3, <2>4, <2>5 DEF Files, SameName, TempOf, Temp
  <2>7. PICK w : w = Without(dir, x)
    OBVIOUS
  <2>8. w \in Seq(Files) /\ OneOfAName(w) /\ ToSet(w) = {g \in ToSet(dir) : ~SameName(g, x)}
    BY <1>0, <2>7, Kept
  <2>9. PICK v : v = Append(w, f)
    OBVIOUS
  <2>10. \A g \in ToSet(w) : ~SameName(g, f)
    BY <2>6, <2>8 DEF SameName
  <2>11. v \in Seq(Files) /\ OneOfAName(v) /\ ToSet(v) = ToSet(w) \cup {f}
    BY <2>6, <2>8, <2>9, <2>10, Added
  <2>12. dir' = v
    BY <1>3, <2>2, <2>5, <2>7, <2>9
  <2>13. ToSet(v) = {g \in ToSet(dir) : ~SameName(g, x)} \cup {f}
    BY <2>8, <2>11
  <2>14. Correct(ToSet(v))
    BY <1>0, <2>6, <2>13 DEF Directory, Correct
  <2>15. CopyOf(ToSet(v), req'[t])
    BY <2>1, <2>2, <2>6, <2>13 DEF CopyOf, TempOf
  <2>16. ASSUME NEW u \in Threads, u # t, req[u].pc \in {"copying", "rename"}, CopyOf(ToSet(dir), req[u])
         PROVE  CopyOf(ToSet(v), req[u])
    <3>1. ~SameName(f, Temp(req[u].src, req[u].n, None, FALSE))
      BY <1>0, <2>2, <2>6, <2>16, TempNames
    <3> QED
      BY <2>13, <2>16, <3>1 DEF CopyOf
  <2>17. ASSUME NEW s, Stands(ToSet(dir), s)
         PROVE  Stands(ToSet(v), s)
    BY <2>2, <2>13, <2>17 DEF Stands, SameName, Entry, TempOf, Temp
  <2> QED
    BY <1>0, <2>1, <2>11, <2>12, <2>14, <2>15, <2>16, <2>17, DirectoryKept
<1> QED
  BY <1>1, <1>2, <1>3 DEF EndCopy

LEMMA RenameStep ==
    ASSUME IInv, NEW t \in Threads, Rename(t),
           Ends(t, "rename") \/ Goes(t, "rename", "load", req[t].n), Others(t)
    PROVE  Directory' /\ dir' \in Seq(Files)
<1>0. /\ TypeOK /\ Apart /\ Directory /\ dir \in Seq(Files) /\ OneOfAName(dir)
      /\ req[t].pc = "rename" /\ CopyOf(ToSet(dir), req[t])
      /\ req \in [Threads -> Requests]
  BY DEF IInv, TypeOK, Directory, Rename, Requests
<1>1. CASE ~Exists(TempOf(t))
  <2>1. dir' = dir /\ req'[t].pc = "idle"
    BY <1>0, <1>1 DEF Rename, Answer, Idle
  <2> QED
    BY <1>0, <2>1, DirectoryAlone
<1>2. CASE Exists(TempOf(t))
  <2>1. PICK x, f : x = TempOf(t) /\ f = Named(x)
    OBVIOUS
  <2>2. f \in ToSet(dir) /\ SameName(f, x)
    BY <1>2, <2>1, Found
  <2>3. /\ f \in Files /\ f.kind = "temp" /\ f.src = req[t].src
        /\ f.built = req[t].src /\ f.whole
    <3>1. f \in Files
      BY <1>0, <2>2 DEF ToSet
    <3>2. f.kind = "temp" /\ f.src = req[t].src
      BY <2>1, <2>2 DEF SameName, TempOf, Temp
    <3> QED
      BY <1>0, <2>1, <2>2, <3>1, <3>2 DEF CopyOf, TempOf
  <2>4. PICK e : e = Entry(f.src, f.built, f.whole)
    OBVIOUS
  <2>5. /\ e \in Files /\ e.kind = "entry" /\ e.src = req[t].src /\ e.n = 0
        /\ e.built = req[t].src /\ e.whole
    BY <2>3, <2>4, Bounds DEF Entry, Files
  <2>6. PICK rest : rest = Without(dir, e)
    OBVIOUS
  <2>7. rest \in Seq(Files) /\ OneOfAName(rest) /\ ToSet(rest) = {g \in ToSet(dir) : ~SameName(g, e)}
    BY <1>0, <2>6, Kept
  <2>8. PICK v : v = Renaming(rest, f, e)
    OBVIOUS
  <2>9. /\ v \in Seq(Files) /\ OneOfAName(v)
        /\ ToSet(v) \subseteq {g \in ToSet(rest) : ~SameName(g, f)} \cup {e}
        /\ {g \in ToSet(rest) : ~SameName(g, f)} \subseteq ToSet(v)
        /\ (\E g \in ToSet(rest) : SameName(g, f)) => e \in ToSet(v)
    <3>1. \A g \in ToSet(rest) : ~SameName(g, e)
      BY <2>7
    <3> QED
      BY <2>5, <2>7, <2>8, <3>1, Renamed
  <2>10. e \in ToSet(v)
    <3>1. f \in ToSet(rest) /\ SameName(f, f)
      BY <2>2, <2>3, <2>5, <2>7 DEF SameName
    <3> QED
      BY <2>9, <3>1
  <2>11. dir' = v
    BY <1>2, <2>1, <2>4, <2>6, <2>8 DEF Rename, Renaming
  <2>12. Correct(ToSet(v))
    BY <1>0, <2>5, <2>7, <2>9 DEF Directory, Correct
  <2>13. Stands(ToSet(v), req[t].src)
    BY <2>5, <2>10 DEF Stands, SameName, Entry
  <2>14. req'[t].pc = "load" /\ req'[t].src = req[t].src
    BY <1>0, <1>2 DEF Rename, Goto, Requests
  <2>15. ASSUME NEW r, CopyOf(ToSet(dir), r)
         PROVE  CopyOf(ToSet(v), r)
    <3>1. ~SameName(e, Temp(r.src, r.n, None, FALSE))
      BY <2>5 DEF SameName, Temp
    <3> QED
      BY <2>7, <2>9, <2>15, <3>1 DEF CopyOf
  <2>16. ASSUME NEW s, Stands(ToSet(dir), s)
         PROVE  Stands(ToSet(v), s)
    <3>1. PICK g \in ToSet(dir) : SameName(g, Entry(s, s, TRUE))
      BY <2>16 DEF Stands
    <3>2. CASE s = req[t].src
      BY <2>13, <3>2
    <3>3. CASE s # req[t].src
      <4>1. ~SameName(g, e) /\ ~SameName(g, f)
        BY <2>3, <2>5, <3>1, <3>3 DEF SameName, Entry
      <4> QED
        BY <2>7, <2>9, <3>1, <4>1 DEF Stands
    <3> QED
      BY <3>2, <3>3
  <2> QED
    BY <1>0, <2>9, <2>11, <2>12, <2>13, <2>14, <2>15, <2>16, DirectoryKept
<1> QED
  BY <1>1, <1>2

LEMMA RemoveOldestStep ==
    ASSUME IInv, RemoveOldest
    PROVE  Directory' /\ dir' \in Seq(Files)
<1>0. /\ TypeOK /\ Directory /\ dir \in Seq(Files) /\ OneOfAName(dir)
  BY DEF IInv, TypeOK, Directory
<1>1. PICK h, v : h = Head(sweep.left) /\ v = Without(dir, h)
  OBVIOUS
<1>2. v \in Seq(Files) /\ OneOfAName(v) /\ ToSet(v) = {g \in ToSet(dir) : ~SameName(g, h)}
  BY <1>0, <1>1, Kept
<1>3. dir' = v
  BY <1>1 DEF RemoveOldest
<1>4. Correct(ToSet(v))
  BY <1>0, <1>2 DEF Directory, Correct
<1>5. ASSUME NEW t \in Threads
      PROVE  /\ req'[t].pc = req[t].pc /\ req'[t].src = req[t].src /\ req'[t].n = req[t].n
             /\ req[t].pc = "load" /\ ~req'[t].gone =>
                   ~req[t].gone /\ ~SameName(h, Entry(req[t].src, None, TRUE))
  BY <1>0, <1>1, CleanupMoves
<1>6. ASSUME NEW t \in Threads, req'[t].pc \in {"copying", "rename"}
      PROVE  CopyOf(ToSet(v), req'[t])
  <2>1. CopyOf(ToSet(dir), req[t])
    BY <1>0, <1>5, <1>6 DEF Directory
  <2> QED
    BY <1>2, <1>5, <2>1 DEF CopyOf
<1>7. ASSUME NEW t \in Threads, req'[t].pc = "load", ~req'[t].gone
      PROVE  Stands(ToSet(v), req'[t].src)
  <2>1. Stands(ToSet(dir), req[t].src) /\ ~SameName(h, Entry(req[t].src, None, TRUE))
    BY <1>0, <1>5, <1>7 DEF Directory
  <2>2. PICK g \in ToSet(dir) : SameName(g, Entry(req[t].src, req[t].src, TRUE))
    BY <2>1 DEF Stands
  <2>3. ~SameName(g, h)
    BY <2>1, <2>2 DEF SameName, Entry
  <2> QED
    BY <1>2, <1>5, <2>2, <2>3 DEF Stands
<1> QED
  BY <1>2, <1>3, <1>4, <1>6, <1>7 DEF Directory

LEMMA DirectoryStep ==
    ASSUME IInv, [Next]_vars
    PROVE  Directory' /\ dir' \in Seq(Files)
<1>0. TypeOK /\ Directory /\ dir \in Seq(Files)
  BY DEF IInv, TypeOK
<1>1. ASSUME NEW t \in Threads, ThreadStep(t)
      PROVE  Directory' /\ dir' \in Seq(Files)
  <2>0. Others(t)
    BY <1>0, <1>1, ThreadMoves
  <2>1. CASE \/ Prepare(t) /\ (Ends(t, "prepare") \/ Goes(t, "prepare", "lock", counter))
             \/ Lock(t) /\ (Ends(t, "lock") \/ Goes(t, "lock", "build", req[t].n))
             \/ Build(t) /\ (Ends(t, "build") \/ Goes(t, "build", "copy", req[t].n))
             \/ Load(t) /\ Ends(t, "load")
    <3>1. dir' = dir
      BY <2>1 DEF Prepare, Lock, Build, Load
    <3>2. req'[t].pc \notin {"copying", "rename", "load"}
      BY <2>1 DEF Ends, Goes, Idle
    <3> QED
      BY <1>0, <2>0, <3>1, <3>2, DirectoryAlone
  <2> QED
    BY <1>0, <1>1, <2>0, <2>1, ThreadMoves, StartCopyStep, EndCopyStep, RenameStep
<1>2. ASSUME NEW t \in Threads, NEW s \in Sources, Check(t, s)
      PROVE  Directory' /\ dir' \in Seq(Files)
  <2>1. /\ Others(t) /\ req'[t].src = s
        /\ (req'[t].pc = "load" /\ Stands(ToSet(dir), s)) \/ req'[t].pc = "prepare"
    BY <1>0, <1>2, CheckMoves
  <2>2. dir' = dir
    BY <1>2 DEF Check
  <2> QED
    BY <1>0, <2>1, <2>2, DirectoryAlone
<1>3. CASE UNCHANGED <<req, dir>>
  BY <1>0, <1>3 DEF Directory
<1>4. CASE Crash
  <2>1. dir' = dir /\ \A t \in Threads : req'[t].pc = "idle"
    BY <1>4 DEF Crash, Idle
  <2> QED
    BY <1>0, <2>1 DEF Directory
<1> QED
  BY <1>1, <1>2, <1>3, <1>4, RemoveOldestStep DEF Next, CleanTarget, ListCache, EndSweep, vars

-----------------------------------------------------------------------------
LEMMA TypeStep ==
    ASSUME IInv, [Next]_vars
    PROVE  TypeOK'
<1>0. /\ TypeOK /\ Apart /\ Crates
      /\ req' \in [Threads -> Requests] /\ counter' \in Numbers /\ dir' \in Seq(Files)
      /\ req \in [Threads -> Requests]
      /\ requests \in Nat /\ crashes \in Nat
      /\ \A t \in Threads : req[t].n \in Numbers /\ req[t].src \in Sources \cup {None}
  BY ApartStep, DirectoryStep DEF IInv, TypeOK, Requests
<1>1. lock' \in Threads \cup {None, Poisoned}
  BY <1>0 DEF TypeOK, vars, Next, Check, ThreadStep, Prepare, Lock, Build, StartCopy, EndCopy,
     Rename, Load, CleanTarget, ListCache, RemoveOldest, EndSweep, Crash
<1>2. crates' \in [Numbers -> Sources \cup {None, Left}]
  <2>0. counter \in Numbers /\ crates \in [Numbers -> Sources \cup {None, Left}]
    BY <1>0 DEF TypeOK
  <2>1. ASSUME NEW t \in Threads, NEW n \in Numbers, NEW x \in {req[t].src, None, Left},
               crates' = [crates EXCEPT ![n] = x]
        PROVE  crates' \in [Numbers -> Sources \cup {None, Left}]
    BY <1>0, <2>0, <2>1
  <2>2. ASSUME NEW t \in Threads, Prepare(t)
        PROVE  crates' \in [Numbers -> Sources \cup {None, Left}]
    BY <2>0, <2>1, <2>2 DEF Prepare
  <2>3. ASSUME NEW t \in Threads, Build(t)
        PROVE  crates' \in [Numbers -> Sources \cup {None, Left}]
    BY <1>0, <2>0, <2>1, <2>3 DEF Build, RemoveCrate
  <2>4. CASE Crash
    BY <2>0, <2>4 DEF Crash
  <2>5. CASE crates' = crates
    BY <2>0, <2>5
  <2> QED
    BY <2>2, <2>3, <2>4, <2>5 DEF vars, Next, Check, ThreadStep, Lock, StartCopy, EndCopy,
       Rename, Load, CleanTarget, ListCache, RemoveOldest, EndSweep
<1>3. target' \in [Numbers -> Sources \cup {None}]
  <2>1. \/ target' = target \/ target' = [n \in Numbers |-> None]
        \/ \E t \in Threads : /\ req[t].pc = "build"
                              /\ target' = [target EXCEPT ![req[t].n] = crates[req[t].n]]
    BY DEF vars, Next, Check, ThreadStep, Prepare, Lock, Build, StartCopy, EndCopy,
       Rename, Load, CleanTarget, ListCache, RemoveOldest, EndSweep, Crash
  <2>2. ASSUME NEW t \in Threads, req[t].pc = "build"
        PROVE  [target EXCEPT ![req[t].n] = crates[req[t].n]] \in [Numbers -> Sources \cup {None}]
    BY <1>0, <2>2 DEF TypeOK, Crates
  <2> QED
    BY <1>0, <2>1, <2>2 DEF TypeOK
<1>4. requests' \in Nat /\ crashes' \in Nat
  <2>1. requests' \in {requests, requests + 1, 0} /\ crashes' \in {crashes, crashes + 1}
    BY DEF vars, Next, Check, ThreadStep, Prepare, Lock, Build, StartCopy, EndCopy,
       Rename, Load, CleanTarget, ListCache, RemoveOldest, EndSweep, Crash
  <2> QED
    BY <1>0, <2>1
<1>5. sweep' \in [on : BOOLEAN, left : Seq(Files), total : Nat]
  <2>1. CASE UNCHANGED sweep
    BY <1>0, <2>1 DEF TypeOK
  <2>2. CASE ListCache
    <3>1. dir \in Seq(Files) /\ Len(dir) \in Nat
      BY <1>0 DEF TypeOK
    <3> QED
      BY <2>2, <3>1 DEF ListCache
  <2>3. CASE RemoveOldest
    <3>1. /\ sweep \in [on : BOOLEAN, left : Seq(Files), total : Nat] /\ MaxFiles \in Nat
          /\ sweep.total > MaxFiles /\ sweep.left # <<>>
      BY <1>0, <2>3, Bounds DEF TypeOK, RemoveOldest, Sweeping
    <3>2. Tail(sweep.left) \in Seq(Files) /\ sweep.total \in Nat /\ sweep.total - 1 \in Nat
      BY <3>1
    <3>3. /\ sweep' = [sweep EXCEPT !.left = Tail(@), !.total = IF Exists(Head(sweep.left)) THEN @ - 1 ELSE @]
      BY <2>3 DEF RemoveOldest
    <3>4. CASE Exists(Head(sweep.left))
      BY <3>1, <3>2, <3>3, <3>4
    <3>5. CASE ~Exists(Head(sweep.left))
      BY <3>1, <3>2, <3>3, <3>5
    <3> QED
      BY <3>4, <3>5
  <2>4. CASE sweep' = NoSweep
    BY <2>4 DEF NoSweep
  <2> QED
    BY <2>1, <2>2, <2>3, <2>4 DEF vars, Next, Check, ThreadStep, Prepare, Lock, Build, StartCopy,
       EndCopy, Rename, Load, CleanTarget, EndSweep, Crash
<1> QED
  BY <1>0, <1>1, <1>2, <1>3, <1>4, <1>5 DEF TypeOK, Requests

LEMMA SweptStep ==
    ASSUME IInv, [Next]_vars
    PROVE  Swept'
<1>1. CASE UNCHANGED sweep
  BY <1>1 DEF IInv, Swept
<1>2. CASE ListCache
  <2>1. sweep'.left = dir /\ sweep'.total = Len(dir) /\ Len(dir) \in Nat
    BY <1>2 DEF ListCache, IInv, TypeOK
  <2> QED
    BY <2>1 DEF Swept
<1>3. CASE RemoveOldest
  <2>1. /\ sweep \in [on : BOOLEAN, left : Seq(Files), total : Nat]
        /\ Len(sweep.left) <= sweep.total /\ Len(sweep.left) > 1
    BY <1>3 DEF IInv, TypeOK, Swept, RemoveOldest, Sweeping
  <2>2. /\ sweep'.left = Tail(sweep.left)
        /\ sweep'.total \in {sweep.total - 1, sweep.total}
    BY <1>3, <2>1 DEF RemoveOldest
  <2>3. Len(sweep'.left) = Len(sweep.left) - 1 /\ Len(sweep.left) \in Nat /\ sweep.total \in Nat
    BY <2>1, <2>2
  <2> QED
    BY <2>1, <2>2, <2>3 DEF Swept
<1>4. CASE sweep' = NoSweep
  <2>1. sweep'.left = <<>> /\ sweep'.total = 0 /\ Len(<<>>) = 0
    BY <1>4 DEF NoSweep
  <2> QED
    BY <2>1 DEF Swept
<1> QED
  BY <1>1, <1>2, <1>3, <1>4 DEF vars, Next, Check, ThreadStep, Prepare, Lock, Build, StartCopy,
     EndCopy, Rename, Load, CleanTarget, EndSweep, Crash

LEMMA Start ==
    ASSUME Init
    PROVE  IInv
<1>0. /\ req = [t \in Threads |-> Idle] /\ counter = 0 /\ lock = None
      /\ crates = [n \in Numbers |-> None] /\ target = [n \in Numbers |-> None]
      /\ dir = <<>> /\ sweep = NoSweep /\ requests = 0 /\ crashes = 0
      /\ MaxCount \in Nat /\ 0 \in Numbers
      /\ \A t \in Threads : req[t] = Idle /\ req[t].pc = "idle"
  BY Bounds DEF Init, Idle
<1>1. TypeOK
  <2>1. dir \in Seq(Files) /\ sweep \in [on : BOOLEAN, left : Seq(Files), total : Nat]
    BY <1>0 DEF NoSweep
  <2>2. req \in [Threads -> Requests]
    BY <1>0, Bounds
  <2> QED
    BY <1>0, <2>1, <2>2 DEF TypeOK, Requests
<1>2. Apart
  <2>1. Numbered = {} /\ NeedTwo = {} /\ NeedOne = {}
    BY <1>0 DEF Numbered, NeedTwo, NeedOne
  <2>2. Cardinality(NeedTwo) = 0 /\ Cardinality(NeedOne) = 0
    BY <2>1, FS_EmptySet
  <2>3. counter + 2 * Cardinality(NeedTwo) + Cardinality(NeedOne) <= MaxCount
    BY <1>0, <2>2
  <2> QED
    BY <1>0, <2>1, <2>3 DEF Apart
<1>3. Crates
  BY <1>0 DEF Crates
<1>4. Directory
  <2>1. DOMAIN dir = {} /\ ToSet(dir) = {}
    BY <1>0 DEF ToSet
  <2> QED
    BY <1>0, <2>1 DEF Directory, OneOfAName, Correct
<1>5. Swept
  BY <1>0 DEF Swept, NoSweep
<1> QED
  BY <1>1, <1>2, <1>3, <1>4, <1>5 DEF IInv

LEMMA Inductive == Spec => []IInv
<1>1. IInv /\ [Next]_vars => IInv'
  BY TypeStep, ApartStep, CratesStep, DirectoryStep, SweptStep DEF IInv
<1> QED
  BY <1>1, Start, PTL DEF Spec

(* The state stays in its type; in particular a request never needs a       *)
(* number beyond the bound it was admitted under.                           *)
THEOREM TypeCorrect == Spec => []TypeOK
<1>1. IInv => TypeOK
  BY DEF IInv
<1> QED
  BY <1>1, Inductive, PTL

(* A finished entry of the cache is whole and compiled from the source of   *)
(* its key, for any threads that build, clean up and die: rename makes a    *)
(* copy an entry, and only the thread that took its number writes a copy.   *)
THEOREM EntriesCorrect == Spec => []CacheCorrect
<1>1. IInv => CacheCorrect
  BY DEF IInv, Directory, Correct, CacheCorrect, ToSet
<1> QED
  BY <1>1, Inductive, PTL

(* An answered path names a whole plugin of the source asked for until it   *)
(* is opened, unless cache_cleanup takes it away.                           *)
THEOREM AnswersStand == Spec => []AnswerStands
<1>1. ASSUME IInv
      PROVE  AnswerStands
  <2>1. SUFFICES ASSUME NEW t \in Threads, req[t].pc = "load", ~req[t].gone
                 PROVE  Cached(req[t].src) /\ Named(Entry(req[t].src, None, TRUE)).built = req[t].src
    BY DEF AnswerStands
  <2>2. PICK g \in ToSet(dir) : SameName(g, Entry(req[t].src, req[t].src, TRUE))
    BY <1>1, <2>1 DEF IInv, Directory, Stands
  <2>3. Cached(req[t].src) /\ Exists(Entry(req[t].src, None, TRUE))
    BY <2>2 DEF Cached, Exists, Has, ToSet, SameName, Entry
  <2>4. PICK x, h : x = Entry(req[t].src, None, TRUE) /\ h = Named(x)
    OBVIOUS
  <2>5. h \in ToSet(dir) /\ SameName(h, x)
    BY <2>3, <2>4, Found
  <2>6. h.kind = "entry" /\ h.src = req[t].src
    BY <2>4, <2>5 DEF SameName, Entry
  <2>7. h.built = h.src
    BY <1>1, <2>5, <2>6 DEF IInv, Directory, Correct
  <2> QED
    BY <2>3, <2>4, <2>6, <2>7
<1> QED
  BY <1>1, Inductive, PTL
=============================================================================
