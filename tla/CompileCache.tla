---------------------------- MODULE CompileCache ----------------------------
(***************************************************************************)
(* The run-time compile pipeline and its cache on disk (src/compile.rs):   *)
(* build_plugin_cached and build_plugin_with_deps_cached over              *)
(* build_plugin_with_deps, run by several threads of one process, next to  *)
(* cache_cleanup and plugin_target_cleanup, with crashes of the process.   *)
(*                                                                         *)
(* A source stands for its cache key (source, dependencies, toolchain).    *)
(* The cache directory is the sequence of its files, oldest first.         *)
(***************************************************************************)
EXTENDS Naturals, Sequences, FiniteSets, SequencesExt

CONSTANTS
    Threads,   \* threads that ask for plugins
    Sources,   \* middleware sources, all under one plugin name
    MaxFiles,  \* max_bytes of cache_cleanup, counted in files
    MaxCount,  \* bound of the model: numbers one process takes from COUNTER
    MaxRequests,  \* bound of the model: requests to one process
    MaxCrash,  \* bound of the model: crashes
    Poisoned,  \* BUILD_LOCK after a panic
    Left,      \* a crate directory that a crash or the file system left
    None

ASSUME BoundsAssumption == {MaxFiles, MaxCount, MaxRequests, MaxCrash} \subseteq Nat
ASSUME ThreadsAssumption == IsFiniteSet(Threads)

VARIABLES
    req,      \* req[t]: the request of thread t and where it is
    counter,  \* COUNTER
    lock,     \* BUILD_LOCK: the thread that holds it, None or Poisoned
    crates,   \* temporary crate directories: number -> source written there, or Left
    target,   \* artefacts in the shared target directory: number -> source
    dir,      \* files of the cache directory, oldest first
    sweep,    \* a running cache_cleanup: the files it listed and their total
    requests, \* requests made to this process, up to the bound
    crashes

vars == <<req, counter, lock, crates, target, dir, sweep, requests, crashes>>

(* gone is a history: cache_cleanup removed the entry since the answer.     *)
Idle == [pc |-> "idle", src |-> None, n |-> 0, gone |-> FALSE]
NoSweep == [on |-> FALSE, left |-> <<>>, total |-> 0]

Numbers == 0..MaxCount

Init ==
    /\ req = [t \in Threads |-> Idle]
    /\ counter = 0 /\ lock = None
    /\ crates = [n \in Numbers |-> None]
    /\ target = [n \in Numbers |-> None]
    /\ dir = <<>> /\ sweep = NoSweep
    /\ requests = 0
    /\ crashes = 0

(* Files: a finished entry is named by its source, a temporary file by its  *)
(* source and its number.  built is the source it was compiled from and     *)
(* whole tells whether all of it has been copied.                           *)
Entry(s, b, w) == [kind |-> "entry", src |-> s, n |-> 0, built |-> b, whole |-> w]
Temp(s, n, b, w) == [kind |-> "temp", src |-> s, n |-> n, built |-> b, whole |-> w]
SameName(f, g) == f.kind = g.kind /\ f.src = g.src /\ f.n = g.n
Has(d, f) == \E i \in DOMAIN d : SameName(d[i], f)
Without(d, f) ==
    IF Has(d, f) THEN RemoveAt(d, CHOOSE i \in DOMAIN d : SameName(d[i], f)) ELSE d
Exists(f) == Has(dir, f)
Named(f) == CHOOSE g \in ToSet(dir) : SameName(g, f)

Cached(s) == Exists(Entry(s, s, TRUE))
TempOf(t) == Temp(req[t].src, req[t].n, None, FALSE)

Goto(t, pc) == req' = [req EXCEPT ![t].pc = pc]
Answer(t) == req' = [req EXCEPT ![t] = Idle]

-----------------------------------------------------------------------------
(* One request *)

(* The entry exists and its path is the answer, or it has to be built.      *)
Check(t, s) ==
    /\ req[t] = Idle
    /\ counter + 2 * Cardinality({u \in Threads : req[u] # Idle}) + 2 <= MaxCount
    /\ requests < MaxRequests
    /\ requests' = requests + 1
    /\ req' = [req EXCEPT ![t] = [pc |-> IF Cached(s) THEN "load" ELSE "prepare",
                                      src |-> s, n |-> 0, gone |-> FALSE]]
    /\ UNCHANGED <<counter, lock, crates, target, dir, sweep, crashes>>

(* A fresh crate directory with the source in it; an error while writing it *)
(* is returned and leaves the directory.                                    *)
Prepare(t) ==
    /\ req[t].pc = "prepare"
    /\ counter' = counter + 1
    /\ \/ /\ crates' = [crates EXCEPT ![counter] = req[t].src]
          /\ req' = [req EXCEPT ![t].pc = "lock", ![t].n = counter]
       \/ /\ crates' = [crates EXCEPT ![counter] = Left]
          /\ Answer(t)
    /\ UNCHANGED <<lock, target, dir, sweep, requests, crashes>>

(* The guard's unwrap: a request that finds the lock poisoned panics.       *)
Lock(t) ==
    /\ req[t].pc = "lock"
    /\ \/ lock = None /\ lock' = t /\ Goto(t, "build")
       \/ lock = Poisoned /\ Answer(t) /\ UNCHANGED lock
    /\ UNCHANGED <<counter, crates, target, dir, sweep, requests, crashes>>

(* remove_dir_all of the crate, whose errors are ignored.                   *)
RemoveCrate(n) == \E left \in {None, Left} : crates' = [crates EXCEPT ![n] = left]

(* cargo build under the lock.  The crate directory goes in either case;    *)
(* but a failed build collects its diagnostics first, and panics over an    *)
(* "error[" without an end.                                                 *)
Build(t) ==
    /\ req[t].pc = "build"
    /\ \/ /\ target' = [target EXCEPT ![req[t].n] = crates[req[t].n]]
          /\ Goto(t, "copy")
          /\ RemoveCrate(req[t].n) /\ lock' = None
       \/ /\ Answer(t)
          /\ RemoveCrate(req[t].n) /\ lock' = None
          /\ UNCHANGED target
       \/ /\ Answer(t)
          /\ lock' = Poisoned
          /\ UNCHANGED <<target, crates>>
    /\ UNCHANGED <<counter, dir, sweep, requests, crashes>>

(* Mutant of StartCopy: a missing artefact goes unnoticed.                  *)
CopyUnchecked(t) ==
    /\ req[t].pc = "copy"
    /\ counter' = counter + 1
    /\ dir' = Append(dir, Temp(req[t].src, counter, target[req[t].n], FALSE))
    /\ req' = [req EXCEPT ![t].pc = "copying", ![t].n = counter]
    /\ UNCHANGED <<lock, crates, target, sweep, requests, crashes>>

(* fs::copy to a temporary file of a fresh number: it fails if the artefact *)
(* is gone, and may fail part way.                                          *)
StartCopy(t) ==
    /\ req[t].pc = "copy"
    /\ counter' = counter + 1
    /\ IF target[req[t].n] = None
       THEN Answer(t) /\ UNCHANGED dir
       ELSE LET f == Temp(req[t].src, counter, target[req[t].n], FALSE)
            IN  /\ dir' = Append(Without(dir, f), f)
                /\ req' = [req EXCEPT ![t].pc = "copying", ![t].n = counter]
    /\ UNCHANGED <<lock, crates, target, sweep, requests, crashes>>

(* Mutant of EndCopy: the error of a partial copy is ignored.               *)
EndCopyUnchecked(t) ==
    /\ req[t].pc = "copying"
    /\ Goto(t, "rename")
    /\ UNCHANGED <<counter, lock, crates, target, dir, sweep, requests, crashes>>

(* The open file is written to its end, which makes it the newest; its name *)
(* may be gone by then.                                                     *)
EndCopy(t) ==
    /\ req[t].pc = "copying"
    /\ \/ /\ dir' = IF Exists(TempOf(t))
                    THEN Append(Without(dir, TempOf(t)),
                                [Named(TempOf(t)) EXCEPT !.whole = TRUE])
                    ELSE dir
          /\ Goto(t, "rename")
       \/ Answer(t) /\ UNCHANGED dir
    /\ UNCHANGED <<counter, lock, crates, target, sweep, requests, crashes>>

(* Mutant of Rename: the entry is removed first.                            *)
RenameCleared(t) ==
    /\ req[t].pc = "rename"
    /\ LET rest == Without(dir, Entry(req[t].src, None, FALSE))
       IN  IF Exists(TempOf(t))
           THEN /\ dir' = Append(Without(rest, TempOf(t)),
                                 Entry(req[t].src, Named(TempOf(t)).built, Named(TempOf(t)).whole))
                /\ Goto(t, "load")
           ELSE dir' = rest /\ Answer(t)
    /\ UNCHANGED <<counter, lock, crates, target, sweep, requests, crashes>>

(* fs::rename replaces an entry of the same key at once, and its path is    *)
(* the answer; it fails if the temporary file has been cleaned up.          *)
Rename(t) ==
    /\ req[t].pc = "rename"
    /\ IF Exists(TempOf(t))
       THEN LET f == Named(TempOf(t))
                e == Entry(f.src, f.built, f.whole)
                rest == Without(dir, e)
            IN  /\ dir' = [i \in DOMAIN rest |-> IF SameName(rest[i], f) THEN e ELSE rest[i]]
                /\ Goto(t, "load")
       ELSE UNCHANGED dir /\ Answer(t)
    /\ UNCHANGED <<counter, lock, crates, target, sweep, requests, crashes>>

(* The caller opens the file the answer names, or fails to.                 *)
Load(t) ==
    /\ req[t].pc = "load"
    /\ Answer(t)
    /\ UNCHANGED <<counter, lock, crates, target, dir, sweep, requests, crashes>>

ThreadStep(t) ==
    Prepare(t) \/ Lock(t) \/ Build(t) \/ StartCopy(t) \/ EndCopy(t) \/ Rename(t) \/ Load(t)

-----------------------------------------------------------------------------
(* Cleanups and crashes *)

(* plugin_target_cleanup takes no lock.                                     *)
CleanTarget ==
    /\ target' = [n \in Numbers |-> None]
    /\ UNCHANGED <<req, counter, lock, crates, dir, sweep, requests, crashes>>

(* cache_cleanup lists the directory, then removes the oldest files by name *)
(* while the listed total is above the limit and more than one is left.     *)
ListCache ==
    /\ ~sweep.on
    /\ Len(dir) > 1 \* a sweep of fewer files has nothing to do
    /\ sweep' = [on |-> TRUE, left |-> dir, total |-> Len(dir)]
    /\ UNCHANGED <<req, counter, lock, crates, target, dir, requests, crashes>>

Sweeping == sweep.total > MaxFiles /\ Len(sweep.left) > 1

RemoveOldest ==
    /\ sweep.on /\ Sweeping
    /\ sweep' = [sweep EXCEPT !.left = Tail(@),
                              !.total = IF Exists(Head(sweep.left)) THEN @ - 1 ELSE @]
    /\ dir' = Without(dir, Head(sweep.left))
    /\ req' = [t \in Threads |->
                  IF req[t].pc = "load" /\ SameName(Head(sweep.left), Entry(req[t].src, None, TRUE))
                  THEN [req[t] EXCEPT !.gone = TRUE] ELSE req[t]]
    /\ UNCHANGED <<counter, lock, crates, target, requests, crashes>>

EndSweep ==
    /\ sweep.on /\ ~Sweeping
    /\ sweep' = NoSweep
    /\ UNCHANGED <<req, counter, lock, crates, target, dir, requests, crashes>>

(* The process dies and starts again: the disk stays, the statics do not.   *)
Crash ==
    /\ crashes < MaxCrash
    /\ crashes' = crashes + 1
    /\ req' = [t \in Threads |-> Idle]
    /\ lock' = None /\ sweep' = NoSweep
    /\ counter' = 0 /\ requests' = 0
    /\ crates' = [n \in Numbers |-> IF crates[n] = None THEN None ELSE Left]
    /\ UNCHANGED <<target, dir>>

Next ==
    \/ \E t \in Threads, s \in Sources : Check(t, s)
    \/ \E t \in Threads : ThreadStep(t)
    \/ CleanTarget
    \/ ListCache \/ RemoveOldest \/ EndSweep
    \/ Crash

Spec == Init /\ [][Next]_vars

-----------------------------------------------------------------------------
Files == [kind : {"entry", "temp"}, src : Sources, n : Numbers, built : Sources, whole : BOOLEAN]

TypeOK ==
    /\ req \in [Threads ->
         [pc : {"idle", "load", "prepare", "lock", "build", "copy", "copying", "rename"},
          src : Sources \cup {None}, n : Numbers, gone : BOOLEAN]]
    /\ counter \in Numbers
    /\ lock \in Threads \cup {None, Poisoned}
    /\ crates \in [Numbers -> Sources \cup {None, Left}]
    /\ target \in [Numbers -> Sources \cup {None}]
    /\ dir \in Seq(Files)
    /\ sweep \in [on : BOOLEAN, left : Seq(Files), total : Nat]
    /\ {requests, crashes} \subseteq Nat

(* Whatever a hit finds under a key is all of a plugin compiled from that   *)
(* key's source: neither threads building the same source at once, nor      *)
(* cleanups, nor a crash and numbers used again can put anything else there. *)
CacheCorrect ==
    \A i \in DOMAIN dir : dir[i].kind = "entry" => dir[i].whole /\ dir[i].built = dir[i].src

(* The path of an answer names a whole plugin of the source that was asked  *)
(* for until the caller opens it, however many others build, replace or     *)
(* clean up meanwhile; only cache_cleanup, by design or by names it listed  *)
(* before the answer, may take it away.                                     *)
AnswerStands ==
    \A t \in Threads : req[t].pc = "load" /\ ~req[t].gone =>
        Cached(req[t].src) /\ Named(Entry(req[t].src, None, TRUE)).built = req[t].src

(* What the source says of a build that fails (compile.rs:92, "no leak"):   *)
(* it leaves no crate directory behind, but for those that a crash or the   *)
(* file system leaves, and, as one that goes well, it frees the lock.       *)
BuildCleansUp ==
    /\ \A n \in Numbers : crates[n] \notin {None, Left} =>
         \E t \in Threads : req[t].pc \in {"lock", "build"} /\ req[t].n = n
    /\ lock # None => \E t \in Threads : lock = t /\ req[t].pc = "build"
=============================================================================
