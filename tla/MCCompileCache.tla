--------------------------- MODULE MCCompileCache ---------------------------
(* CompileCache with two threads that build the same or different sources.  *)
EXTENDS CompileCache, TLC
CONSTANTS t1, t2, a, b
MCThreads == {t1, t2}
MCSources == {a, b}
MCSymmetry == Permutations(MCThreads) \cup Permutations(MCSources)
=============================================================================
