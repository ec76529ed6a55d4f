--------------------------- MODULE MCJobManager ---------------------------
(* Small instances of JobManager for TLC.                                  *)
EXTENDS JobManager, TLC

(* Handlers are interchangeable, and so are job ids with their goroutines. *)
Symmetry == Permutations(Callers) \cup Permutations(Jobs)

(* Bound for the larger instances: at most one thread is inside saveJob's     *)
(* unlocked part.  The smaller instances interleave the writers freely.       *)
OneWriter == Cardinality({t \in Threads : pc[t] \in {"marshal", "open", "put"}}) <= 1

(* ... and no job is deleted.                                                 *)
NoDelete == \A t \in Threads : op[t] # "deleted"
OneWriterNoDelete == OneWriter /\ NoDelete
==============================================================================
