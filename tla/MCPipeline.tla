----------------------------- MODULE MCPipeline -----------------------------
(* Small instances of Pipeline for TLC. *)
EXTENDS Pipeline, TLC

\* Workers are interchangeable; used by the runs that check invariants only.
WorkerSymmetry == Permutations(Worker)
=============================================================================
