---------------------------- MODULE MCIngestion ----------------------------
(* A configured file, an upload and a page the dashboard adds.             *)
EXTENDS Ingestion, TLC

Symmetry == Permutations(Text) \cup Permutations(Process) \cup Permutations(Model)
              \cup Permutations(Actor)
=============================================================================
