---------------------------- MODULE MCScheduling ----------------------------
(* The daemon's follow-ups as they are; no symmetry, for liveness is asked. *)
EXTENDS Scheduling
=============================================================================
