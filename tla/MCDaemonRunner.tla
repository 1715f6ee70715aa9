--------------------------- MODULE MCDaemonRunner ---------------------------
(* A small instance of DaemonRunner: one trigger of the dispatcher run()    *)
(* enters and two of the one a hot reload starts.                           *)
EXTENDS DaemonRunner
=============================================================================
