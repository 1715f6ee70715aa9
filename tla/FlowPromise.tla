---------------------------- MODULE FlowPromise ----------------------------
(***************************************************************************)
(* What a durable flow promises of the run with one flow_run_id, over all  *)
(* the processes that start or resume it: a service that completed stays   *)
(* completed, and it completes only when each service upstream of it has   *)
(* completed or is excused, because one of its runs left nothing to replay.*)
(***************************************************************************)
CONSTANTS
  Service,
  Pred      \* the services that delegate to a service

VARIABLES
  done,     \* services whose work is kept
  excused   \* services of which a run was not kept

Init == done = {} /\ excused = {}

Complete(s) ==
  /\ s \notin done
  /\ Pred[s] \subseteq done \cup excused
  /\ done' = done \cup {s}
  /\ UNCHANGED excused

Excuse(s) ==
  /\ excused' = excused \cup {s}
  /\ UNCHANGED done

(* The flow succeeded: nothing is left to be done. *)
Close ==
  /\ Service = done \cup excused
  /\ done' = Service
  /\ excused' = Service

Next ==
  \/ \E s \in Service : Complete(s) \/ Excuse(s)
  \/ Close

Spec == Init /\ [][Next]_<<done, excused>>
=============================================================================
