--------------------------- MODULE MCFlowResume ---------------------------
EXTENDS FlowResume, TLC

CONSTANTS a, b, c, d, e

(* a delegates to b, c and e; b and c are joined before d. *)
Diamond == a :> {} @@ b :> {a} @@ c :> {a} @@ e :> {a} @@ d :> {b, c, e}
=============================================================================
