--------------------------- MODULE CircuitBreaker ---------------------------
(***************************************************************************)
(* The per-daemon circuit breaker of runner/circuit_breaker.py.            *)
(*                                                                         *)
(* Every public method of the class runs under one lock, so each is one    *)
(* atomic change of the breaker.  It is written here as a function from    *)
(* the breaker before the call to the breaker after it; DaemonRunner       *)
(* applies these functions at the points where the daemon makes the calls. *)
(*                                                                         *)
(* Time is abstracted to one bit: `elapsed` says that reset_timeout_seconds*)
(* have passed since the breaker was opened.                               *)
(***************************************************************************)
EXTENDS Naturals

CONSTANTS
  Threshold,   \* CircuitBreakerConfig.failure_threshold
  FailureCap   \* bound: the failure counter saturates here

ASSUME BreakerAssumption ==
  /\ Threshold \in Nat \ {0}
  /\ FailureCap \in Nat
  /\ FailureCap >= Threshold

(* "absent" stands for circuit_breaker: null, the daemon without a breaker. *)
CircuitState == {"closed", "open", "half_open", "absent"}

Breaker == [state    : CircuitState,
            failures : 0 .. FailureCap,   \* _failure_count
            elapsed  : BOOLEAN,           \* now - _opened_at >= reset timeout
            probe    : BOOLEAN]           \* _half_open_in_flight

NewBreaker == [state |-> "closed", failures |-> 0, elapsed |-> FALSE, probe |-> FALSE]

NoBreaker == [NewBreaker EXCEPT !.state = "absent"]

(* The outcomes of a run that the daemon tells apart.  "rate_limit" stands  *)
(* for the provider errors that are also retried, "auth" for the one that   *)
(* is not, "app" for every other error category, "unclassified" for a       *)
(* failure without a category.                                              *)
Outcome == {"ok", "rate_limit", "auth", "app", "unclassified", "paused"}

ProviderFailures == {"rate_limit", "auth"}

(* Mutant of Transition: closing forgets to reset the failure counter. *)
TransitionKeepsCount(b, new) ==
  IF new = "open" THEN [b EXCEPT !.state = new, !.elapsed = FALSE, !.probe = FALSE]
                  ELSE [b EXCEPT !.state = new, !.probe = FALSE]

Transition(b, new) ==
  IF new = "open" THEN [b EXCEPT !.state = new, !.elapsed = FALSE, !.probe = FALSE]
                  ELSE [b EXCEPT !.state = new, !.failures = 0, !.probe = FALSE]

(* _check_open_to_half_open *)
AfterTimeoutCheck(b) ==
  IF b.state = "open" /\ b.elapsed
    THEN [b EXCEPT !.state = "half_open", !.probe = FALSE]
    ELSE b

(* allow_request: its verdict and its effect. *)
Allows(b) ==
  LET c == AfterTimeoutCheck(b) IN
    \/ c.state \in {"closed", "absent"}
    \/ c.state = "half_open" /\ ~c.probe

AfterAllow(b) ==
  LET c == AfterTimeoutCheck(b) IN
    IF c.state = "half_open" THEN [c EXCEPT !.probe = TRUE] ELSE c

AfterSuccess(b) ==
  IF b.state = "half_open" THEN Transition(b, "closed") ELSE [b EXCEPT !.failures = 0]

(* The counting branch of record_failure. *)
AfterProviderFailure(b) ==
  LET n == IF b.failures < FailureCap THEN b.failures + 1 ELSE FailureCap
      c == [b EXCEPT !.failures = n]
  IN  IF b.state = "half_open" \/ (b.state = "closed" /\ n >= Threshold)
        THEN Transition(c, "open")
        ELSE c

(* Mutant of AfterRelease: a probe that records nothing is never given back. *)
AfterReleaseNothing(b) == b

AfterRelease(b) ==
  IF b.state = "half_open" THEN [b EXCEPT !.probe = FALSE] ELSE b

AfterFailure(b, category) ==
  IF category \in ProviderFailures THEN AfterProviderFailure(b) ELSE AfterRelease(b)

(* What the daemon records for the outcome of a finished trigger fire. *)
AfterRecord(b, outcome) ==
  IF b.state = "absent" \/ outcome \in {"unclassified", "paused"} THEN b
  ELSE IF outcome = "ok" THEN AfterSuccess(b)
  ELSE AfterFailure(b, outcome)

(* reset_timeout_seconds pass while the circuit is open. *)
AfterResetTimeout(b) == [b EXCEPT !.elapsed = TRUE]
=============================================================================
