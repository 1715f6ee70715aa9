---------------------------- MODULE DaemonRunner ----------------------------
(***************************************************************************)
(* The daemon of runner/daemon.py: trigger threads that admit, execute and *)
(* retry runs through the circuit breaker, the concurrency semaphore and   *)
(* the in-flight counter; hot reload; and the shutdown of the main thread. *)
(*                                                                         *)
(* A trigger thread calls _on_trigger synchronously, so it handles one     *)
(* event at a time.  Each lock-protected call of the handler is one action;*)
(* between two of them any other thread may run.                           *)
(*                                                                         *)
(* The token budget's verdict is a free choice here: TokenBudget models    *)
(* the tracker behind it.                                                  *)
(***************************************************************************)
EXTENDS CircuitBreaker, FiniteSets

CONSTANTS
  Original,       \* trigger threads of the dispatcher run() enters
  Replacement,    \* trigger threads of the dispatcher a hot reload starts
  MaxConcurrent,  \* _MAX_CONCURRENT
  MaxAttempts     \* retry_policy.max_attempts

Thread == Original \cup Replacement

ASSUME DaemonAssumption ==
  /\ IsFiniteSet(Original)
  /\ IsFiniteSet(Replacement)
  /\ Original \cap Replacement = {}
  /\ MaxConcurrent \in Nat \ {0}
  /\ MaxAttempts \in Nat \ {0}

VARIABLES
  breaker,    \* _circuit_breaker
  permits,    \* value of _concurrency_semaphore
  inFlight,   \* _in_flight_count
  pc,         \* where each trigger thread is in _on_trigger
  attempt,    \* index of the attempt a thread is making
  outcome,    \* result of the finished run, until it is recorded
  live,       \* triggers whose stop event is clear
  reload,     \* progress of a reload that changes the triggers
  main,       \* phase of the main thread in run()
  toStop,     \* triggers stop_all has yet to stop
  probes,     \* history: threads admitted as a probe of this HALF_OPEN episode
  atStop      \* history: threads in flight since before the stop signal, until the
              \* grace period is over

resilience == <<breaker, probes>>
counters == <<permits, inFlight>>
threadState == <<pc, attempt, outcome>>
lifecycle == <<live, reload, main, toStop, atStop>>
vars == <<resilience, counters, threadState, lifecycle>>

(* Threads between a successful acquire of the semaphore and its release. *)
HoldingSlot == {"budget", "enter", "exec", "record", "log", "leave", "free"}

(* Threads counted by _in_flight_count. *)
Counted == {"exec", "record", "log", "leave"}

Holders == {t \in Thread : pc[t] \in HoldingSlot}

Running == {t \in Thread : pc[t] \in Counted}

Busy == HoldingSlot \cup {"slot", "refused", "unclaim"}

Location == Busy \cup {"idle", "killed"}

TypeOK ==
  /\ breaker \in Breaker
  /\ permits \in 0 .. MaxConcurrent
  /\ inFlight \in Nat
  /\ pc \in [Thread -> Location]
  /\ attempt \in [Thread -> 0 .. MaxAttempts]
  /\ outcome \in [Thread -> Outcome \ {"paused"}]
  /\ live \subseteq Thread
  /\ reload \in {"none", "restarting", "done"}
  /\ main \in {"serving", "draining", "stopping", "exited"}
  /\ toStop \subseteq Original
  /\ probes \subseteq Thread
  /\ atStop \subseteq Thread

Init ==
  /\ breaker \in {NewBreaker, NoBreaker}
  /\ permits = MaxConcurrent
  /\ inFlight = 0
  /\ pc = [t \in Thread |-> "idle"]
  /\ attempt = [t \in Thread |-> 0]
  /\ outcome = [t \in Thread |-> "ok"]
  /\ live = Original
  /\ reload = "none"
  /\ main = "serving"
  /\ toStop = Original
  /\ probes = {}
  /\ atStop = {}

Alive == main # "exited"

Goto(t, from, to) ==
  /\ Alive
  /\ pc[t] = from
  /\ pc' = [pc EXCEPT ![t] = to]

-----------------------------------------------------------------------------
(* _on_trigger: an event fires and the breaker is asked first. *)
Fire(t) ==
  /\ t \in live
  /\ Goto(t, "idle", IF Allows(breaker) THEN "slot" ELSE "idle")
  /\ breaker' = AfterAllow(breaker)
  /\ probes' = IF Allows(breaker) /\ AfterAllow(breaker).state = "half_open"
                 THEN probes \cup {t} ELSE probes
  /\ UNCHANGED <<counters, attempt, outcome, lifecycle>>

(* acquire(blocking=False) succeeds. *)
AcquireSlot(t) ==
  /\ Goto(t, "slot", "budget")
  /\ permits > 0
  /\ permits' = permits - 1
  /\ UNCHANGED <<resilience, inFlight, attempt, outcome, lifecycle>>

(* Mutant of SlotRefused: the acquire moved inside the try of the release. *)
SlotRefusedFrees(t) ==
  /\ Goto(t, "slot", "free")
  /\ permits = 0
  /\ UNCHANGED <<resilience, counters, attempt, outcome, lifecycle>>

(* ... or fails, and the trigger is skipped. *)
SlotRefused(t) ==
  /\ Goto(t, "slot", "refused")
  /\ permits = 0
  /\ UNCHANGED <<resilience, counters, attempt, outcome, lifecycle>>

(* release_probe, the last thing a trigger does with the breaker. *)
ReleaseProbe(t, from) ==
  /\ Goto(t, from, "idle")
  /\ breaker' = AfterRelease(breaker)
  /\ probes' = probes \ {t}
  /\ UNCHANGED <<counters, attempt, outcome, lifecycle>>

SkipTrigger(t) == ReleaseProbe(t, "refused")

(* check_before_run lets the run through, or the trigger is skipped. *)
BudgetAllows(t) ==
  /\ Goto(t, "budget", "enter")
  /\ UNCHANGED <<resilience, counters, attempt, outcome, lifecycle>>

BudgetRefuses(t) ==
  /\ Goto(t, "budget", "free")
  /\ UNCHANGED <<resilience, counters, attempt, outcome, lifecycle>>

EnterInFlight(t) ==
  /\ Goto(t, "enter", "exec")
  /\ inFlight' = inFlight + 1
  /\ attempt' = [attempt EXCEPT ![t] = 1]
  /\ UNCHANGED <<resilience, permits, outcome, lifecycle>>

(* One pass of the retry loop: only a transient provider error is retried.  *)
Attempt(t) ==
  \/ /\ attempt[t] < MaxAttempts
     /\ Goto(t, "exec", "exec")
     /\ attempt' = [attempt EXCEPT ![t] = @ + 1]
     /\ UNCHANGED <<resilience, counters, outcome, lifecycle>>
  \/ \E o \in Outcome :
       /\ o = "rate_limit" => attempt[t] = MaxAttempts
       /\ Goto(t, "exec", IF o = "paused" THEN "leave" ELSE "record")
       /\ attempt' = [attempt EXCEPT ![t] = 0]
       /\ outcome' = [outcome EXCEPT ![t] = IF o = "paused" THEN "ok" ELSE o]
       /\ UNCHANGED <<resilience, counters, lifecycle>>

(* _execute_single raises: only the finally blocks run. *)
RunRaises(t) ==
  /\ Goto(t, "exec", "leave")
  /\ attempt' = [attempt EXCEPT ![t] = 0]
  /\ UNCHANGED <<resilience, counters, outcome, lifecycle>>

(* One record per trigger fire, whatever breaker is installed by then. *)
RecordOutcome(t) ==
  LET b == AfterRecord(breaker, outcome[t]) IN
    /\ Goto(t, "record", "log")
    /\ breaker' = b
    /\ probes' = IF b.state # "half_open" THEN {}
                 ELSE IF outcome[t] = "unclassified" THEN probes
                 ELSE probes \ {t}
    /\ outcome' = [outcome EXCEPT ![t] = "ok"]
    /\ UNCHANGED <<counters, attempt, lifecycle>>

(* _audit_circuit_transition, then reply, sinks, episode and history; an    *)
(* exception in those leaves through the same finally block.                *)
PostProcess(t) ==
  /\ Goto(t, "log", "leave")
  /\ UNCHANGED <<resilience, counters, attempt, outcome, lifecycle>>

LeaveInFlight(t) ==
  /\ Goto(t, "leave", "free")
  /\ inFlight' = inFlight - 1
  /\ atStop' = atStop \ {t}
  /\ UNCHANGED <<resilience, permits, attempt, outcome, live, reload, main, toStop>>

ReleaseSlot(t) ==
  /\ Goto(t, "free", "unclaim")
  /\ permits' = permits + 1
  /\ UNCHANGED <<resilience, inFlight, attempt, outcome, lifecycle>>

FinishTrigger(t) == ReleaseProbe(t, "unclaim")

(* The monotonic clock passes the reset timeout of an open circuit. *)
ResetTimeoutElapses ==
  /\ Alive
  /\ breaker.state = "open"
  /\ ~breaker.elapsed
  /\ breaker' = AfterResetTimeout(breaker)
  /\ UNCHANGED <<probes, counters, threadState, lifecycle>>

-----------------------------------------------------------------------------
(* _apply_reload on the watcher thread: a changed breaker config installs a *)
(* new breaker or none; changed triggers stop the dispatcher and start      *)
(* another.  Bound: the triggers change once.                               *)
ReloadBreaker ==
  /\ Alive
  /\ reload = "none"
  /\ breaker' \in {NewBreaker, NoBreaker}
  /\ probes' = {}
  /\ UNCHANGED <<counters, threadState, lifecycle>>

RestartStopsOld ==
  /\ Alive
  /\ reload = "none"
  /\ Replacement # {}
  /\ reload' = "restarting"
  /\ live' = live \ Original
  /\ UNCHANGED <<resilience, counters, threadState, main, toStop, atStop>>

RestartStartsNew ==
  /\ Alive
  /\ reload = "restarting"
  /\ reload' = "done"
  /\ live' = live \cup Replacement
  /\ UNCHANGED <<resilience, counters, threadState, main, toStop, atStop>>

-----------------------------------------------------------------------------
(* The first signal sets the stop event and the main thread starts to drain.*)
StopSignal ==
  /\ main = "serving"
  /\ main' = "draining"
  /\ atStop' = Running
  /\ UNCHANGED <<resilience, counters, threadState, live, reload, toStop>>

(* Mutant of Drained: shutdown announces the wait but does not wait. *)
DrainedAtOnce ==
  /\ main = "draining"
  /\ main' = "stopping"
  /\ UNCHANGED <<resilience, counters, threadState, live, reload, toStop, atStop>>

(* _drain_in_flight returns when nothing is in flight ... *)
Drained ==
  /\ main = "draining"
  /\ inFlight = 0
  /\ main' = "stopping"
  /\ UNCHANGED <<resilience, counters, threadState, live, reload, toStop, atStop>>

(* Mutant of GraceElapses: the drain waits without a deadline. *)
GraceNever == FALSE

(* ... or when the grace period, _SHUTDOWN_GRACE_SECONDS, is over. *)
GraceElapses ==
  /\ main = "draining"
  /\ inFlight > 0
  /\ main' = "stopping"
  /\ atStop' = {}
  /\ UNCHANGED <<resilience, counters, threadState, live, reload, toStop>>

(* stop_all of the dispatcher the with statement entered.  Each join gives  *)
(* up after its timeout, so a busy thread never holds it back for good.     *)
StopTrigger(t) ==
  /\ main = "stopping"
  /\ t \in toStop
  /\ toStop' = toStop \ {t}
  /\ live' = live \ {t}
  /\ UNCHANGED <<resilience, counters, threadState, reload, main, atStop>>

(* run() returns and the process ends; trigger threads are daemon threads.  *)
Exit ==
  /\ main = "stopping"
  /\ toStop = {}
  /\ main' = "exited"
  /\ pc' = [t \in Thread |-> IF pc[t] \in Busy THEN "killed" ELSE pc[t]]
  /\ UNCHANGED <<resilience, counters, attempt, outcome,
                 live, reload, toStop, atStop>>

Terminated == main = "exited" /\ UNCHANGED vars

-----------------------------------------------------------------------------
Admission(t) == AcquireSlot(t) \/ SlotRefused(t) \/ SkipTrigger(t)
                  \/ BudgetAllows(t) \/ BudgetRefuses(t) \/ EnterInFlight(t)

Execution(t) == Attempt(t) \/ RunRaises(t) \/ RecordOutcome(t) \/ PostProcess(t)

Departure(t) == LeaveInFlight(t) \/ ReleaseSlot(t) \/ FinishTrigger(t)

ThreadStep(t) == Admission(t) \/ Execution(t) \/ Departure(t)

MainStep == Drained \/ GraceElapses \/ (\E t \in Original : StopTrigger(t)) \/ Exit

Next ==
  \/ \E t \in Thread : Fire(t) \/ ThreadStep(t)
  \/ ResetTimeoutElapses
  \/ ReloadBreaker \/ RestartStopsOld \/ RestartStartsNew
  \/ StopSignal \/ MainStep
  \/ Terminated

Spec == Init /\ [][Next]_vars

(* A thread inside the handler keeps running: a model call is bounded by    *)
(* the executor's timeout, and the retry loop by MaxAttempts.  The main     *)
(* thread's waits are all bounded.  Nothing makes a trigger fire, a signal  *)
(* arrive or a file change.                                                 *)
Fairness ==
  /\ \A t \in Thread : WF_vars(ThreadStep(t))
  /\ WF_vars(MainStep)
  /\ WF_vars(ResetTimeoutElapses)

FairSpec == Spec /\ Fairness

-----------------------------------------------------------------------------
(* Properties. *)

(* A slot of the semaphore is out exactly while a thread is between its      *)
(* acquire and its release in _on_trigger: no path leaks one, none frees one *)
(* twice (daemon.py, the finally of _on_trigger).                            *)
SlotsConserved ==
  Alive => permits + Cardinality(Holders) = MaxConcurrent

(* The counter the drain waits on is the number of runs it means, on every   *)
(* path: retry, pause, error, exception.                                     *)
InFlightExact ==
  Alive => inFlight = Cardinality(Running)

(* The semaphore and the counter together, for one is raised and lowered     *)
(* between the steps of the other.                                           *)
Counters == SlotsConserved /\ InFlightExact

(* A claimed HALF_OPEN slot always has a thread that is still to give it     *)
(* back: dropped, paused, refused and failed triggers never leave the        *)
(* breaker rejecting everything (release_probe's reason to exist).           *)
ProbeSlotHeld ==
  (Alive /\ breaker.state = "half_open" /\ breaker.probe)
    => \E t \in probes : pc[t] \in Busy

(* Whatever the order in which late results of earlier admissions arrive, a  *)
(* closed circuit is below its threshold: the next provider failure that     *)
(* reaches it opens it.                                                      *)
ClosedBelowThreshold == breaker.state = "closed" => breaker.failures < Threshold

(* A run that was in flight when the signal came is cut off by the exit only *)
(* if the grace period was used up, even while further triggers fire during  *)
(* the drain (_drain_in_flight).                                             *)
DrainCoversSignal ==
  main = "exited" => \A t \in atStop : pc[t] # "killed"

(* Shutdown ends, however many triggers keep firing and runs keep running.   *)
ShutdownTerminates == (main = "draining") ~> (main = "exited")

(* A claimed probe slot is given back or decided.                            *)
ProbeSlotFreed ==
  (breaker.state = "half_open" /\ breaker.probe)
    ~> (breaker.state # "half_open" \/ ~breaker.probe \/ ~Alive)

=============================================================================
