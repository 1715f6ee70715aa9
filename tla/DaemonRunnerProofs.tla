------------------------- MODULE DaemonRunnerProofs -------------------------
(***************************************************************************)
(* Proofs about DaemonRunner, for any finite set of trigger threads, any   *)
(* semaphore size, retry policy and breaker configuration.                 *)
(***************************************************************************)
EXTENDS DaemonRunner, FiniteSetTheorems, TLAPS

USE DEF Thread

(* Facts about the breaker's functions. *)

(* Every call of the breaker yields a breaker. *)
LEMMA BreakerClosed ==
  ASSUME NEW b \in Breaker
  PROVE  /\ AfterTimeoutCheck(b) \in Breaker
         /\ AfterAllow(b) \in Breaker
         /\ AfterRelease(b) \in Breaker
         /\ AfterResetTimeout(b) \in Breaker
         /\ \A o \in Outcome : AfterRecord(b, o) \in Breaker
<1>1. AfterTimeoutCheck(b) \in Breaker
  BY DEF AfterTimeoutCheck, Breaker, CircuitState
<1>2. AfterAllow(b) \in Breaker
  BY <1>1 DEF AfterAllow, Breaker, CircuitState
<1>3. AfterRelease(b) \in Breaker
  BY DEF AfterRelease, Breaker
<1>4. AfterResetTimeout(b) \in Breaker
  BY DEF AfterResetTimeout, Breaker
<1>z. 0 \in 0 .. FailureCap
  BY BreakerAssumption
<1>5. AfterSuccess(b) \in Breaker
  <2>1. Transition(b, "closed") \in Breaker
    BY <1>z DEF Transition, Breaker, CircuitState
  <2>2. [b EXCEPT !.failures = 0] \in Breaker
    BY <1>z DEF Breaker, CircuitState
  <2>. QED BY <2>1, <2>2 DEF AfterSuccess
<1>6. AfterProviderFailure(b) \in Breaker
  <2>. DEFINE n == IF b.failures < FailureCap THEN b.failures + 1 ELSE FailureCap
              c == [b EXCEPT !.failures = n]
  <2>1. n \in 0 .. FailureCap
    BY BreakerAssumption DEF Breaker
  <2>. HIDE DEF n
  <2>2. c \in Breaker
    BY <2>1 DEF Breaker
  <2>. HIDE DEF c
  <2>3. Transition(c, "open") \in Breaker
    BY <2>2 DEF Transition, Breaker, CircuitState
  <2>. QED BY <2>2, <2>3 DEF AfterProviderFailure, c, n
<1>7. ASSUME NEW o \in Outcome PROVE AfterRecord(b, o) \in Breaker
  <2>1. AfterFailure(b, o) \in Breaker
    BY <1>3, <1>6 DEF AfterFailure
  <2>. QED BY <1>5, <2>1 DEF AfterRecord
<1>. QED BY <1>1, <1>2, <1>3, <1>4, <1>7

(* A new breaker, or none, is a breaker. *)
LEMMA InitialBreaker == NewBreaker \in Breaker /\ NoBreaker \in Breaker
<1>1. 0 \in 0 .. FailureCap
  BY BreakerAssumption
<1>2. NewBreaker \in Breaker
  BY <1>1 DEF NewBreaker, Breaker, CircuitState
<1>3. NoBreaker \in Breaker
  BY <1>2 DEF NoBreaker, Breaker, CircuitState
<1>. QED BY <1>2, <1>3

(***************************************************************************)
(* Type correctness.                                                       *)
(***************************************************************************)

LEMMA InitType == Init => TypeOK
<1>. SUFFICES ASSUME Init PROVE TypeOK
  OBVIOUS
<1>1. breaker \in Breaker
  BY InitialBreaker DEF Init
<1>2. 0 \in 0 .. MaxAttempts /\ MaxConcurrent \in 0 .. MaxConcurrent
  BY DaemonAssumption
<1>3. pc \in [Thread -> Location]
  BY DEF Init, Location
<1>4. outcome \in [Thread -> Outcome \ {"paused"}]
  BY DEF Init, Outcome
<1>. QED BY <1>1, <1>2, <1>3, <1>4 DEF Init, TypeOK

(***************************************************************************)
(* Counting: a step moves one thread, which joins or leaves a set.         *)
(***************************************************************************)

LEMMA ThreadFinite == IsFiniteSet(Thread)
  BY DaemonAssumption, FS_Union

LEMMA CountsFinite ==
  /\ IsFiniteSet(Holders)
  /\ IsFiniteSet(Running)
  /\ Cardinality(Holders) \in Nat
  /\ Cardinality(Running) \in Nat
  BY ThreadFinite, FS_Subset, FS_CardinalityType DEF Holders, Running

(* A thread that moves is afterwards a holder (counted) or not by where it  *)
(* went; the others keep their places.                                      *)
LEMMA MoveMembers ==
  ASSUME TypeOK, NEW t \in Thread, NEW to \in Location, pc' = [pc EXCEPT ![t] = to]
  PROVE  /\ Holders' = IF to \in HoldingSlot THEN Holders \cup {t} ELSE Holders \ {t}
         /\ Running' = IF to \in Counted THEN Running \cup {t} ELSE Running \ {t}
  BY DEF TypeOK, Holders, Running

(* ... and the sets' sizes follow. *)
LEMMA MoveCounts ==
  ASSUME TypeOK, NEW t \in Thread, NEW to \in Location, pc' = [pc EXCEPT ![t] = to]
  PROVE  /\ Cardinality(Holders') =
              IF to \in HoldingSlot
                THEN IF t \in Holders THEN Cardinality(Holders) ELSE Cardinality(Holders) + 1
                ELSE IF t \in Holders THEN Cardinality(Holders) - 1 ELSE Cardinality(Holders)
         /\ Cardinality(Running') =
              IF to \in Counted
                THEN IF t \in Running THEN Cardinality(Running) ELSE Cardinality(Running) + 1
                ELSE IF t \in Running THEN Cardinality(Running) - 1 ELSE Cardinality(Running)
<1>1. /\ Cardinality(Holders \cup {t}) =
            IF t \in Holders THEN Cardinality(Holders) ELSE Cardinality(Holders) + 1
      /\ Cardinality(Running \cup {t}) =
            IF t \in Running THEN Cardinality(Running) ELSE Cardinality(Running) + 1
  BY CountsFinite, FS_AddElement
<1>2. /\ Cardinality(Holders \ {t}) =
            IF t \in Holders THEN Cardinality(Holders) - 1 ELSE Cardinality(Holders)
      /\ Cardinality(Running \ {t}) =
            IF t \in Running THEN Cardinality(Running) - 1 ELSE Cardinality(Running)
  BY CountsFinite, FS_RemoveElement
<1>. QED BY <1>1, <1>2, MoveMembers

(* The counters are where they should be for the next decrement. *)
LEMMA LeaverCounted ==
  ASSUME InFlightExact, Alive, NEW t \in Thread, pc[t] \in Counted
  PROVE  inFlight \in Nat /\ inFlight >= 1
<1>1. t \in Running
  BY DEF Running
<1>2. Cardinality(Running) # 0
  BY <1>1, CountsFinite, FS_EmptySet
<1>. QED BY <1>2, CountsFinite DEF InFlightExact

LEMMA HolderOutside ==
  ASSUME TypeOK, SlotsConserved, Alive, NEW t \in Thread, pc[t] \in HoldingSlot
  PROVE  permits + 1 \in 0 .. MaxConcurrent
<1>1. t \in Holders
  BY DEF Holders
<1>2. Cardinality(Holders) # 0
  BY <1>1, CountsFinite, FS_EmptySet
<1>. QED BY <1>2, CountsFinite, DaemonAssumption DEF SlotsConserved, TypeOK

(***************************************************************************)
(* The invariant.                                                          *)
(***************************************************************************)

(* Type correctness needs the counters: a decrement of inFlight or an       *)
(* increment of permits stays in range because its thread is counted.       *)
LEMMA NextType == TypeOK /\ Counters /\ [Next]_vars => TypeOK'
<1>. SUFFICES ASSUME TypeOK, Counters, [Next]_vars PROVE TypeOK'
  OBVIOUS
<1>. USE DEF TypeOK, counters, resilience, threadState, lifecycle, Goto
<1>a. {"idle", "killed", "budget", "enter", "exec", "record", "log", "leave", "free",
       "slot", "refused", "unclaim"} = Location
  BY DEF Location, Busy, HoldingSlot
<1>1. ASSUME NEW t \in Thread, Fire(t) PROVE TypeOK'
  <2>1. breaker' \in Breaker
    BY <1>1, BreakerClosed DEF Fire
  <2>2. pc' \in [Thread -> Location]
    BY <1>1, <1>a DEF Fire
  <2>. QED BY <1>1, <2>1, <2>2 DEF Fire
<1>2. ASSUME NEW t \in Thread, Admission(t) PROVE TypeOK'
  <2>1. CASE AcquireSlot(t)
    BY <2>1, <1>a, DaemonAssumption DEF AcquireSlot
  <2>2. CASE SlotRefused(t)
    BY <2>2, <1>a DEF SlotRefused
  <2>3. CASE SkipTrigger(t)
    BY <2>3, <1>a, BreakerClosed DEF SkipTrigger, ReleaseProbe
  <2>4. CASE BudgetAllows(t)
    BY <2>4, <1>a DEF BudgetAllows
  <2>5. CASE BudgetRefuses(t)
    BY <2>5, <1>a DEF BudgetRefuses
  <2>6. CASE EnterInFlight(t)
    BY <2>6, <1>a, DaemonAssumption DEF EnterInFlight
  <2>. QED BY <1>2, <2>1, <2>2, <2>3, <2>4, <2>5, <2>6 DEF Admission
<1>3. ASSUME NEW t \in Thread, Execution(t) PROVE TypeOK'
  <2>1. CASE Attempt(t)
    BY <2>1, <1>a, DaemonAssumption DEF Attempt, Outcome
  <2>2. CASE RunRaises(t)
    BY <2>2, <1>a, DaemonAssumption DEF RunRaises
  <2>3. CASE RecordOutcome(t)
    <3>1. breaker' \in Breaker
      BY <2>3, BreakerClosed DEF RecordOutcome
    <3>2. breaker'.state \in CircuitState
      BY <3>1 DEF Breaker
    <3>. QED BY <2>3, <1>a, <3>1, <3>2 DEF RecordOutcome, Outcome
  <2>4. CASE PostProcess(t)
    BY <2>4, <1>a DEF PostProcess
  <2>. QED BY <1>3, <2>1, <2>2, <2>3, <2>4 DEF Execution
<1>4. ASSUME NEW t \in Thread, Departure(t) PROVE TypeOK'
  <2>1. CASE LeaveInFlight(t)
    BY <2>1, <1>a, LeaverCounted DEF LeaveInFlight, Counters, Counted
  <2>2. CASE ReleaseSlot(t)
    BY <2>2, <1>a, HolderOutside DEF ReleaseSlot, Counters, HoldingSlot
  <2>3. CASE FinishTrigger(t)
    BY <2>3, <1>a, BreakerClosed DEF FinishTrigger, ReleaseProbe
  <2>. QED BY <1>4, <2>1, <2>2, <2>3 DEF Departure
<1>5. CASE ResetTimeoutElapses
  BY <1>5, BreakerClosed DEF ResetTimeoutElapses
<1>6. CASE ReloadBreaker \/ RestartStopsOld \/ RestartStartsNew
  BY <1>6, InitialBreaker DEF ReloadBreaker, RestartStopsOld, RestartStartsNew
<1>7. CASE StopSignal
  BY <1>7 DEF StopSignal, Running
<1>8. CASE MainStep
  <2>1. CASE Drained \/ GraceElapses \/ (\E t \in Original : StopTrigger(t))
    BY <2>1 DEF Drained, GraceElapses, StopTrigger
  <2>2. CASE Exit
    BY <2>2, <1>a DEF Exit
  <2>. QED BY <1>8, <2>1, <2>2 DEF MainStep
<1>9. CASE UNCHANGED vars
  BY <1>9 DEF vars
<1>. QED
  BY <1>1, <1>2, <1>3, <1>4, <1>5, <1>6, <1>7, <1>8, <1>9 DEF Next, ThreadStep, Terminated

LEMMA InitCounters == Init => Counters
<1>. SUFFICES ASSUME Init PROVE Counters
  OBVIOUS
<1>1. Holders = {} /\ Running = {}
  BY DEF Init, Holders, Running, HoldingSlot, Counted
<1>. QED
  BY <1>1, FS_EmptySet, DaemonAssumption DEF Init, Counters, SlotsConserved, InFlightExact

(* A thread step that moves t between the two places and changes the        *)
(* counters by what the move changes in the sets keeps the counts.          *)
LEMMA MoveCounters ==
  ASSUME TypeOK, Counters, main' = main, NEW t \in Thread,
         NEW from \in Location, NEW to \in Location, Goto(t, from, to),
         permits' = permits + (IF from \in HoldingSlot THEN 1 ELSE 0)
                            - (IF to \in HoldingSlot THEN 1 ELSE 0),
         inFlight' = inFlight - (IF from \in Counted THEN 1 ELSE 0)
                              + (IF to \in Counted THEN 1 ELSE 0)
  PROVE  Counters'
<1>1. Alive /\ pc[t] = from /\ pc' = [pc EXCEPT ![t] = to]
  BY DEF Goto
<1>2. /\ permits + Cardinality(Holders) = MaxConcurrent
      /\ inFlight = Cardinality(Running)
  BY <1>1 DEF Counters, SlotsConserved, InFlightExact
<1>3. /\ t \in Holders <=> from \in HoldingSlot
      /\ t \in Running <=> from \in Counted
  BY <1>1 DEF Holders, Running
<1>4. permits \in Nat /\ MaxConcurrent \in Nat /\ inFlight \in Nat
  BY DaemonAssumption DEF TypeOK
<1>5. permits' + Cardinality(Holders') = MaxConcurrent
  <2>. DEFINE h == Cardinality(Holders)
              h2 == Cardinality(Holders')
  <2>1. h2 = IF to \in HoldingSlot THEN IF t \in Holders THEN h ELSE h + 1
             ELSE IF t \in Holders THEN h - 1 ELSE h
    BY <1>1, MoveCounts
  <2>2. h \in Nat /\ permits + h = MaxConcurrent
    BY <1>2, CountsFinite
  <2>. HIDE DEF h, h2
  <2>3. permits' + h2 = MaxConcurrent
    <3>1. CASE from \in HoldingSlot
      BY <2>1, <2>2, <3>1, <1>3, <1>4
    <3>2. CASE from \notin HoldingSlot
      BY <2>1, <2>2, <3>2, <1>3, <1>4
    <3>. QED BY <3>1, <3>2
  <2>. QED BY <2>3 DEF h2
<1>6. inFlight' = Cardinality(Running')
  <2>. DEFINE r == Cardinality(Running)
              r2 == Cardinality(Running')
  <2>1. r2 = IF to \in Counted THEN IF t \in Running THEN r ELSE r + 1
             ELSE IF t \in Running THEN r - 1 ELSE r
    BY <1>1, MoveCounts
  <2>2. r \in Nat /\ inFlight = r
    BY <1>2, CountsFinite
  <2>. HIDE DEF r, r2
  <2>3. inFlight' = r2
    <3>1. CASE from \in Counted
      BY <2>1, <2>2, <3>1, <1>3
    <3>2. CASE from \notin Counted
      BY <2>1, <2>2, <3>2, <1>3
    <3>. QED BY <3>1, <3>2
  <2>. QED BY <2>3 DEF r2
<1>. QED BY <1>5, <1>6 DEF Counters, SlotsConserved, InFlightExact

(* If no thread moves and no counter changes, the counts stay.              *)
LEMMA StillCounters ==
  ASSUME Counters, UNCHANGED <<pc, permits, inFlight>>, Alive' => Alive
  PROVE  Counters'
  BY DEF Counters, SlotsConserved, InFlightExact, Holders, Running

LEMMA NextCounters == TypeOK /\ Counters /\ [Next]_vars => Counters'
<1>. SUFFICES ASSUME TypeOK, Counters, [Next]_vars PROVE Counters'
  OBVIOUS
<1>. USE DEF counters, resilience, threadState, lifecycle
<1>a. /\ permits \in Nat /\ inFlight \in Nat
      /\ Location = {"idle", "killed", "budget", "enter", "exec", "record", "log", "leave",
                    "free", "slot", "refused", "unclaim"}
  BY DaemonAssumption DEF TypeOK, Location, Busy, HoldingSlot
<1>1. ASSUME NEW t \in Thread, Fire(t) PROVE Counters'
  <2>1. PICK to \in {"slot", "idle"} : Goto(t, "idle", to)
    BY <1>1 DEF Fire
  <2>. QED BY <1>1, <1>a, <2>1, MoveCounters DEF Fire, HoldingSlot, Counted
<1>2. ASSUME NEW t \in Thread, Admission(t) PROVE Counters'
  <2>1. CASE AcquireSlot(t)
    BY <2>1, <1>a, MoveCounters DEF AcquireSlot, HoldingSlot, Counted
  <2>2. CASE SlotRefused(t)
    BY <2>2, <1>a, MoveCounters DEF SlotRefused, HoldingSlot, Counted
  <2>3. CASE SkipTrigger(t)
    BY <2>3, <1>a, MoveCounters DEF SkipTrigger, ReleaseProbe, HoldingSlot, Counted
  <2>4. CASE BudgetAllows(t)
    BY <2>4, <1>a, MoveCounters DEF BudgetAllows, HoldingSlot, Counted
  <2>5. CASE BudgetRefuses(t)
    BY <2>5, <1>a, MoveCounters DEF BudgetRefuses, HoldingSlot, Counted
  <2>6. CASE EnterInFlight(t)
    BY <2>6, <1>a, MoveCounters DEF EnterInFlight, HoldingSlot, Counted
  <2>. QED BY <1>2, <2>1, <2>2, <2>3, <2>4, <2>5, <2>6 DEF Admission
<1>3. ASSUME NEW t \in Thread, Execution(t) PROVE Counters'
  <2>1. CASE Attempt(t)
    <3>1. PICK to \in {"exec", "leave", "record"} : Goto(t, "exec", to)
      BY <2>1 DEF Attempt
    <3>. QED BY <2>1, <1>a, <3>1, MoveCounters DEF Attempt, HoldingSlot, Counted
  <2>2. CASE RunRaises(t)
    BY <2>2, <1>a, MoveCounters DEF RunRaises, HoldingSlot, Counted
  <2>3. CASE RecordOutcome(t)
    BY <2>3, <1>a, MoveCounters DEF RecordOutcome, HoldingSlot, Counted
  <2>4. CASE PostProcess(t)
    BY <2>4, <1>a, MoveCounters DEF PostProcess, HoldingSlot, Counted
  <2>. QED BY <1>3, <2>1, <2>2, <2>3, <2>4 DEF Execution
<1>4. ASSUME NEW t \in Thread, Departure(t) PROVE Counters'
  <2>1. CASE LeaveInFlight(t)
    BY <2>1, <1>a, MoveCounters DEF LeaveInFlight, HoldingSlot, Counted
  <2>2. CASE ReleaseSlot(t)
    BY <2>2, <1>a, MoveCounters DEF ReleaseSlot, HoldingSlot, Counted
  <2>3. CASE FinishTrigger(t)
    BY <2>3, <1>a, MoveCounters DEF FinishTrigger, ReleaseProbe, HoldingSlot, Counted
  <2>. QED BY <1>4, <2>1, <2>2, <2>3 DEF Departure
<1>5. CASE ResetTimeoutElapses
  BY <1>5, StillCounters DEF ResetTimeoutElapses, Alive
<1>6. CASE ReloadBreaker \/ RestartStopsOld \/ RestartStartsNew
  BY <1>6, StillCounters DEF ReloadBreaker, RestartStopsOld, RestartStartsNew, Alive
<1>7. CASE StopSignal
  BY <1>7, StillCounters DEF StopSignal, Alive
<1>8. CASE MainStep
  <2>1. CASE Drained \/ GraceElapses \/ (\E t \in Original : StopTrigger(t))
    BY <2>1, StillCounters DEF Drained, GraceElapses, StopTrigger, Alive
  <2>2. CASE Exit
    BY <2>2 DEF Exit, Alive, Counters, SlotsConserved, InFlightExact
  <2>. QED BY <1>8, <2>1, <2>2 DEF MainStep
<1>9. CASE UNCHANGED vars
  BY <1>9, StillCounters DEF vars, Alive
<1>. QED
  BY <1>1, <1>2, <1>3, <1>4, <1>5, <1>6, <1>7, <1>8, <1>9 DEF Next, ThreadStep, Terminated

(***************************************************************************)
(* The counters.                                                           *)
(***************************************************************************)

(* Every value stays in its range, whatever the interleaving: in particular *)
(* the semaphore never exceeds _MAX_CONCURRENT and the in-flight count never*)
(* goes below zero.                                                         *)
THEOREM TypeCorrect == Spec => []TypeOK
<1>1. Init => TypeOK /\ Counters
  BY InitType, InitCounters
<1>2. TypeOK /\ Counters /\ [Next]_vars => (TypeOK /\ Counters)'
  BY NextType, NextCounters
<1>. QED BY <1>1, <1>2, PTL DEF Spec

(* No path of _on_trigger leaks a slot of the semaphore or frees one it     *)
(* does not hold, and the counter the drain waits on counts the runs.       *)
THEOREM CountersAreExact == Spec => []Counters
<1>1. TypeOK /\ Counters /\ [Next]_vars => Counters'
  BY NextCounters
<1>. QED BY <1>1, InitCounters, TypeCorrect, PTL DEF Spec

(***************************************************************************)
(* The breaker.                                                            *)
(***************************************************************************)

(* Recording an outcome leaves a claimed probe claimed in one case only: the *)
(* outcome has no category, so nothing is recorded.                          *)
LEMMA RecordKeepsProbe ==
  ASSUME NEW b \in Breaker, NEW o \in Outcome \ {"paused"},
         AfterRecord(b, o).state = "half_open", AfterRecord(b, o).probe
  PROVE  b.state = "half_open" /\ b.probe /\ o = "unclassified"
<1>1. CASE b.state = "absent" \/ o = "unclassified"
  BY <1>1 DEF AfterRecord
<1>2. CASE b.state # "absent" /\ o = "ok"
  <2>1. AfterSuccess(b).state # "half_open"
    BY DEF AfterSuccess, Transition, Breaker
  <2>. QED BY <1>2, <2>1 DEF AfterRecord
<1>3. CASE b.state # "absent" /\ o \in ProviderFailures
  <2>1. AfterProviderFailure(b).state # "half_open"
    BY DEF AfterProviderFailure, Transition, Breaker
  <2>. QED BY <1>3, <2>1 DEF AfterRecord, AfterFailure, ProviderFailures
<1>4. CASE b.state # "absent" /\ o = "app"
  <2>1. AfterRecord(b, o) = AfterRelease(b)
    BY <1>4 DEF AfterRecord, AfterFailure, ProviderFailures
  <2>. QED BY <2>1 DEF AfterRelease, Breaker
<1>. QED BY <1>1, <1>2, <1>3, <1>4 DEF Outcome, ProviderFailures

(* A request is turned down at a claimed probe only if it was claimed before.*)
LEMMA AllowClaims ==
  ASSUME NEW b \in Breaker, AfterAllow(b).state = "half_open", ~Allows(b)
  PROVE  b.state = "half_open" /\ b.probe
  BY DEF AfterAllow, Allows, AfterTimeoutCheck, Breaker

(* A thread that moves on inside the handler still holds what it held.       *)
LEMMA ProbeMoves ==
  ASSUME TypeOK, ProbeSlotHeld, NEW t \in Thread, NEW from \in Location, NEW to \in Busy,
         Goto(t, from, to), UNCHANGED <<breaker, probes>>
  PROVE  ProbeSlotHeld'
<1>. SUFFICES ASSUME breaker.state = "half_open", breaker.probe
              PROVE  \E u \in probes' : pc'[u] \in Busy
  BY DEF ProbeSlotHeld
<1>1. PICK u \in probes : pc[u] \in Busy
  BY DEF ProbeSlotHeld, Goto
<1>2. pc'[u] \in Busy
  BY <1>1 DEF Goto, TypeOK
<1>. QED BY <1>1, <1>2

LEMMA ProbeStill ==
  ASSUME ProbeSlotHeld, UNCHANGED <<breaker, probes, pc>>, Alive' => Alive
  PROVE  ProbeSlotHeld'
  BY DEF ProbeSlotHeld

LEMMA ProbeReleased ==
  ASSUME TypeOK, NEW t \in Thread, NEW from, ReleaseProbe(t, from)
  PROVE  ProbeSlotHeld'
<1>1. ~(breaker'.state = "half_open" /\ breaker'.probe)
  BY DEF ReleaseProbe, AfterRelease, TypeOK, Breaker
<1>. QED BY <1>1 DEF ProbeSlotHeld

LEMMA NextProbe == TypeOK /\ ProbeSlotHeld /\ [Next]_vars => ProbeSlotHeld'
<1>. SUFFICES ASSUME TypeOK, ProbeSlotHeld, [Next]_vars PROVE ProbeSlotHeld'
  OBVIOUS
<1>. USE DEF counters, resilience, threadState, lifecycle
<1>a. /\ Busy = {"budget", "enter", "exec", "record", "log", "leave", "free",
                 "slot", "refused", "unclaim"}
      /\ Busy \subseteq Location
      /\ "idle" \notin Busy
  BY DEF Busy, HoldingSlot, Location
<1>b. breaker \in Breaker /\ pc \in [Thread -> Location]
  BY DEF TypeOK
<1>1. ASSUME NEW t \in Thread, Fire(t) PROVE ProbeSlotHeld'
  <2>. SUFFICES ASSUME breaker'.state = "half_open", breaker'.probe
                PROVE  \E u \in probes' : pc'[u] \in Busy
    BY DEF ProbeSlotHeld
  <2>1. CASE Allows(breaker)
    <3>1. t \in probes' /\ pc'[t] = "slot"
      BY <1>1, <1>b, <2>1 DEF Fire, Goto
    <3>. QED BY <3>1, <1>a
  <2>2. CASE ~Allows(breaker)
    <3>1. breaker.state = "half_open" /\ breaker.probe
      BY <1>1, <1>b, <2>2, AllowClaims DEF Fire
    <3>2. PICK u \in probes : pc[u] \in Busy
      BY <1>1, <3>1 DEF ProbeSlotHeld, Fire, Goto
    <3>3. probes' = probes /\ pc' = pc
      BY <1>1, <1>b, <2>2 DEF Fire, Goto
    <3>. QED BY <3>2, <3>3
  <2>. QED BY <2>1, <2>2
<1>2. ASSUME NEW t \in Thread, Admission(t) PROVE ProbeSlotHeld'
  <2>1. CASE AcquireSlot(t)
    BY <2>1, <1>a, ProbeMoves DEF AcquireSlot
  <2>2. CASE SlotRefused(t)
    BY <2>2, <1>a, ProbeMoves DEF SlotRefused
  <2>3. CASE SkipTrigger(t)
    BY <2>3, ProbeReleased DEF SkipTrigger
  <2>4. CASE BudgetAllows(t)
    BY <2>4, <1>a, ProbeMoves DEF BudgetAllows
  <2>5. CASE BudgetRefuses(t)
    BY <2>5, <1>a, ProbeMoves DEF BudgetRefuses
  <2>6. CASE EnterInFlight(t)
    BY <2>6, <1>a, ProbeMoves DEF EnterInFlight
  <2>. QED BY <1>2, <2>1, <2>2, <2>3, <2>4, <2>5, <2>6 DEF Admission
<1>3. ASSUME NEW t \in Thread, Execution(t) PROVE ProbeSlotHeld'
  <2>1. CASE Attempt(t)
    <3>1. PICK to \in {"exec", "leave", "record"} : Goto(t, "exec", to)
      BY <2>1 DEF Attempt
    <3>. QED BY <2>1, <3>1, <1>a, ProbeMoves DEF Attempt
  <2>2. CASE RunRaises(t)
    BY <2>2, <1>a, ProbeMoves DEF RunRaises
  <2>3. CASE RecordOutcome(t)
    <3>. SUFFICES ASSUME breaker'.state = "half_open", breaker'.probe
                  PROVE  \E u \in probes' : pc'[u] \in Busy
      BY DEF ProbeSlotHeld
    <3>1. outcome[t] \in Outcome \ {"paused"}
      BY DEF TypeOK
    <3>2. breaker.state = "half_open" /\ breaker.probe /\ outcome[t] = "unclassified"
      BY <2>3, <1>b, <3>1, RecordKeepsProbe DEF RecordOutcome
    <3>3. PICK u \in probes : pc[u] \in Busy
      BY <2>3, <3>2 DEF ProbeSlotHeld, RecordOutcome, Goto
    <3>4. probes' = probes /\ pc' = [pc EXCEPT ![t] = "log"]
      BY <2>3, <3>2 DEF RecordOutcome, Goto
    <3>5. pc'[u] \in Busy
      BY <3>3, <3>4, <1>a, <1>b
    <3>. QED BY <3>3, <3>4, <3>5
  <2>4. CASE PostProcess(t)
    BY <2>4, <1>a, ProbeMoves DEF PostProcess
  <2>. QED BY <1>3, <2>1, <2>2, <2>3, <2>4 DEF Execution
<1>4. ASSUME NEW t \in Thread, Departure(t) PROVE ProbeSlotHeld'
  <2>1. CASE LeaveInFlight(t)
    BY <2>1, <1>a, ProbeMoves DEF LeaveInFlight
  <2>2. CASE ReleaseSlot(t)
    BY <2>2, <1>a, ProbeMoves DEF ReleaseSlot
  <2>3. CASE FinishTrigger(t)
    BY <2>3, ProbeReleased DEF FinishTrigger
  <2>. QED BY <1>4, <2>1, <2>2, <2>3 DEF Departure
<1>5. CASE ResetTimeoutElapses
  BY <1>5, <1>b DEF ResetTimeoutElapses, AfterResetTimeout, ProbeSlotHeld, Breaker
<1>6. CASE ReloadBreaker
  BY <1>6 DEF ReloadBreaker, NewBreaker, NoBreaker, ProbeSlotHeld
<1>7. CASE RestartStopsOld \/ RestartStartsNew \/ StopSignal
  BY <1>7, ProbeStill DEF RestartStopsOld, RestartStartsNew, StopSignal, Alive
<1>8. CASE MainStep
  <2>1. CASE Drained \/ GraceElapses \/ (\E t \in Original : StopTrigger(t))
    BY <2>1, ProbeStill DEF Drained, GraceElapses, StopTrigger, Alive
  <2>2. CASE Exit
    BY <2>2 DEF Exit, Alive, ProbeSlotHeld
  <2>. QED BY <1>8, <2>1, <2>2 DEF MainStep
<1>9. CASE UNCHANGED vars
  BY <1>9, ProbeStill DEF vars, Alive
<1>. QED
  BY <1>1, <1>2, <1>3, <1>4, <1>5, <1>6, <1>7, <1>8, <1>9 DEF Next, ThreadStep, Terminated

(* A claimed HALF_OPEN slot always has a thread that is still to give it     *)
(* back, whichever way triggers are dropped, refused, paused or fail.        *)
THEOREM ProbeSlotIsHeld == Spec => []ProbeSlotHeld
<1>1. Init => ProbeSlotHeld
  BY DEF Init, NewBreaker, NoBreaker, ProbeSlotHeld
<1>. QED BY <1>1, NextProbe, TypeCorrect, PTL DEF Spec

Below(b) == b.state = "closed" => b.failures < Threshold

(* No call of the breaker leaves it closed with its threshold reached.       *)
LEMMA CallsStayBelow ==
  ASSUME NEW b \in Breaker, Below(b)
  PROVE  /\ Below(AfterAllow(b))
         /\ Below(AfterRelease(b))
         /\ Below(AfterResetTimeout(b))
         /\ \A o \in Outcome : Below(AfterRecord(b, o))
<1>. USE BreakerAssumption DEF Below, Breaker
<1>1. Below(AfterAllow(b))
  BY DEF AfterAllow, AfterTimeoutCheck
<1>2. Below(AfterRelease(b))
  BY DEF AfterRelease
<1>3. Below(AfterResetTimeout(b))
  BY DEF AfterResetTimeout
<1>4. Below(AfterSuccess(b))
  BY DEF AfterSuccess, Transition
<1>5. Below(AfterProviderFailure(b))
  BY DEF AfterProviderFailure, Transition
<1>6. ASSUME NEW o \in Outcome PROVE Below(AfterRecord(b, o))
  <2>1. Below(AfterFailure(b, o))
    BY <1>2, <1>5 DEF AfterFailure
  <2>. QED BY <1>4, <2>1 DEF AfterRecord
<1>. QED BY <1>1, <1>2, <1>3, <1>4, <1>5, <1>6

LEMMA NextBelow == TypeOK /\ Below(breaker) /\ [Next]_vars => Below(breaker')
<1>. SUFFICES ASSUME TypeOK, Below(breaker), [Next]_vars PROVE Below(breaker')
  OBVIOUS
<1>. USE DEF counters, resilience, threadState, lifecycle
<1>a. breaker \in Breaker /\ \A t \in Thread : outcome[t] \in Outcome
  BY DEF TypeOK
<1>b. Below(NewBreaker) /\ Below(NoBreaker)
  BY BreakerAssumption DEF Below, NewBreaker, NoBreaker
<1>1. ASSUME NEW t \in Thread, Fire(t) PROVE Below(breaker')
  BY <1>1, <1>a, CallsStayBelow DEF Fire
<1>2. ASSUME NEW t \in Thread, ThreadStep(t) PROVE Below(breaker')
  <2>1. CASE SkipTrigger(t) \/ FinishTrigger(t)
    BY <2>1, <1>a, CallsStayBelow DEF SkipTrigger, FinishTrigger, ReleaseProbe
  <2>2. CASE RecordOutcome(t)
    BY <2>2, <1>a, CallsStayBelow DEF RecordOutcome
  <2>3. CASE \/ AcquireSlot(t) \/ SlotRefused(t) \/ BudgetAllows(t) \/ BudgetRefuses(t)
             \/ EnterInFlight(t) \/ Attempt(t) \/ RunRaises(t) \/ PostProcess(t)
             \/ LeaveInFlight(t) \/ ReleaseSlot(t)
    BY <2>3 DEF AcquireSlot, SlotRefused, BudgetAllows, BudgetRefuses, EnterInFlight, Attempt,
                RunRaises, PostProcess, LeaveInFlight, ReleaseSlot
  <2>. QED BY <1>2, <2>1, <2>2, <2>3 DEF ThreadStep, Admission, Execution, Departure
<1>3. CASE ResetTimeoutElapses
  BY <1>3, <1>a, CallsStayBelow DEF ResetTimeoutElapses
<1>4. CASE ReloadBreaker
  BY <1>4, <1>b DEF ReloadBreaker
<1>5. CASE RestartStopsOld \/ RestartStartsNew \/ StopSignal \/ MainStep \/ UNCHANGED vars
  BY <1>5 DEF RestartStopsOld, RestartStartsNew, StopSignal, MainStep, Drained, GraceElapses,
              StopTrigger, Exit, vars
<1>. QED BY <1>1, <1>2, <1>3, <1>4, <1>5 DEF Next, Terminated

(* Late results of earlier admissions reach the breaker in any order; a      *)
(* closed circuit is still always below its failure threshold.               *)
THEOREM ClosedIsBelowThreshold == Spec => []ClosedBelowThreshold
<1>1. Init => ClosedBelowThreshold
  BY BreakerAssumption DEF Init, NewBreaker, NoBreaker, ClosedBelowThreshold
<1>2. TypeOK /\ ClosedBelowThreshold /\ [Next]_vars => ClosedBelowThreshold'
  BY NextBelow DEF Below, ClosedBelowThreshold
<1>. QED BY <1>1, <1>2, TypeCorrect, PTL DEF Spec

(***************************************************************************)
(* The drain.                                                              *)
(***************************************************************************)

(* What makes DrainCoversSignal inductive: a run that was in flight at the   *)
(* signal is still counted until it leaves, so the drain ends without the    *)
(* deadline only when none of them is left.                                  *)
DrainInv ==
  /\ Alive => atStop \subseteq Running
  /\ main \in {"stopping", "exited"} => atStop = {}

LEMMA DrainStill ==
  ASSUME DrainInv, UNCHANGED <<main, atStop>>, Alive => Running \subseteq Running'
  PROVE  DrainInv'
  BY DEF DrainInv, Alive

(* A thread that moves, other than out of the counted region, keeps it.      *)
LEMMA DrainMoves ==
  ASSUME TypeOK, DrainInv, NEW t \in Thread, NEW from \in Location, NEW to \in Location,
         from \in Counted => to \in Counted,
         Goto(t, from, to), UNCHANGED <<main, atStop>>
  PROVE  DrainInv'
<1>1. Running \subseteq Running'
  BY DEF Running, Goto, TypeOK
<1>. QED BY <1>1, DrainStill

LEMMA NextDrain == TypeOK /\ Counters /\ DrainInv /\ [Next]_vars => DrainInv'
<1>. SUFFICES ASSUME TypeOK, Counters, DrainInv, [Next]_vars PROVE DrainInv'
  OBVIOUS
<1>. USE DEF counters, resilience, threadState, lifecycle
<1>a. Location = {"idle", "killed", "budget", "enter", "exec", "record", "log", "leave",
                  "free", "slot", "refused", "unclaim"}
  BY DEF Location, Busy, HoldingSlot
<1>1. ASSUME NEW t \in Thread, Fire(t) PROVE DrainInv'
  <2>1. PICK to \in {"slot", "idle"} : Goto(t, "idle", to)
    BY <1>1 DEF Fire
  <2>. QED BY <1>1, <1>a, <2>1, DrainMoves DEF Fire, Counted
<1>2. ASSUME NEW t \in Thread, ThreadStep(t), ~LeaveInFlight(t) PROVE DrainInv'
  <2>1. UNCHANGED <<main, atStop>>
    BY <1>2 DEF ThreadStep, Admission, Execution, Departure, AcquireSlot, SlotRefused,
                SkipTrigger, BudgetAllows, BudgetRefuses, EnterInFlight, Attempt, RunRaises,
                RecordOutcome, PostProcess, ReleaseSlot, FinishTrigger, ReleaseProbe
  <2>2. PICK from \in Location, to \in Location :
          Goto(t, from, to) /\ (from \in Counted => to \in Counted)
    <3>1. CASE Admission(t)
      BY <3>1, <1>a DEF Admission, AcquireSlot, SlotRefused, SkipTrigger, BudgetAllows,
                        BudgetRefuses, EnterInFlight, ReleaseProbe, Counted
    <3>2. CASE Execution(t)
      <4>1. CASE Attempt(t)
        BY <4>1, <1>a DEF Attempt, Counted
      <4>2. CASE RunRaises(t) \/ RecordOutcome(t) \/ PostProcess(t)
        BY <4>2, <1>a DEF RunRaises, RecordOutcome, PostProcess, Counted
      <4>. QED BY <3>2, <4>1, <4>2 DEF Execution
    <3>3. CASE ReleaseSlot(t) \/ FinishTrigger(t)
      BY <3>3, <1>a DEF ReleaseSlot, FinishTrigger, ReleaseProbe, Counted
    <3>. QED BY <1>2, <3>1, <3>2, <3>3 DEF ThreadStep, Departure
  <2>. QED BY <2>1, <2>2, DrainMoves
<1>3. ASSUME NEW t \in Thread, LeaveInFlight(t) PROVE DrainInv'
  <2>1. Running' = Running \ {t}
    BY <1>3, <1>a DEF LeaveInFlight, Goto, Running, Counted, TypeOK
  <2>. QED BY <1>3, <2>1 DEF LeaveInFlight, DrainInv, Alive
<1>4. CASE ResetTimeoutElapses \/ ReloadBreaker \/ RestartStopsOld \/ RestartStartsNew
  <2>1. Running' = Running
    BY <1>4 DEF ResetTimeoutElapses, ReloadBreaker, RestartStopsOld, RestartStartsNew, Running
  <2>. QED
    BY <1>4, <2>1, DrainStill
       DEF ResetTimeoutElapses, ReloadBreaker, RestartStopsOld, RestartStartsNew
<1>5. CASE StopSignal
  BY <1>5 DEF StopSignal, DrainInv, Running
<1>6. CASE Drained
  <2>1. Running = {}
    BY <1>6, CountsFinite, FS_EmptySet DEF Drained, Alive, Counters, InFlightExact
  <2>2. atStop' = {}
    BY <1>6, <2>1 DEF Drained, DrainInv, Alive
  <2>. QED BY <2>2 DEF DrainInv
<1>7. CASE GraceElapses
  BY <1>7 DEF GraceElapses, DrainInv, Running, Alive
<1>8. CASE (\E t \in Original : StopTrigger(t)) \/ UNCHANGED vars
  <2>1. Running' = Running
    BY <1>8 DEF StopTrigger, vars, Running
  <2>. QED BY <1>8, <2>1, DrainStill DEF StopTrigger, vars
<1>9. CASE Exit
  BY <1>9 DEF Exit, DrainInv, Alive
<1>. QED
  BY <1>1, <1>2, <1>3, <1>4, <1>5, <1>6, <1>7, <1>8, <1>9 DEF Next, MainStep, Terminated

(* A run in flight at the stop signal is cut off only when the grace period  *)
(* was used up, however many triggers fire while the main thread drains.     *)
THEOREM DrainCoversTheSignal == Spec => []DrainCoversSignal
<1>1. Init => DrainInv
  BY DEF Init, DrainInv
<1>2. DrainInv => DrainCoversSignal
  BY DEF DrainInv, DrainCoversSignal
<1>. QED BY <1>1, <1>2, NextDrain, TypeCorrect, CountersAreExact, PTL DEF Spec
=============================================================================
