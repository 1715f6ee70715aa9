-------------------------- MODULE SchedulingProofs --------------------------
(***************************************************************************)
(* Proofs about Scheduling, for any threads, follow-ups, limits and number *)
(* of reloads.                                                             *)
(***************************************************************************)
EXTENDS Scheduling, FiniteSetTheorems, TLAPS

USE DEF Thread, Queue

(***************************************************************************)
(* Type correctness.                                                       *)
(***************************************************************************)

LEMMA Destinations == \A a \in Thread : After(a) \in {"idle", "ended"}
BY DEF After

(* A call that is under way, or has been made, has a toolset.              *)
Vias == \A t \in Task : call[t] # "none" => via[t] \in Queue

LEMMA ViasStep ==
  ASSUME TypeOK, Vias, [Next]_vars
  PROVE  Vias'
<1>. USE DEF TypeOK, Vias, Advances
<1>1. ASSUME NEW a \in Thread, NEW t \in Task, PassLimit(a, t) PROVE Vias'
  BY <1>1 DEF PassLimit
<1>2. ASSUME NEW t \in Task, Call(t) PROVE Vias'
  BY <1>2 DEF Call, Schedule, TurnedAway, ReadCount, WriteCount
<1>3. ASSUME NEW a \in Thread, Trip(a) \/ Admit(a) \/ Refuse(a) \/ Finish(a) PROVE Vias'
  BY <1>3 DEF Trip, Admit, Refuse, Finish, calls
<1>4. ASSUME NEW t \in Task, Fire(t) PROVE Vias'
  BY <1>4 DEF Fire, calls
<1>5. CASE NewQueue \/ NewTools \/ Signal \/ Exit \/ UNCHANGED vars
  BY <1>5 DEF NewQueue, NewTools, Signal, Exit, vars, calls
<1>. QED BY <1>1, <1>2, <1>3, <1>4, <1>5 DEF Next, Run

(* Every variable keeps its type.                                          *)
THEOREM SchedulingTypeCorrect == Spec => []TypeOK
<1>1. Init => TypeOK /\ Vias
  BY SchedulingAssumption DEF Init, TypeOK, Vias
<1>2. TypeOK /\ Vias /\ [Next]_vars => TypeOK'
  <2>. SUFFICES ASSUME TypeOK, Vias, [Next]_vars PROVE TypeOK'
    OBVIOUS
  <2>. USE DEF TypeOK, Goes, Advances, calls, daemon
  <2>1. ASSUME NEW a \in Thread, Trip(a) PROVE TypeOK'
    BY <2>1 DEF Trip
  <2>2. ASSUME NEW a \in Thread, Admit(a) PROVE TypeOK'
    BY <2>2 DEF Admit
  <2>3. ASSUME NEW a \in Thread, Refuse(a) PROVE TypeOK'
    BY <2>3, Destinations DEF Refuse
  <2>4. ASSUME NEW a \in Thread, Finish(a) PROVE TypeOK'
    BY <2>4, Destinations DEF Finish, history
  <2>5. ASSUME NEW a \in Thread, NEW t \in Task, PassLimit(a, t) PROVE TypeOK'
    BY <2>5 DEF PassLimit, history
  <2>6. ASSUME NEW t \in Task, Schedule(t) PROVE TypeOK'
    <3>1. pending' \in [Queue -> SUBSET Task]
      BY <2>6 DEF Schedule
    <3>2. own' \in [Thread -> SUBSET Task]
      BY <2>6 DEF Schedule
    <3>3. missed' \subseteq Task
      BY <2>6 DEF Schedule
    <3>. QED BY <2>6, <3>1, <3>2, <3>3 DEF Schedule, threads
  <2>7. ASSUME NEW t \in Task, TurnedAway(t) PROVE TypeOK'
    BY <2>7 DEF TurnedAway, Returns, history
  <2>8. ASSUME NEW t \in Task, ReadCount(t) PROVE TypeOK'
    <3>1. read' \in [Task -> Nat]
      BY <2>8 DEF ReadCount, Vias
    <3>. QED BY <2>8, <3>1 DEF ReadCount, threads, history
  <2>9. ASSUME NEW t \in Task, WriteCount(t) PROVE TypeOK'
    <3>1. count' \in [Queue -> Nat] /\ read' \in [Task -> Nat]
      BY <2>9 DEF WriteCount, Vias
    <3>. QED BY <2>9, <3>1 DEF WriteCount, Returns, history
  <2>10. ASSUME NEW t \in Task, Fire(t) PROVE TypeOK'
    BY <2>10 DEF Fire, Due, history
  <2>11. CASE NewQueue \/ NewTools \/ Exit
    <3>1. CASE NewQueue
      BY <3>1, SchedulingAssumption DEF NewQueue, Left, threads, history
    <3>2. CASE NewTools
      BY <3>2 DEF NewTools, threads, history
    <3>3. CASE Exit
      BY <3>3 DEF Exit, threads, history
    <3>. QED BY <2>11, <3>1, <3>2, <3>3
  <2>12. CASE Signal
    <3>1. pending' \in [Queue -> SUBSET Task] /\ cancelled' \subseteq Task
      BY <2>12 DEF Signal, CancelAll
    <3>2. missed' \subseteq Task
      BY <2>12 DEF Signal
    <3>. QED BY <2>12, <3>1, <3>2 DEF Signal, threads
  <2>14. CASE UNCHANGED vars
    BY <2>14 DEF vars, threads, history
  <2>. QED BY <2>1, <2>2, <2>3, <2>4, <2>5, <2>6, <2>7, <2>8, <2>9, <2>10, <2>11, <2>12, <2>14
           DEF Next, Run, Call
<1>3. TypeOK /\ Vias /\ [Next]_vars => Vias'
  BY ViasStep
<1>. QED BY <1>1, <1>2, <1>3, PTL DEF Spec

(***************************************************************************)
(* What becomes of a follow-up.                                            *)
(***************************************************************************)

(* Where a follow-up is, by what its thread does: in its queue or          *)
(* cancelled before it has fired, then on its way, run or refused.         *)
Fate(t) ==
  /\ \A q \in Queue : t \in pending[q] => Made(t) /\ via[t] = q /\ thread[t] = "idle" /\ t \notin cancelled
  /\ thread[t] = "idle" => runs[t] = 0 /\ t \notin dropped
  /\ thread[t] = "idle" /\ Made(t) => t \in pending[via[t]] \/ t \in cancelled
  /\ ~Made(t) => thread[t] = "idle" /\ t \notin cancelled
  /\ t \in cancelled => thread[t] = "idle"
  /\ thread[t] = "entering" => runs[t] = 0 /\ t \notin dropped
  /\ thread[t] = "running" => runs[t] = 1 /\ t \notin dropped
  /\ thread[t] = "ended" => (runs[t] = 1 /\ t \notin dropped) \/ (runs[t] = 0 /\ t \in dropped)

Fates == \A t \in Task : Fate(t)

LEMMA Same ==
  ASSUME Fates, UNCHANGED <<pending, thread, via, runs, cancelled, dropped>>, \A t \in Task : Made(t)' <=> Made(t)
  PROVE  Fates'
BY DEF Fates, Fate

LEMMA FatesStep ==
  ASSUME TypeOK, Vias, Fates, [Next]_vars
  PROVE  Fates'
<1>. USE DEF TypeOK, Fates, Fate, Made, Goes, Advances
<1>1. ASSUME NEW a \in Thread, Trip(a) PROVE Fates'
  BY <1>1, SchedulingAssumption DEF Trip, calls
<1>2. ASSUME NEW a \in Thread, Admit(a) PROVE Fates'
  BY <1>2 DEF Admit, calls
<1>3. ASSUME NEW a \in Thread, Refuse(a) PROVE Fates'
  BY <1>3 DEF Refuse, After, calls
<1>4. ASSUME NEW a \in Thread, Finish(a) PROVE Fates'
  BY <1>4 DEF Finish, After, calls, history
<1>5. ASSUME NEW a \in Thread, NEW t \in Task, PassLimit(a, t) PROVE Fates'
  BY <1>5 DEF PassLimit, history
<1>6. ASSUME NEW t \in Task, Schedule(t) PROVE Fates'
  BY <1>6 DEF Schedule, Vias, threads
<1>7. ASSUME NEW t \in Task, TurnedAway(t) PROVE Fates'
  BY <1>7 DEF TurnedAway, history
<1>8. ASSUME NEW t \in Task, ReadCount(t) \/ WriteCount(t) PROVE Fates'
  <2>1. UNCHANGED <<pending, thread, via, runs, cancelled, dropped>> /\ \A u \in Task : Made(u)' <=> Made(u)
    BY <1>8 DEF ReadCount, WriteCount, threads, history
  <2>. QED BY <2>1, Same
<1>9. ASSUME NEW t \in Task, Fire(t) PROVE Fates'
  BY <1>9 DEF Fire, Due, Vias, calls, history
<1>10. CASE NewQueue \/ NewTools \/ Exit
  <2>1. UNCHANGED <<pending, thread, call, via, runs, cancelled, dropped>>
    BY <1>10 DEF NewQueue, NewTools, Exit, Left, threads, calls, history
  <2>. QED BY <2>1, Same
<1>12. CASE Signal
  <2>1. CASE queue = 0
    BY <1>12, <2>1 DEF Signal, CancelAll, threads, calls
  <2>2. CASE queue # 0
    <3>1. /\ pending' = [pending EXCEPT ![queue] = {}] /\ cancelled' = cancelled \cup pending[queue]
          /\ UNCHANGED <<thread, call, via, runs, dropped>> /\ queue \in Queue
      BY <1>12, <2>2 DEF Signal, CancelAll, threads, calls
    <3>. SUFFICES ASSUME NEW t \in Task PROVE Fate(t)'
      BY DEF Fates
    <3>2. t \in pending[queue] => Made(t) /\ via[t] = queue /\ thread[t] = "idle"
      BY <3>1
    <3>. QED BY <3>1, <3>2
  <2>. QED BY <2>1, <2>2
<1>14. CASE UNCHANGED vars
  BY <1>14 DEF vars, threads, calls, history
<1>. QED BY <1>1, <1>2, <1>3, <1>4, <1>5, <1>6, <1>7, <1>8, <1>9, <1>10, <1>12, <1>14 DEF Next, Run, Call

(* A follow-up that was scheduled is in one place, and in one only.        *)
THEOREM FollowUpsAreAccounted == Spec => []FollowUpAccounted
<1>1. Init => TypeOK /\ Vias /\ Fates
  BY SchedulingAssumption DEF Init, TypeOK, Vias, Fates, Fate, Made
<1>2. TypeOK /\ Vias /\ Fates /\ [Next]_vars => Vias' /\ Fates'
  BY FatesStep, ViasStep
<1>3. TypeOK /\ Vias /\ Fates => FollowUpAccounted
  <2>. SUFFICES ASSUME TypeOK, Vias, Fates, NEW t \in Task
                PROVE  LET waiting == IF t \in Pending THEN 1 ELSE 0
                           gone == IF t \in cancelled THEN 1 ELSE 0
                           coming == IF thread[t] = "entering" THEN 1 ELSE 0
                           refused == IF t \in dropped THEN 1 ELSE 0
                       IN  waiting + gone + coming + refused + runs[t] = IF Made(t) THEN 1 ELSE 0
    BY DEF FollowUpAccounted
  <2>1. t \in Pending <=> Made(t) /\ t \in pending[via[t]]
    <3>1. Made(t) => via[t] \in Queue
      BY DEF Made, Vias
    <3>2. \A q \in Queue : t \in pending[q] => Made(t) /\ via[t] = q
      BY DEF Fates, Fate
    <3>. QED BY <3>1, <3>2 DEF Pending
  <2>2. thread[t] \in {"idle", "entering", "running", "ended"} /\ Fate(t)
    BY DEF TypeOK, Fates
  <2>3. Made(t) => via[t] \in Queue
    BY DEF Made, Vias
  <2>4. t \in Pending => thread[t] = "idle" /\ t \notin cancelled
    BY <2>1, <2>2, <2>3 DEF Fate
  <2>. QED BY <2>1, <2>2, <2>4 DEF Fate, TypeOK
<1>. QED BY <1>1, <1>2, <1>3, SchedulingTypeCorrect, PTL DEF Spec

(* After the signal only follow-ups it could not see are armed.            *)
THEOREM NothingIsLeftArmed == Spec => []NothingLeftArmed
<1>1. Init => NothingLeftArmed
  BY DEF Init, NothingLeftArmed
<1>2. TypeOK /\ NothingLeftArmed /\ [Next]_vars => NothingLeftArmed'
  <2>. SUFFICES ASSUME TypeOK, NothingLeftArmed, [Next]_vars, phase' = "draining" PROVE Pending' \subseteq missed'
    BY DEF NothingLeftArmed
  <2>. USE DEF TypeOK, NothingLeftArmed, Pending
  <2>1. ASSUME NEW a \in Thread, Run(a) PROVE UNCHANGED <<phase, pending, missed>>
    BY <2>1 DEF Run, Trip, Admit, Refuse, Finish, PassLimit, daemon, history
  <2>2. ASSUME NEW t \in Task, TurnedAway(t) \/ ReadCount(t) \/ WriteCount(t) PROVE UNCHANGED <<phase, pending, missed>>
    BY <2>2 DEF TurnedAway, ReadCount, WriteCount, daemon, history
  <2>3. ASSUME NEW t \in Task, Schedule(t) PROVE Pending' \subseteq missed'
    BY <2>3 DEF Schedule, daemon
  <2>4. ASSUME NEW t \in Task, Fire(t) PROVE Pending' \subseteq missed'
    BY <2>4 DEF Fire, daemon, history
  <2>5. CASE NewQueue \/ NewTools
    <3>1. UNCHANGED <<phase, pending, missed>>
      BY <2>5 DEF NewQueue, NewTools, Left, history
    <3>. QED BY <3>1
  <2>6. CASE Signal
    <3>1. \A q \in Queue \ {queue} : pending'[q] = pending[q]
      BY <2>6 DEF Signal, CancelAll
    <3>2. queue # 0 => pending'[queue] = {}
      BY <2>6 DEF Signal, CancelAll
    <3>3. missed' = missed \cup UNION {pending[q] : q \in Queue \ {queue}}
      BY <2>6 DEF Signal
    <3>. QED BY <3>1, <3>2, <3>3
  <2>7. CASE Exit
    BY <2>7 DEF Exit
  <2>8. CASE UNCHANGED vars
    BY <2>8 DEF vars, daemon, history
  <2>9. UNCHANGED <<phase, pending, missed>> => Pending' \subseteq missed'
    OBVIOUS
  <2>. HIDE DEF TypeOK, NothingLeftArmed, Pending
  <2>. QED BY <2>1, <2>2, <2>3, <2>4, <2>5, <2>6, <2>7, <2>8, <2>9 DEF Next, Call
<1>. QED BY <1>1, <1>2, SchedulingTypeCorrect, PTL DEF Spec

(***************************************************************************)
(* The two limits.                                                         *)
(***************************************************************************)

(* Follow-ups that have been counted, were their raise lost or not.        *)
Counted(q) == {t \in Task : call[t] = "done" /\ via[t] = q}

(* The count, and what a call has read of it, is never ahead of the calls  *)
(* that have raised it.                                                    *)
Limits ==
  /\ \A q \in Queue : Cardinality(pending[q]) <= MaxTotal /\ count[q] <= Cardinality(Counted(q))
  /\ \A t \in Task : call[t] = "raising" => read[t] <= Cardinality(Counted(via[t]))

(* All these sets are finite.                                              *)
LEMMA FiniteTasks ==
  ASSUME TypeOK
  PROVE  \A q \in Queue :
           /\ IsFiniteSet(Counted(q)) /\ IsFiniteSet(Scheduled(q)) /\ IsFiniteSet(pending[q])
           /\ Cardinality(Counted(q)) \in Nat /\ Cardinality(Scheduled(q)) \in Nat /\ Cardinality(pending[q]) \in Nat
<1>1. IsFiniteSet(Task)
  BY SchedulingAssumption, FS_Subset
<1>2. \A q \in Queue : Counted(q) \subseteq Task /\ Scheduled(q) \subseteq Task /\ pending[q] \subseteq Task
  BY DEF Counted, Scheduled, TypeOK
<1>. QED BY <1>1, <1>2, FS_Subset, FS_CardinalityType

(* A queue that loses tasks keeps its bound.                               *)
LEMMA StillBounded ==
  ASSUME TypeOK, Limits, \A q \in Queue : pending'[q] \subseteq pending[q]
  PROVE  \A q \in Queue : Cardinality(pending'[q]) <= MaxTotal
<1>. SUFFICES ASSUME NEW q \in Queue PROVE Cardinality(pending'[q]) <= MaxTotal
  OBVIOUS
<1>1. IsFiniteSet(pending[q]) /\ pending'[q] \subseteq pending[q] /\ Cardinality(pending[q]) <= MaxTotal
  BY FiniteTasks DEF Limits
<1>2. Cardinality(pending'[q]) <= Cardinality(pending[q]) /\ Cardinality(pending'[q]) \in Nat /\ Cardinality(pending[q]) \in Nat
  BY <1>1, FS_Subset, FS_CardinalityType
<1>. QED BY <1>1, <1>2, SchedulingAssumption

(* A step that counts nothing and adds nothing to a queue.                 *)
LEMMA StillLimited ==
  ASSUME TypeOK, Limits, \A q \in Queue : pending'[q] \subseteq pending[q], UNCHANGED <<count, read>>,
         \A q \in Queue : Counted(q)' = Counted(q),
         \A t \in Task : call'[t] = "raising" => call[t] = "raising" /\ via'[t] = via[t] /\ via[t] \in Queue
  PROVE  Limits'
<1>1. \A q \in Queue : count'[q] <= Cardinality(Counted(q))'
  BY DEF Limits
<1>2. \A t \in Task : call'[t] = "raising" => read'[t] <= Cardinality(Counted(via[t]))'
  BY DEF Limits
<1>. QED BY <1>1, <1>2, StillBounded DEF Limits

(* The step that puts a task in a queue, and the two that raise a count.   *)
LEMMA ScheduleLimited ==
  ASSUME TypeOK, Vias, Limits, NEW t \in Task, Schedule(t)
  PROVE  Limits'
<1>1. PICK q0 \in Queue : q0 = via[t]
  BY DEF Vias, Schedule, Advances
<1>2. /\ pending' = [pending EXCEPT ![q0] = @ \cup {t}] /\ ~(Cardinality(pending[q0]) >= MaxTotal)
      /\ UNCHANGED <<count, read, via>> /\ call' = [call EXCEPT ![t] = "made"] /\ call[t] = "passed"
  BY <1>1 DEF Schedule, Full, Advances
<1>3. \A q \in Queue : Counted(q)' = Counted(q)
  BY <1>2 DEF Counted, TypeOK
<1>4. \A u \in Task : call'[u] = "raising" => call[u] = "raising" /\ via'[u] = via[u]
  BY <1>2 DEF TypeOK
<1>5. \A q \in Queue : q # q0 => pending'[q] = pending[q]
  BY <1>2 DEF TypeOK
<1>6. pending'[q0] = pending[q0] \cup {t}
  BY <1>2 DEF TypeOK
<1>7. IsFiniteSet(pending[q0]) /\ Cardinality(pending[q0]) \in Nat
  BY FiniteTasks
<1>8. Cardinality(pending'[q0]) \in {Cardinality(pending[q0]), Cardinality(pending[q0]) + 1}
  <2>1. CASE t \in pending[q0]
    BY <1>6, <2>1
  <2>2. CASE t \notin pending[q0]
    BY <1>6, <1>7, <2>2, FS_AddElement
  <2>. QED BY <2>1, <2>2
<1>9. Cardinality(pending'[q0]) <= MaxTotal
  BY <1>2, <1>7, <1>8, SchedulingAssumption
<1>10. \A q \in Queue : Cardinality(pending'[q]) <= MaxTotal
  BY <1>5, <1>9 DEF Limits
<1>11. \A q \in Queue : count'[q] <= Cardinality(Counted(q))'
  BY <1>2, <1>3 DEF Limits
<1>12. \A u \in Task : call'[u] = "raising" => read'[u] <= Cardinality(Counted(via[u]))'
  BY <1>2, <1>3, <1>4 DEF Limits, Vias
<1>. QED BY <1>2, <1>10, <1>11, <1>12 DEF Limits

LEMMA ReadLimited ==
  ASSUME TypeOK, Vias, Limits, NEW t \in Task, ReadCount(t)
  PROVE  Limits'
<1>1. /\ call' = [call EXCEPT ![t] = "raising"] /\ read' = [read EXCEPT ![t] = count[via[t]]] /\ call[t] = "made"
      /\ UNCHANGED <<pending, count, via>> /\ via[t] \in Queue
  BY DEF ReadCount, Advances, Vias
<1>2. \A q \in Queue : Counted(q)' = Counted(q)
  BY <1>1 DEF Counted, TypeOK
<1>3. ASSUME NEW u \in Task, call'[u] = "raising" PROVE read'[u] <= Cardinality(Counted(via[u]))'
  <2>1. CASE u = t
    BY <1>1, <1>2, <2>1 DEF Limits, TypeOK
  <2>2. CASE u # t
    <3>1. call[u] = "raising" /\ read'[u] = read[u] /\ via'[u] = via[u] /\ via[u] \in Queue
      BY <1>1, <1>3, <2>2 DEF TypeOK, Vias
    <3>. QED BY <1>2, <3>1 DEF Limits
  <2>. QED BY <2>1, <2>2
<1>. QED BY <1>1, <1>2, <1>3 DEF Limits

LEMMA WriteLimited ==
  ASSUME TypeOK, Vias, Limits, NEW t \in Task, WriteCount(t)
  PROVE  Limits'
<1>1. PICK q0 \in Queue : q0 = via[t]
  BY DEF Vias, WriteCount, Advances
<1>2. /\ call' = [call EXCEPT ![t] = "done"] /\ read' = [read EXCEPT ![t] = 0] /\ call[t] = "raising"
      /\ count' = [count EXCEPT ![q0] = read[t] + 1] /\ UNCHANGED <<pending, via>>
  BY <1>1 DEF WriteCount, Advances
<1>3. \A q \in Queue : q # q0 => Counted(q)' = Counted(q)
  BY <1>1, <1>2 DEF Counted, TypeOK
<1>4. Counted(q0)' = Counted(q0) \cup {t} /\ t \notin Counted(q0)
  BY <1>1, <1>2 DEF Counted, TypeOK
<1>5. IsFiniteSet(Counted(q0)) /\ Cardinality(Counted(q0)) \in Nat
  BY FiniteTasks
<1>6. Cardinality(Counted(q0) \cup {t}) = Cardinality(Counted(q0)) + 1
  BY <1>4, <1>5, FS_AddElement
<1>7. Cardinality(Counted(q0))' = Cardinality(Counted(q0)) + 1
  BY <1>4, <1>6
<1>8. ASSUME NEW q \in Queue PROVE count'[q] <= Cardinality(Counted(q))'
  <2>1. CASE q = q0
    <3>1. read[t] <= Cardinality(Counted(q0)) /\ read[t] \in Nat
      BY <1>1, <1>2 DEF Limits, TypeOK
    <3>2. count'[q0] = read[t] + 1
      BY <1>2 DEF TypeOK
    <3>. QED BY <1>5, <1>7, <2>1, <3>1, <3>2
  <2>2. CASE q # q0
    BY <1>2, <1>3, <2>2 DEF Limits, TypeOK
  <2>. QED BY <2>1, <2>2
<1>9. ASSUME NEW u \in Task, call'[u] = "raising" PROVE read'[u] <= Cardinality(Counted(via[u]))'
  <2>1. /\ call[u] = "raising" /\ read'[u] = read[u] /\ via'[u] = via[u] /\ via[u] \in Queue /\ read[u] \in Nat
        /\ read[u] <= Cardinality(Counted(via[u]))
    BY <1>2, <1>9 DEF TypeOK, Vias, Limits
  <2>2. CASE via[u] = q0
    BY <1>5, <1>7, <2>1, <2>2
  <2>3. CASE via[u] # q0
    BY <1>3, <2>1, <2>3
  <2>. QED BY <2>2, <2>3
<1>. QED BY <1>2, <1>8, <1>9 DEF Limits

LEMMA LimitsStep ==
  ASSUME TypeOK, Vias, Limits, [Next]_vars
  PROVE  Limits'
<1>1. ASSUME UNCHANGED <<count, calls>>, \A q \in Queue : pending'[q] \subseteq pending[q] PROVE Limits'
  <2>1. \A q \in Queue : Counted(q)' = Counted(q)
    BY <1>1 DEF Counted, calls
  <2>. QED BY <1>1, <2>1, StillLimited DEF calls, Vias
<1>2. ASSUME NEW a \in Thread, Trip(a) \/ Admit(a) \/ Refuse(a) \/ Finish(a) PROVE Limits'
  BY <1>1, <1>2 DEF Trip, Admit, Refuse, Finish
<1>3. ASSUME NEW a \in Thread, NEW t \in Task, PassLimit(a, t) PROVE Limits'
  <2>1. /\ UNCHANGED <<count, read, pending>> /\ call[t] = "none" /\ call' = [call EXCEPT ![t] = "passed"]
        /\ via' = [via EXCEPT ![t] = toolsOf[a]]
    BY <1>3 DEF PassLimit
  <2>2. \A q \in Queue : Counted(q)' = Counted(q)
    BY <2>1 DEF Counted, TypeOK
  <2>. QED BY <2>1, <2>2, StillLimited DEF TypeOK, Vias
<1>4. ASSUME NEW t \in Task, TurnedAway(t) PROVE Limits'
  <2>1. /\ UNCHANGED <<count, read, pending>> /\ call[t] = "passed" /\ call' = [call EXCEPT ![t] = "none"]
        /\ via' = [via EXCEPT ![t] = 0]
    BY <1>4 DEF TurnedAway, Advances
  <2>2. \A q \in Queue : Counted(q)' = Counted(q)
    BY <2>1 DEF Counted, TypeOK
  <2>. QED BY <2>1, <2>2, StillLimited DEF TypeOK, Vias
<1>5. ASSUME NEW t \in Task, Fire(t) PROVE Limits'
  BY <1>1, <1>5 DEF Fire, TypeOK
<1>6. CASE NewQueue \/ NewTools \/ Exit \/ UNCHANGED vars
  BY <1>1, <1>6 DEF NewQueue, NewTools, Exit, Left, vars
<1>7. CASE Signal
  BY <1>1, <1>7 DEF Signal, CancelAll, TypeOK
<1>. QED BY <1>2, <1>3, <1>4, <1>5, <1>6, <1>7, ScheduleLimited, ReadLimited, WriteLimited DEF Next, Run, Call

(* No queue is ever over its bound, and however its calls overlap, are     *)
(* turned away or lose a raise, a toolset refuses no call before it has    *)
(* scheduled what it may (agent/tools/scheduling.py, schedule_followup).   *)
THEOREM LimitsAreKept == Spec => []LimitsHold
<1>1. Init => TypeOK /\ Vias /\ Limits
  <2>. SUFFICES ASSUME Init PROVE TypeOK /\ Vias /\ Limits
    OBVIOUS
  <2>1. \A q \in Queue : Counted(q) = {} /\ pending[q] = {} /\ count[q] = 0
    BY DEF Init, Counted
  <2>2. Cardinality({}) = 0 /\ 0 <= MaxTotal
    BY FS_EmptySet, SchedulingAssumption
  <2>3. \A t \in Task : call[t] # "raising"
    BY DEF Init
  <2>4. TypeOK /\ Vias
    BY SchedulingAssumption DEF Init, TypeOK, Vias
  <2>. HIDE DEF Queue
  <2>. QED BY <2>1, <2>2, <2>3, <2>4 DEF Limits
<1>2. TypeOK /\ Vias /\ Limits /\ [Next]_vars => Vias' /\ Limits'
  BY LimitsStep, ViasStep
<1>3. TypeOK /\ Limits => LimitsHold
  <2>. SUFFICES ASSUME TypeOK, Limits, NEW q \in Queue
                PROVE  Cardinality(pending[q]) <= MaxTotal /\ (Limited(q) => Cardinality(Scheduled(q)) >= MaxPerRun)
    BY DEF LimitsHold, EachQueueBounded, NeverLimitedEarly
  <2>1. Counted(q) \subseteq Scheduled(q)
    BY DEF Counted, Scheduled, Made
  <2>2. Cardinality(Counted(q)) <= Cardinality(Scheduled(q)) /\ Cardinality(Counted(q)) \in Nat /\ Cardinality(Scheduled(q)) \in Nat
    BY <2>1, FiniteTasks, FS_Subset
  <2>3. count[q] \in Nat /\ count[q] <= Cardinality(Counted(q)) /\ Cardinality(pending[q]) <= MaxTotal
    BY DEF TypeOK, Limits
  <2>. QED BY <2>2, <2>3, SchedulingAssumption DEF Limited
<1>. QED BY <1>1, <1>2, <1>3, SchedulingTypeCorrect, PTL DEF Spec
=============================================================================
