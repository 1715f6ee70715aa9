----------------------------- MODULE Scheduling -----------------------------
(***************************************************************************)
(* The follow-ups a daemon's agent schedules for itself: ScheduleQueue with*)
(* its timers, the two tools that fill it, the runs that call them, the    *)
(* hot reload that builds another queue, and the shutdown that cancels.    *)
(*                                                                         *)
(* A timer is a thread of its own: it takes its task out of the queue under*)
(* the lock and then calls _on_trigger outside it, like a trigger's thread.*)
(* A reload replaces queue and tools but not the timers of the old queue,  *)
(* nor the tools of the runs in flight.  Queues and the tools that fill    *)
(* them are numbered; 0 is none.                                           *)
(*                                                                         *)
(* The toolset is not sequential: the calls of one run go on in parallel,  *)
(* each in a thread of its own.  A call is named by the follow-up it makes.*)
(***************************************************************************)
EXTENDS Integers, FiniteSets

CONSTANTS
  Trigger,       \* threads of the role's triggers
  Task,          \* bound: calls that schedule, and the follow-ups they make
  MaxConcurrent, \* _MAX_CONCURRENT
  MaxPerRun,     \* max_scheduled_per_run
  MaxTotal,      \* max_scheduled_total
  MaxReload      \* bound: reloads

Queue == 1 .. MaxReload + 1
Thread == Trigger \cup Task

ASSUME SchedulingAssumption ==
  /\ IsFiniteSet(Thread) /\ Trigger \cap Task = {}
  /\ MaxConcurrent \in Nat \ {0} /\ MaxPerRun \in Nat \ {0} /\ MaxTotal \in Nat \ {0}
  /\ MaxReload \in Nat

VARIABLES
  phase,     \* of the main thread
  queue,     \* _schedule_queue
  tools,     \* _scheduling_toolset: the queue its tools fill
  reloads,   \* reloads so far
  pending,   \* _pending of each queue
  count,     \* _run_schedule_count of each toolset
  thread,    \* what each trigger and timer does
  toolsOf,   \* the toolset of the run a thread makes
  call,      \* where the call is that makes each follow-up
  via,       \* the toolset of that call, and so the queue of the follow-up
  read,      \* the count it has read to raise it
  hand,      \* the calls each run waits for
  runs,      \* history: how often each task has been run
  own,       \* history: tasks each run has scheduled
  cancelled, \* history: tasks cancel_all has cancelled
  dropped,   \* history: tasks whose trigger was refused
  missed     \* history: tasks scheduled after the shutdown, or in a queue it did not cancel

daemon == <<phase, queue, tools, reloads>>
threads == <<thread, toolsOf, hand>>
calls == <<call, via, read>>
history == <<runs, own, cancelled, dropped, missed>>
vars == <<daemon, pending, count, threads, calls, history>>

TypeOK ==
  /\ phase \in {"serving", "draining", "exited"}
  /\ queue \in Queue \cup {0} /\ tools \in Queue \cup {0} /\ reloads \in 0 .. MaxReload
  /\ pending \in [Queue -> SUBSET Task]
  /\ count \in [Queue -> Nat]
  /\ thread \in [Thread -> {"idle", "entering", "running", "ended"}]
  /\ toolsOf \in [Thread -> Queue \cup {0}]
  /\ call \in [Task -> {"none", "passed", "made", "raising", "done"}]
  /\ via \in [Task -> Queue \cup {0}]
  /\ read \in [Task -> Nat]
  /\ hand \in [Thread -> SUBSET Task]
  /\ runs \in [Task -> Nat]
  /\ own \in [Thread -> SUBSET Task]
  /\ cancelled \subseteq Task /\ dropped \subseteq Task /\ missed \subseteq Task

Pending == UNION {pending[q] : q \in Queue}
Running == {a \in Thread : thread[a] = "running"}
Made(t) == call[t] \in {"made", "raising", "done"}
Scheduled(q) == {t \in Task : Made(t) /\ via[t] = q}

(* autonomy is configured in the role, or not.                             *)
Init ==
  /\ phase = "serving" /\ reloads = 0
  /\ queue \in {0, 1} /\ tools = queue
  /\ pending = [q \in Queue |-> {}]
  /\ count = [q \in Queue |-> 0]
  /\ thread = [a \in Thread |-> "idle"]
  /\ toolsOf = [a \in Thread |-> 0]
  /\ call = [t \in Task |-> "none"] /\ via = [t \in Task |-> 0] /\ read = [t \in Task |-> 0]
  /\ hand = [a \in Thread |-> {}]
  /\ runs = [t \in Task |-> 0]
  /\ own = [a \in Thread |-> {}]
  /\ cancelled = {} /\ dropped = {} /\ missed = {}

Alive == phase # "exited"
Goes(a, from, to) == Alive /\ thread[a] = from /\ thread' = [thread EXCEPT ![a] = to]

(* A trigger fires.                                                        *)
Trip(a) ==
  /\ a \in Trigger /\ Goes(a, "idle", "entering")
  /\ own' = [own EXCEPT ![a] = {}]
  /\ UNCHANGED <<daemon, pending, count, toolsOf, hand, calls, runs, cancelled, dropped, missed>>

(* Mutant: the timer of a queue that was replaced does not fire. *)
Armed(t) == Made(t) /\ t \in pending[via[t]] /\ via[t] = queue

Due(t) == Made(t) /\ t \in pending[via[t]]

(* A timer has elapsed: its task is taken out of the queue.                *)
Fire(t) ==
  /\ Due(t) /\ Goes(t, "idle", "entering")
  /\ pending' = [pending EXCEPT ![via[t]] = @ \ {t}]
  /\ UNCHANGED <<daemon, count, toolsOf, hand, calls, history>>

(* _on_trigger: the run has the tools of the moment, or is refused by the  *)
(* breaker, the semaphore or the budget; a follow-up is then lost.         *)
Admit(a) ==
  /\ Cardinality(Running) < MaxConcurrent
  /\ Goes(a, "entering", "running")
  /\ toolsOf' = [toolsOf EXCEPT ![a] = tools]
  /\ runs' = [t \in Task |-> IF t = a THEN runs[t] + 1 ELSE runs[t]]
  /\ UNCHANGED <<daemon, pending, count, hand, calls, own, cancelled, dropped, missed>>

After(a) == IF a \in Task THEN "ended" ELSE "idle"

Refuse(a) ==
  /\ Goes(a, "entering", After(a))
  /\ dropped' = dropped \cup ({a} \cap Task)
  /\ UNCHANGED <<daemon, pending, count, toolsOf, hand, calls, runs, own, cancelled, missed>>

(* The run ends, with its calls or, when it times out, without them: they  *)
(* go on in their threads.                                                 *)
Finish(a) ==
  /\ Goes(a, "running", After(a))
  /\ toolsOf' = [toolsOf EXCEPT ![a] = 0]
  /\ hand' = [hand EXCEPT ![a] = {}]
  /\ UNCHANGED <<daemon, pending, count, calls, history>>

(* schedule_followup: the count of the toolset is checked, the task is put *)
(* in the queue under its lock, and then the count is raised, without one. *)
Limited(q) == count[q] >= MaxPerRun

PassLimit(a, t) ==
  /\ Alive /\ thread[a] = "running" /\ toolsOf[a] # 0 /\ ~Limited(toolsOf[a])
  /\ call[t] = "none"
  /\ call' = [call EXCEPT ![t] = "passed"]
  /\ via' = [via EXCEPT ![t] = toolsOf[a]]
  /\ hand' = [hand EXCEPT ![a] = @ \cup {t}]
  /\ UNCHANGED <<daemon, pending, count, thread, toolsOf, read, history>>

Advances(t, from, to) == Alive /\ call[t] = from /\ call' = [call EXCEPT ![t] = to]
Returns(t) == hand' = [a \in Thread |-> hand[a] \ {t}]

Full(q) == Cardinality(pending[q]) >= MaxTotal

Schedule(t) ==
  /\ Advances(t, "passed", "made") /\ ~Full(via[t])
  /\ pending' = [pending EXCEPT ![via[t]] = @ \cup {t}]
  /\ own' = [a \in Thread |-> IF t \in hand[a] THEN own[a] \cup {t} ELSE own[a]]
  /\ missed' = IF phase = "draining" THEN missed \cup {t} ELSE missed
  /\ UNCHANGED <<daemon, count, threads, via, read, runs, cancelled, dropped>>

(* Mutant: the count is raised before the queue has taken the task. *)
TurnedAwayCounted(t) ==
  /\ Advances(t, "passed", "none") /\ Full(via[t])
  /\ via' = [via EXCEPT ![t] = 0]
  /\ count' = [count EXCEPT ![via[t]] = @ + 1]
  /\ Returns(t)
  /\ UNCHANGED <<daemon, pending, thread, toolsOf, read, history>>

TurnedAway(t) ==
  /\ Advances(t, "passed", "none") /\ Full(via[t])
  /\ via' = [via EXCEPT ![t] = 0]
  /\ Returns(t)
  /\ UNCHANGED <<daemon, pending, count, thread, toolsOf, read, history>>

(* The += of two calls may overlap, and one of them be lost.               *)
ReadCount(t) ==
  /\ Advances(t, "made", "raising")
  /\ read' = [read EXCEPT ![t] = count[via[t]]]
  /\ UNCHANGED <<daemon, pending, count, threads, via, history>>

WriteCount(t) ==
  /\ Advances(t, "raising", "done")
  /\ count' = [count EXCEPT ![via[t]] = read[t] + 1]
  /\ read' = [read EXCEPT ![t] = 0]
  /\ Returns(t)
  /\ UNCHANGED <<daemon, pending, thread, toolsOf, via, history>>

(* Mutant: the tasks of the queue that is replaced go with it. *)
Carried == [q \in Queue |-> IF q = queue THEN {} ELSE pending[q]]

Left == pending

(* _setup_scheduling on a reload: another queue, then the tools for it.    *)
(* A role without autonomy leaves both as they are.                        *)
NewQueue ==
  /\ Alive /\ tools = queue /\ reloads < MaxReload
  /\ reloads' = reloads + 1
  /\ queue' = reloads + 2
  /\ pending' = Left
  /\ UNCHANGED <<phase, tools, count, threads, calls, history>>

NewTools ==
  /\ Alive /\ tools # queue
  /\ tools' = queue
  /\ UNCHANGED <<phase, queue, reloads, pending, count, threads, calls, history>>

(* Mutant: nothing is cancelled. *)
CancelNothing == UNCHANGED <<pending, cancelled>>

(* cancel_all of the queue of the moment.                                  *)
CancelAll ==
  IF queue = 0 THEN UNCHANGED <<pending, cancelled>>
  ELSE pending' = [pending EXCEPT ![queue] = {}] /\ cancelled' = cancelled \cup pending[queue]

(* The first signal; the drain follows, and after it, or after the grace   *)
(* period, the process ends, timers and all.                               *)
Signal ==
  /\ phase = "serving" /\ phase' = "draining"
  /\ CancelAll
  /\ missed' = missed \cup (UNION {pending[q] : q \in Queue \ {queue}})
  /\ UNCHANGED <<queue, tools, reloads, count, threads, calls, runs, own, dropped>>

Exit ==
  /\ phase = "draining" /\ phase' = "exited"
  /\ UNCHANGED <<queue, tools, reloads, pending, count, threads, calls, history>>

Run(a) == Trip(a) \/ Admit(a) \/ Refuse(a) \/ Finish(a) \/ \E t \in Task : PassLimit(a, t)

Call(t) == Schedule(t) \/ TurnedAway(t) \/ ReadCount(t) \/ WriteCount(t)

Next ==
  \/ \E a \in Thread : Run(a)
  \/ \E t \in Task : Call(t) \/ Fire(t)
  \/ NewQueue \/ NewTools \/ Signal \/ Exit

(* Timers elapse, threads go on, and a run ends, if only when it has timed *)
(* out.                                                                    *)
Fairness ==
  /\ \A t \in Task : WF_vars(Fire(t))
  /\ \A a \in Thread : WF_vars(Admit(a) \/ Refuse(a)) /\ WF_vars(Finish(a))

Spec == Init /\ [][Next]_vars
FairSpec == Spec /\ Fairness

----------------------------------------------------------------------------
(* The bound of a queue holds whatever the runs that fill it do at the same*)
(* time (schedule's check under _lock).  It is each queue's own: after n   *)
(* reloads n + 1 times as many may be armed, although                      *)
(* docs/orchestration/autonomy.md:62 says across the daemon lifetime.      *)
EachQueueBounded == \A q \in Queue : Cardinality(pending[q]) <= MaxTotal

(* However calls overlap and are turned away, no call is refused before    *)
(* the tools have scheduled MaxPerRun follow-ups.  They may schedule more: *)
(* parallel calls pass the check together, and raises get lost, although   *)
(* docs/orchestration/autonomy.md:61 says at most.                         *)
NeverLimitedEarly == \A q \in Queue : Limited(q) => Cardinality(Scheduled(q)) >= MaxPerRun

(* The two limits of the role, as far as the code keeps them.              *)
LimitsHold == EachQueueBounded /\ NeverLimitedEarly

(* Every follow-up is waiting, cancelled, on its way, run once or refused, *)
(* and only one of these, whatever reload and shutdown come between.       *)
FollowUpAccounted ==
  \A t \in Task :
    LET waiting == IF t \in Pending THEN 1 ELSE 0
        gone == IF t \in cancelled THEN 1 ELSE 0
        coming == IF thread[t] = "entering" THEN 1 ELSE 0
        refused == IF t \in dropped THEN 1 ELSE 0
    IN  waiting + gone + coming + refused + runs[t] = IF Made(t) THEN 1 ELSE 0

(* After the signal nothing is armed but what it could not see: tasks of   *)
(* queues replaced before, and of runs that go on during the drain.        *)
NothingLeftArmed == phase = "draining" => Pending \subseteq missed

(* A follow-up comes to its run, its refusal or its cancellation, unless   *)
(* the process ends; a reload does not lose it.                            *)
FollowUpSettles ==
  \A t \in Task : Made(t) ~> (thread[t] = "ended" \/ t \in cancelled \/ ~Alive)

(* docs/orchestration/autonomy.md:61: max_scheduled_per_run is what an     *)
(* agent may schedule in a single execution.                               *)
LimitIsPerRun ==
  \A a \in Thread : thread[a] = "running" /\ toolsOf[a] # 0 /\ Limited(toolsOf[a]) =>
    Cardinality(own[a]) >= MaxPerRun
=============================================================================
