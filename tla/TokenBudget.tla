---------------------------- MODULE TokenBudget ----------------------------
(***************************************************************************)
(* DaemonTokenTracker of runner/budget.py, as the trigger threads of the   *)
(* daemon and of a bot use it: a run is admitted against the budgets, its  *)
(* attempts record what they used, and a snapshot is saved to the audit    *)
(* database after each of them.  The process may die at any step and is    *)
(* then restored from the last snapshot saved.                             *)
(*                                                                         *)
(* Each method of the tracker is atomic under its lock; recording, taking  *)
(* the snapshot and saving it are three calls, so three actions.  A token  *)
(* costs one unit of money, and a budget of 0 is no budget, as in the code.*)
(***************************************************************************)
EXTENDS Integers, FiniteSets

CONSTANTS
  Thread,        \* trigger threads
  Use,           \* tokens one attempt may use
  MaxAttempts,   \* attempts of one run
  Lifetime,      \* daemon_token_budget
  Daily,         \* daemon_daily_token_budget
  DailyCost,     \* daemon_daily_cost_budget
  WeeklyCost,    \* daemon_weekly_cost_budget
  Zones,         \* offsets of the timezones a reload may set
  DaysPerWeek,
  MaxClock,      \* bound: half-days
  NoState        \* no row in budget_state

ASSUME BudgetAssumption ==
  /\ IsFiniteSet(Thread)
  /\ Use \subseteq Nat
  /\ {Lifetime, Daily, DailyCost, WeeklyCost, MaxClock} \subseteq Nat
  /\ {MaxAttempts, DaysPerWeek} \subseteq Nat \ {0}
  /\ Zones # {} /\ Zones \subseteq Nat

(* The limits of one run (max_tokens_per_run and the like) bound an attempt. *)
ASSUME UsageLimited == \E most \in Use : \A x \in Use : x <= most

VARIABLES
  tracker,      \* the counters of DaemonTokenTracker
  saved,        \* the agent's row in budget_state
  zone,         \* _tz
  clock,        \* wall clock, in half-days
  pc,           \* where each thread is
  attempt,      \* attempts its run has made
  snap,         \* the snapshot a thread is about to save
  accounted,    \* history: restored total plus every token recorded since
  accountedDay, \* history: the same for the day's counter
  openAtReset   \* history: reservations pending at the last daily reset

locals == <<pc, attempt, snap>>
history == <<accounted, accountedDay, openAtReset>>
vars == <<tracker, saved, zone, clock, locals, history>>

Reservation == 1

Today == (clock + zone) \div 2
ThisWeek == Today \div DaysPerWeek

(* What BudgetSnapshot keeps of the tracker: all but the reservations. *)
Snapshot == [total : Int, daily : Int, dailyCost : Nat, weeklyCost : Nat,
             resetDay : Nat, resetWeek : Nat]

Tracker == [total : Int, daily : Int, dailyCost : Nat, weeklyCost : Nat,
            resetDay : Nat, resetWeek : Nat, pending : Nat]

SnapshotOf(k) ==
  [total |-> k.total, daily |-> k.daily, dailyCost |-> k.dailyCost,
   weeklyCost |-> k.weeklyCost, resetDay |-> k.resetDay, resetWeek |-> k.resetWeek]

TrackerOf(s) ==
  [total |-> s.total, daily |-> s.daily, dailyCost |-> s.dailyCost,
   weeklyCost |-> s.weeklyCost, resetDay |-> s.resetDay, resetWeek |-> s.resetWeek,
   pending |-> 0]

NewTracker ==
  [total |-> 0, daily |-> 0, dailyCost |-> 0, weeklyCost |-> 0,
   resetDay |-> Today, resetWeek |-> ThisWeek, pending |-> 0]

TypeOK ==
  /\ tracker \in Tracker
  /\ saved \in Snapshot \cup {NoState}
  /\ zone \in Zones
  /\ clock \in Nat
  /\ pc \in [Thread -> {"idle", "run", "snapshot", "save"}]
  /\ attempt \in [Thread -> 0 .. MaxAttempts]
  /\ snap \in [Thread -> Snapshot \cup {NoState}]
  /\ accounted \in Int
  /\ accountedDay \in Int
  /\ openAtReset \in Nat

Init ==
  /\ zone \in Zones
  /\ clock = 0
  /\ tracker = NewTracker
  /\ saved = NoState
  /\ pc = [t \in Thread |-> "idle"]
  /\ attempt = [t \in Thread |-> 0]
  /\ snap = [t \in Thread |-> NoState]
  /\ accounted = 0
  /\ accountedDay = 0
  /\ openAtReset = 0

-----------------------------------------------------------------------------
(* Mutant of DayReset: the date moves on but the counter stays. *)
DayResetDateOnly(k) ==
  IF Today > k.resetDay THEN [k EXCEPT !.resetDay = Today] ELSE k

(* The resets at the head of check_before_run, and of with_resets. *)
DayReset(k) ==
  IF Today > k.resetDay THEN [k EXCEPT !.daily = 0, !.dailyCost = 0, !.resetDay = Today] ELSE k

WeekReset(k) ==
  IF ThisWeek # k.resetWeek THEN [k EXCEPT !.weeklyCost = 0, !.resetWeek = ThisWeek] ELSE k

Resets(k) == WeekReset(DayReset(k))

Exhausted(consumed, budget) == budget # 0 /\ consumed >= budget

(* Mutant of Refuses: the lifetime budget is only looked at when there is no *)
(* daily budget.                                                             *)
RefusesOneBudget(k) ==
  \/ Exhausted(k.daily, Daily)
  \/ Daily = 0 /\ Exhausted(k.total, Lifetime)
  \/ Exhausted(k.dailyCost, DailyCost)
  \/ Exhausted(k.weeklyCost, WeeklyCost)

Refuses(k) ==
  \/ Exhausted(k.total, Lifetime)
  \/ Exhausted(k.daily, Daily)
  \/ Exhausted(k.dailyCost, DailyCost)
  \/ Exhausted(k.weeklyCost, WeeklyCost)

Add(k, n) == [k EXCEPT !.total = @ + n, !.daily = @ + n]

Reserve(k) == [Add(k, Reservation) EXCEPT !.pending = @ + 1]

(* check_before_run: it resets, then refuses, or reserves and lets run. *)
Check(t) ==
  LET k == Resets(tracker) IN
    /\ pc[t] = "idle"
    /\ tracker' = IF Refuses(k) THEN k ELSE Reserve(k)
    /\ pc' = [pc EXCEPT ![t] = IF Refuses(k) THEN "idle" ELSE "run"]
    /\ accountedDay' = IF Today > tracker.resetDay THEN 0 ELSE accountedDay
    /\ openAtReset' = IF Today > tracker.resetDay THEN tracker.pending ELSE openAtReset
    /\ UNCHANGED <<saved, zone, clock, attempt, snap, accounted>>

(* Mutant of GiveBack: a retry takes its reservation off again. *)
GiveBackAlways(k) ==
  [Add(k, -Reservation) EXCEPT !.pending = IF @ > 0 THEN @ - 1 ELSE 0]

(* A record gives a pending reservation back, whoever made it.               *)
GiveBack(k) ==
  IF k.pending > 0 THEN [Add(k, -Reservation) EXCEPT !.pending = @ - 1] ELSE k

(* The costs are only counted when there is a cost budget. *)
Charge(k, x) ==
  IF DailyCost # 0 \/ WeeklyCost # 0
    THEN [k EXCEPT !.dailyCost = @ + x, !.weeklyCost = @ + x] ELSE k

(* record_usage *)
Usage(k, x) == Charge(Add(GiveBack(k), x), x)

(* One attempt ends: _execute_single returns and its usage is recorded.      *)
RecordUsage(t) ==
  /\ pc[t] = "run"
  /\ \E x \in Use :
       /\ tracker' = Usage(tracker, x)
       /\ accounted' = accounted + x
       /\ accountedDay' = accountedDay + x
  /\ attempt' = [attempt EXCEPT ![t] = @ + 1]
  /\ pc' = [pc EXCEPT ![t] = "snapshot"]
  /\ UNCHANGED <<saved, zone, clock, snap, openAtReset>>

(* It raises instead: nothing is recorded and nothing saved. *)
RunRaises(t) ==
  /\ pc[t] = "run"
  /\ pc' = [pc EXCEPT ![t] = "idle"]
  /\ attempt' = [attempt EXCEPT ![t] = 0]
  /\ UNCHANGED <<tracker, saved, zone, clock, snap, history>>

TakeSnapshot(t) ==
  /\ pc[t] = "snapshot"
  /\ snap' = [snap EXCEPT ![t] = SnapshotOf(tracker)]
  /\ pc' = [pc EXCEPT ![t] = "save"]
  /\ UNCHANGED <<tracker, saved, zone, clock, attempt, history>>

(* After the save the run is over, or a transient error is retried. *)
NextAttempt(t) ==
  /\ snap' = [snap EXCEPT ![t] = NoState]
  /\ \/ /\ attempt[t] < MaxAttempts
        /\ pc' = [pc EXCEPT ![t] = "run"]
        /\ UNCHANGED attempt
     \/ /\ pc' = [pc EXCEPT ![t] = "idle"]
        /\ attempt' = [attempt EXCEPT ![t] = 0]

(* save_budget_state: INSERT OR REPLACE. *)
Save(t) ==
  /\ pc[t] = "save"
  /\ saved' = snap[t]
  /\ NextAttempt(t)
  /\ UNCHANGED <<tracker, zone, clock, history>>

-----------------------------------------------------------------------------
(* The tracker a process starts with: restore of the row, if there is one.   *)
Restored == IF saved = NoState THEN NewTracker ELSE TrackerOf(Resets(saved))

(* The process dies, whatever its threads were doing, and starts again.      *)
Restart ==
  /\ \E t \in Thread : pc[t] # "idle" \/ tracker # Restored
  /\ tracker' = Restored
  /\ pc' = [t \in Thread |-> "idle"]
  /\ attempt' = [t \in Thread |-> 0]
  /\ snap' = [t \in Thread |-> NoState]
  /\ accounted' = Restored.total
  /\ accountedDay' = Restored.daily
  /\ openAtReset' = 0
  /\ UNCHANGED <<saved, zone, clock>>

(* update_limits after a reload that changed budget_timezone. *)
ChangeZone ==
  /\ \E z \in Zones \ {zone} : zone' = z
  /\ UNCHANGED <<tracker, saved, clock, locals, history>>

TimePasses ==
  /\ clock < MaxClock
  /\ clock' = clock + 1
  /\ UNCHANGED <<tracker, saved, zone, locals, history>>

ThreadStep(t) ==
  Check(t) \/ RecordUsage(t) \/ RunRaises(t) \/ TakeSnapshot(t) \/ Save(t)

Next ==
  \/ \E t \in Thread : ThreadStep(t)
  \/ Restart
  \/ ChangeZone
  \/ TimePasses

Spec == Init /\ [][Next]_vars

-----------------------------------------------------------------------------
(* Properties. *)

(* The lifetime counter is exact up to the reservations pending, however     *)
(* runs interleave, retry, give back each other's reservations or raise.     *)
TotalConserved == tracker.total = accounted + tracker.pending * Reservation

(* The day's counter is off by the reservations that were pending when it    *)
(* was reset: each run in flight over midnight is under-counted by one       *)
(* token, and so is a record for each run that had raised before, since its  *)
(* reservation is given back by another one's.                               *)
DayConserved ==
  tracker.daily = accountedDay + (tracker.pending - openAtReset) * Reservation

Most == CHOOSE most \in Use : \A x \in Use : x <= most

MostUsed == MaxAttempts * Most

Slack == Cardinality(Thread) * MostUsed

(* Spend passes a budget by no more than what the runs admitted before it    *)
(* was exhausted can still use; a day's spend also by the reservations that  *)
(* were pending at its reset, which earlier runs may have left behind.       *)
OvershootBounded ==
  /\ Lifetime # 0 => tracker.total <= Lifetime + Slack
  /\ Daily # 0 => accountedDay <= Daily + openAtReset * Reservation + Slack
=============================================================================
