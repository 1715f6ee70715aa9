------------------------- MODULE TokenBudgetProofs -------------------------
(***************************************************************************)
(* The tracker's accounting, for any number of threads, any usage, any     *)
(* budgets and any retry policy.                                           *)
(***************************************************************************)
EXTENDS TokenBudget, FiniteSetTheorems, TLAPS

LEMMA Dates == TypeOK => Today \in Nat /\ ThisWeek \in Nat
<1>. SUFFICES ASSUME TypeOK PROVE Today \in Nat /\ ThisWeek \in Nat
  OBVIOUS
<1>1. clock + zone \in Nat
  BY BudgetAssumption DEF TypeOK
<1>2. \A n \in Nat : n \div 2 \in Nat
  OBVIOUS
<1>3. \A n \in Nat, d \in Nat \ {0} : n \div d \in Nat
  OBVIOUS
<1>. QED BY <1>1, <1>2, <1>3, BudgetAssumption DEF Today, ThisWeek

(* The resets leave the lifetime counter and the reservations alone. *)
LEMMA ResetsKeep ==
  ASSUME TypeOK, NEW k \in Tracker
  PROVE  /\ Resets(k) \in Tracker
         /\ Resets(k).total = k.total
         /\ Resets(k).pending = k.pending
         /\ Resets(k).daily = IF Today > k.resetDay THEN 0 ELSE k.daily
<1>. DEFINE k1 == [k EXCEPT !.daily = 0]
            k2 == [k1 EXCEPT !.dailyCost = 0]
            k3 == [k2 EXCEPT !.resetDay = Today]
<1>1. k1 \in Tracker /\ k1.total = k.total /\ k1.pending = k.pending /\ k1.daily = 0
  BY DEF Tracker
<1>. HIDE DEF k1
<1>2. k2 \in Tracker /\ k2.total = k.total /\ k2.pending = k.pending /\ k2.daily = 0
  BY <1>1 DEF Tracker
<1>. HIDE DEF k2
<1>3. k3 \in Tracker /\ k3.total = k.total /\ k3.pending = k.pending /\ k3.daily = 0
  BY <1>2, Dates DEF Tracker
<1>. HIDE DEF k3
<1>4. DayReset(k) = IF Today > k.resetDay THEN k3 ELSE k
  BY Zenon DEF DayReset, k3, k2, k1
<1>5. /\ DayReset(k) \in Tracker
      /\ DayReset(k).total = k.total
      /\ DayReset(k).pending = k.pending
      /\ DayReset(k).daily = IF Today > k.resetDay THEN 0 ELSE k.daily
  BY <1>3, <1>4
<1>6. ASSUME NEW d \in Tracker
      PROVE  /\ WeekReset(d) \in Tracker
             /\ WeekReset(d).total = d.total
             /\ WeekReset(d).pending = d.pending
             /\ WeekReset(d).daily = d.daily
  <2>. DEFINE d1 == [d EXCEPT !.weeklyCost = 0]
              d2 == [d1 EXCEPT !.resetWeek = ThisWeek]
  <2>1. d1 \in Tracker /\ d1.total = d.total /\ d1.pending = d.pending /\ d1.daily = d.daily
    BY DEF Tracker
  <2>. HIDE DEF d1
  <2>2. d2 \in Tracker /\ d2.total = d.total /\ d2.pending = d.pending /\ d2.daily = d.daily
    BY <2>1, Dates DEF Tracker
  <2>. HIDE DEF d2
  <2>3. WeekReset(d) = IF ThisWeek # d.resetWeek THEN d2 ELSE d
    BY Zenon DEF WeekReset, d2, d1
  <2>. QED BY <2>2, <2>3
<1>. QED BY <1>5, <1>6 DEF Resets

LEMMA ResetsSnapshot ==
  ASSUME TypeOK, NEW s \in Snapshot
  PROVE  /\ Resets(s) \in Snapshot
         /\ Resets(s).total = s.total
         /\ Resets(s).daily \in {0, s.daily}
<1>1. /\ DayReset(s) \in Snapshot
      /\ DayReset(s).total = s.total
      /\ DayReset(s).daily \in {0, s.daily}
  <2>. DEFINE s1 == [s EXCEPT !.daily = 0]
              s2 == [s1 EXCEPT !.dailyCost = 0]
              s3 == [s2 EXCEPT !.resetDay = Today]
  <2>1. s1 \in Snapshot /\ s1.total = s.total /\ s1.daily = 0
    BY DEF Snapshot
  <2>. HIDE DEF s1
  <2>2. s2 \in Snapshot /\ s2.total = s.total /\ s2.daily = 0
    BY <2>1 DEF Snapshot
  <2>. HIDE DEF s2
  <2>3. s3 \in Snapshot /\ s3.total = s.total /\ s3.daily = 0
    BY <2>2, Dates DEF Snapshot
  <2>. HIDE DEF s3
  <2>4. DayReset(s) = IF Today > s.resetDay THEN s3 ELSE s
    BY Zenon DEF DayReset, s3, s2, s1
  <2>. QED BY <2>3, <2>4
<1>2. ASSUME NEW d \in Snapshot
      PROVE  WeekReset(d) \in Snapshot /\ WeekReset(d).total = d.total /\ WeekReset(d).daily = d.daily
  <2>. DEFINE d1 == [d EXCEPT !.weeklyCost = 0]
              d2 == [d1 EXCEPT !.resetWeek = ThisWeek]
  <2>1. d1 \in Snapshot /\ d1.total = d.total /\ d1.daily = d.daily
    BY DEF Snapshot
  <2>. HIDE DEF d1
  <2>2. d2 \in Snapshot /\ d2.total = d.total /\ d2.daily = d.daily
    BY <2>1, Dates DEF Snapshot
  <2>. HIDE DEF d2
  <2>3. WeekReset(d) = IF ThisWeek # d.resetWeek THEN d2 ELSE d
    BY Zenon DEF WeekReset, d2, d1
  <2>. QED BY <2>2, <2>3
<1>. QED BY <1>1, <1>2 DEF Resets

LEMMA AddCounts ==
  ASSUME NEW k \in Tracker, NEW n \in Int
  PROVE  /\ Add(k, n) \in Tracker
         /\ Add(k, n).total = k.total + n
         /\ Add(k, n).daily = k.daily + n
         /\ Add(k, n).pending = k.pending
<1>. DEFINE k1 == [k EXCEPT !.total = @ + n]
            k2 == [k1 EXCEPT !.daily = @ + n]
<1>1. /\ k1 \in Tracker /\ k1.total = k.total + n
      /\ k1.daily = k.daily /\ k1.pending = k.pending
  BY DEF Tracker
<1>. HIDE DEF k1
<1>2. /\ k2 \in Tracker /\ k2.total = k.total + n
      /\ k2.daily = k.daily + n /\ k2.pending = k.pending
  BY <1>1 DEF Tracker
<1>. HIDE DEF k2
<1>3. Add(k, n) = k2
  BY Zenon DEF Add, k2, k1
<1>. QED BY <1>2, <1>3

LEMMA ReserveCounts ==
  ASSUME NEW k \in Tracker
  PROVE  /\ Reserve(k) \in Tracker
         /\ Reserve(k).total = k.total + 1
         /\ Reserve(k).daily = k.daily + 1
         /\ Reserve(k).pending = k.pending + 1
<1>. DEFINE a == Add(k, 1)
<1>1. /\ a \in Tracker /\ a.total = k.total + 1
      /\ a.daily = k.daily + 1 /\ a.pending = k.pending
  BY AddCounts
<1>2. Reserve(k) = [a EXCEPT !.pending = @ + 1]
  BY DEF Reserve, Reservation
<1>. HIDE DEF a
<1>. QED BY <1>1, <1>2 DEF Tracker

LEMMA GiveBackCounts ==
  ASSUME NEW k \in Tracker
  PROVE  /\ GiveBack(k) \in Tracker
         /\ GiveBack(k).total = k.total + (GiveBack(k).pending - k.pending)
         /\ GiveBack(k).daily = k.daily + (GiveBack(k).pending - k.pending)
<1>1. CASE k.pending > 0
  <2>. DEFINE a == Add(k, -1)
  <2>1. /\ a \in Tracker /\ a.total = k.total + (-1)
        /\ a.daily = k.daily + (-1) /\ a.pending = k.pending
    <3>1. -1 \in Int
      OBVIOUS
    <3>. QED BY <3>1, AddCounts
  <2>2. GiveBack(k) = [a EXCEPT !.pending = @ - 1]
    BY <1>1 DEF GiveBack, Reservation
  <2>. HIDE DEF a
  <2>. QED BY <1>1, <2>1, <2>2 DEF Tracker
<1>2. CASE ~(k.pending > 0)
  <2>1. GiveBack(k) = k
    BY <1>2 DEF GiveBack
  <2>. QED BY <2>1 DEF Tracker
<1>. QED BY <1>1, <1>2

LEMMA ChargeKeeps ==
  ASSUME NEW k \in Tracker, NEW x \in Nat
  PROVE  /\ Charge(k, x) \in Tracker
         /\ Charge(k, x).total = k.total
         /\ Charge(k, x).daily = k.daily
         /\ Charge(k, x).pending = k.pending
<1>. DEFINE k1 == [k EXCEPT !.dailyCost = @ + x]
            k2 == [k1 EXCEPT !.weeklyCost = @ + x]
<1>1. /\ k1 \in Tracker /\ k1.total = k.total
      /\ k1.daily = k.daily /\ k1.pending = k.pending
  BY DEF Tracker
<1>. HIDE DEF k1
<1>2. /\ k2 \in Tracker /\ k2.total = k.total
      /\ k2.daily = k.daily /\ k2.pending = k.pending
  BY <1>1 DEF Tracker
<1>. HIDE DEF k2
<1>3. Charge(k, x) = IF DailyCost # 0 \/ WeeklyCost # 0 THEN k2 ELSE k
  BY Zenon DEF Charge, k2, k1
<1>. QED BY <1>2, <1>3

(* A record moves the counters by what was used, less the reservation it     *)
(* gives back.                                                               *)
LEMMA UsageCounts ==
  ASSUME NEW k \in Tracker, NEW x \in Nat
  PROVE  /\ Usage(k, x) \in Tracker
         /\ Usage(k, x).total = k.total + x + (Usage(k, x).pending - k.pending)
         /\ Usage(k, x).daily = k.daily + x + (Usage(k, x).pending - k.pending)
<1>. DEFINE g == GiveBack(k)
            a == Add(g, x)
            u == Charge(a, x)
<1>1. /\ g \in Tracker
      /\ g.total = k.total + (g.pending - k.pending)
      /\ g.daily = k.daily + (g.pending - k.pending)
  BY GiveBackCounts
<1>. HIDE DEF g
<1>2. /\ a \in Tracker /\ a.total = g.total + x
      /\ a.daily = g.daily + x /\ a.pending = g.pending
  BY <1>1, AddCounts
<1>. HIDE DEF a
<1>3. u \in Tracker /\ u.total = a.total /\ u.daily = a.daily /\ u.pending = a.pending
  BY <1>2, ChargeKeeps
<1>4. Usage(k, x) = u
  BY DEF Usage, u, a, g
<1>. HIDE DEF u
<1>. QED BY <1>1, <1>2, <1>3, <1>4 DEF Tracker

LEMMA UsageGivesBack ==
  ASSUME NEW k \in Tracker, NEW x \in Nat
  PROVE  Usage(k, x).pending <= k.pending
<1>. DEFINE g == GiveBack(k)
<1>1. g \in Tracker /\ g.pending <= k.pending
  <2>1. CASE k.pending > 0
    <3>1. -1 \in Int
      OBVIOUS
    <3>2. Add(k, -1) \in Tracker /\ Add(k, -1).pending = k.pending
      BY <3>1, AddCounts
    <3>3. g.pending = k.pending - 1
      BY <2>1, <3>2 DEF GiveBack, Reservation, Tracker
    <3>. QED BY <3>3, GiveBackCounts DEF Tracker
  <2>2. CASE ~(k.pending > 0)
    BY <2>2 DEF GiveBack, Tracker
  <2>. QED BY <2>1, <2>2
<1>. HIDE DEF g
<1>2. Add(g, x) \in Tracker /\ Add(g, x).pending = g.pending
  BY <1>1, AddCounts
<1>3. Charge(Add(g, x), x).pending = g.pending
  BY <1>2, ChargeKeeps
<1>. QED BY <1>1, <1>3 DEF Usage, g

LEMMA RestoredTracker ==
  ASSUME TypeOK
  PROVE  /\ Restored \in Tracker
         /\ Restored.pending = 0
         /\ saved = NoState => Restored.total = 0 /\ Restored.daily = 0
         /\ saved # NoState => Restored.total = saved.total /\ Restored.daily \in {0, saved.daily}
<1>1. CASE saved = NoState
  BY <1>1, Dates DEF Restored, NewTracker, Tracker
<1>2. CASE saved # NoState
  <2>1. /\ Resets(saved) \in Snapshot
        /\ Resets(saved).total = saved.total
        /\ Resets(saved).daily \in {0, saved.daily}
    BY <1>2, ResetsSnapshot DEF TypeOK
  <2>. QED BY <1>2, <2>1 DEF Restored, TrackerOf, Snapshot, Tracker
<1>. QED BY <1>1, <1>2

(***************************************************************************)
(* The invariant: both counters are conserved.                             *)
(***************************************************************************)

(* A running thread has an attempt left, an idle one has made none. *)
AttemptLeft ==
  \A t \in Thread : /\ pc[t] = "run" => attempt[t] < MaxAttempts
                    /\ pc[t] = "idle" => attempt[t] = 0

Books == TypeOK /\ AttemptLeft /\ TotalConserved /\ DayConserved

LEMMA InitBooks == Init => Books
<1>. SUFFICES ASSUME Init PROVE Books
  OBVIOUS
<1>1. clock + zone \in Nat /\ clock \in Nat /\ zone \in Zones
  BY BudgetAssumption DEF Init
<1>2. Today \in Nat /\ ThisWeek \in Nat
  <2>1. \A n \in Nat, d \in Nat \ {0} : n \div d \in Nat
    OBVIOUS
  <2>. QED BY <1>1, <2>1, BudgetAssumption DEF Today, ThisWeek
<1>3. tracker \in Tracker
  BY <1>2 DEF Init, NewTracker, Tracker
<1>4. TypeOK
  BY <1>1, <1>3, BudgetAssumption DEF Init, TypeOK
<1>. QED BY <1>4 DEF Init, NewTracker, Books, AttemptLeft, TotalConserved, DayConserved, Reservation

LEMMA NextBooks == Books /\ [Next]_vars => Books'
<1>. SUFFICES ASSUME Books, [Next]_vars PROVE Books'
  OBVIOUS
<1>. USE BudgetAssumption DEF locals, history
<1>a. TypeOK /\ AttemptLeft /\ TotalConserved /\ DayConserved /\ tracker \in Tracker
  BY DEF Books, TypeOK
<1>b. /\ tracker.total \in Int /\ tracker.daily \in Int /\ tracker.pending \in Nat
      /\ accounted \in Int /\ accountedDay \in Int /\ openAtReset \in Nat
  BY <1>a DEF TypeOK, Tracker
<1>1. ASSUME NEW t \in Thread, Check(t) PROVE Books'
  <2>. DEFINE k == Resets(tracker)
  <2>1. /\ k \in Tracker /\ k.total = tracker.total /\ k.pending = tracker.pending
        /\ k.daily = IF Today > tracker.resetDay THEN 0 ELSE tracker.daily
    BY <1>a, ResetsKeep
  <2>2. tracker' = IF Refuses(k) THEN k ELSE Reserve(k)
    BY <1>1 DEF Check
  <2>3. /\ accountedDay' = IF Today > tracker.resetDay THEN 0 ELSE accountedDay
        /\ openAtReset' = IF Today > tracker.resetDay THEN tracker.pending ELSE openAtReset
        /\ accounted' = accounted
    BY <1>1 DEF Check
  <2>. HIDE DEF k
  <2>4. tracker' \in Tracker
    BY <2>1, <2>2, ReserveCounts
  <2>5. TypeOK'
    BY <1>1, <1>a, <1>b, <2>3, <2>4 DEF Check, TypeOK
  <2>6. TotalConserved' /\ DayConserved'
    <3>1. CASE Refuses(k)
      BY <1>a, <1>b, <2>1, <2>2, <2>3, <3>1 DEF TotalConserved, DayConserved, Reservation
    <3>2. CASE ~Refuses(k)
      <4>1. /\ tracker'.total = k.total + 1
            /\ tracker'.daily = k.daily + 1
            /\ tracker'.pending = k.pending + 1
        BY <2>1, <2>2, <3>2, ReserveCounts
      <4>. QED BY <1>a, <1>b, <2>1, <2>3, <4>1 DEF TotalConserved, DayConserved, Reservation
    <3>. QED BY <3>1, <3>2
  <2>7. AttemptLeft'
    <3>1. PICK to \in {"idle", "run"} : pc' = [pc EXCEPT ![t] = to]
      BY <1>1 DEF Check
    <3>2. attempt' = attempt /\ attempt[t] = 0
      BY <1>1, <1>a DEF Check, AttemptLeft
    <3>. QED BY <1>a, <3>1, <3>2 DEF AttemptLeft, TypeOK
  <2>. QED BY <2>5, <2>6, <2>7 DEF Books
<1>2. ASSUME NEW t \in Thread, RecordUsage(t) PROVE Books'
  <2>1. PICK x \in Use : /\ tracker' = Usage(tracker, x)
                         /\ accounted' = accounted + x
                         /\ accountedDay' = accountedDay + x
    BY <1>2 DEF RecordUsage
  <2>2. /\ tracker' \in Tracker
        /\ tracker'.total = tracker.total + x + (tracker'.pending - tracker.pending)
        /\ tracker'.daily = tracker.daily + x + (tracker'.pending - tracker.pending)
    BY <1>a, <2>1, UsageCounts, BudgetAssumption
  <2>3. tracker'.pending \in Nat /\ x \in Nat
    BY <2>2 DEF Tracker
  <2>4. attempt' \in [Thread -> 0 .. MaxAttempts]
    <3>1. attempt[t] \in 0 .. MaxAttempts /\ attempt[t] < MaxAttempts
      BY <1>2, <1>a DEF RecordUsage, TypeOK, AttemptLeft
    <3>2. attempt[t] + 1 \in 0 .. MaxAttempts
      BY <3>1
    <3>. QED BY <1>2, <1>a, <3>2 DEF RecordUsage, TypeOK
  <2>5. TypeOK'
    BY <1>2, <1>a, <1>b, <2>1, <2>2, <2>3, <2>4 DEF RecordUsage, TypeOK
  <2>6. TotalConserved' /\ DayConserved'
    BY <1>2, <1>a, <1>b, <2>1, <2>2, <2>3
       DEF RecordUsage, TotalConserved, DayConserved, Reservation
  <2>7. AttemptLeft'
    BY <1>2, <1>a DEF RecordUsage, AttemptLeft, TypeOK
  <2>. QED BY <2>5, <2>6, <2>7 DEF Books
<1>3. ASSUME NEW t \in Thread, RunRaises(t) \/ TakeSnapshot(t) \/ Save(t) PROVE Books'
  <2>1. UNCHANGED <<tracker, history>>
    BY <1>3 DEF RunRaises, TakeSnapshot, Save
  <2>2. SnapshotOf(tracker) \in Snapshot
    BY <1>a DEF SnapshotOf, Snapshot, Tracker
  <2>3. TypeOK' /\ AttemptLeft'
    <3>1. CASE RunRaises(t)
      BY <3>1, <1>a, <2>1 DEF RunRaises, TypeOK, AttemptLeft
    <3>2. CASE TakeSnapshot(t)
      BY <3>2, <1>a, <2>1, <2>2 DEF TakeSnapshot, TypeOK, AttemptLeft
    <3>3. CASE Save(t)
      BY <3>3, <1>a, <2>1 DEF Save, NextAttempt, TypeOK, AttemptLeft
    <3>. QED BY <1>3, <3>1, <3>2, <3>3
  <2>. QED BY <1>a, <2>1, <2>3 DEF Books, TotalConserved, DayConserved
<1>4. CASE Restart
  <2>1. tracker' = Restored /\ tracker' \in Tracker /\ tracker'.pending = 0
    BY <1>4, <1>a, RestoredTracker DEF Restart
  <2>2. /\ accounted' = tracker'.total
        /\ accountedDay' = tracker'.daily
        /\ openAtReset' = 0
    BY <1>4, <2>1 DEF Restart
  <2>3. tracker'.total \in Int /\ tracker'.daily \in Int
    BY <2>1 DEF Tracker
  <2>4. TypeOK'
    BY <1>4, <1>a, <2>1, <2>2, <2>3 DEF Restart, TypeOK
  <2>5. AttemptLeft'
    BY <1>4 DEF Restart, AttemptLeft
  <2>. QED BY <2>1, <2>2, <2>3, <2>4, <2>5 DEF Books, TotalConserved, DayConserved, Reservation
<1>5. CASE ChangeZone \/ TimePasses \/ UNCHANGED vars
  <2>1. UNCHANGED <<tracker, history>>
    BY <1>5 DEF ChangeZone, TimePasses, vars
  <2>2. TypeOK'
    BY <1>5, <1>a DEF ChangeZone, TimePasses, vars, TypeOK
  <2>3. AttemptLeft'
    BY <1>5, <1>a DEF ChangeZone, TimePasses, vars, AttemptLeft
  <2>. QED BY <1>a, <2>1, <2>2, <2>3 DEF Books, TotalConserved, DayConserved
<1>. QED BY <1>1, <1>2, <1>3, <1>4, <1>5 DEF Next, ThreadStep

(***************************************************************************)
(* What the runs in flight can still use is a sum over the threads.  It is *)
(* counted as a set: one pair for each thread and each token it has left.  *)
(***************************************************************************)

Unused(left) == {p \in Thread \X (1 .. MostUsed) : p[2] <= left[p[1]]}

Weight(left) == Cardinality(Unused(left))

LEMMA MostIsMost == Most \in Nat /\ (\A x \in Use : x <= Most) /\ MostUsed \in Nat
<1>1. Most \in Use /\ \A x \in Use : x <= Most
  BY UsageLimited DEF Most
<1>2. Most \in Nat
  BY <1>1, BudgetAssumption
<1>3. \A m, n \in Nat : m * n \in Nat
  OBVIOUS
<1>. QED BY <1>1, <1>2, <1>3, BudgetAssumption DEF MostUsed

(* The threads together have no more left than each can have. *)
LEMMA WeightBounded ==
  ASSUME NEW left
  PROVE  IsFiniteSet(Unused(left)) /\ Weight(left) \in Nat /\ Weight(left) <= Slack /\ Slack \in Nat
<1>. DEFINE All == Thread \X (1 .. MostUsed)
<1>1. IsFiniteSet(1 .. MostUsed) /\ Cardinality(1 .. MostUsed) = MostUsed
  <2>1. 1 \in Int /\ MostUsed \in Int /\ MostUsed \in Nat
    BY MostIsMost
  <2>. QED BY <2>1, FS_Interval
<1>2. IsFiniteSet(All) /\ Cardinality(All) = Slack
  BY <1>1, BudgetAssumption, FS_Product DEF Slack
<1>3. Unused(left) \subseteq All
  BY DEF Unused
<1>. HIDE DEF All
<1>. QED BY <1>2, <1>3, FS_Subset, FS_CardinalityType DEF Weight

LEMMA WeightOfNone == Weight([t \in Thread |-> 0]) = 0
<1>. DEFINE none == [t \in Thread |-> 0]
<1>1. \A p \in Thread \X (1 .. MostUsed) : ~(p[2] <= none[p[1]])
  BY MostIsMost
<1>2. Unused(none) = {}
  BY <1>1 DEF Unused
<1>. QED BY <1>2, FS_EmptySet DEF Weight

(* A thread adds what it has left to what the others have. *)
LEMMA WeightSplits ==
  ASSUME NEW left \in [Thread -> 0 .. MostUsed], NEW t \in Thread
  PROVE  Weight(left) = Weight([left EXCEPT ![t] = 0]) + left[t]
<1>. DEFINE others == [left EXCEPT ![t] = 0]
            own == {t} \X (1 .. left[t])
<1>1. left[t] \in 0 .. MostUsed /\ left[t] \in Int /\ left[t] \in Nat /\ left[t] <= MostUsed
  BY MostIsMost
<1>2. IsFiniteSet(own) /\ Cardinality(own) = left[t]
  <2>1. IsFiniteSet(1 .. left[t]) /\ Cardinality(1 .. left[t]) = left[t]
    <3>1. 1 \in Int
      OBVIOUS
    <3>. QED BY <1>1, <3>1, FS_Interval
  <2>2. IsFiniteSet({t}) /\ Cardinality({t}) = 1
    BY FS_Singleton
  <2>3. IsFiniteSet(own) /\ Cardinality(own) = Cardinality({t}) * Cardinality(1 .. left[t])
    BY <2>1, <2>2, FS_Product
  <2>. QED BY <1>1, <2>1, <2>2, <2>3
<1>3. Unused(left) = Unused(others) \cup own
  <2>1. ASSUME NEW p \in Thread \X (1 .. MostUsed)
        PROVE  p[2] <= left[p[1]] <=> (p[2] <= others[p[1]] \/ p \in own)
    <3>1. p[1] \in Thread /\ p[2] \in 1 .. MostUsed /\ p = <<p[1], p[2]>>
      OBVIOUS
    <3>2. CASE p[1] = t
      BY <1>1, <3>1, <3>2, MostIsMost
    <3>3. CASE p[1] # t
      BY <3>1, <3>3
    <3>. QED BY <3>2, <3>3
  <2>2. own \subseteq Thread \X (1 .. MostUsed)
    BY <1>1, MostIsMost
  <2>. HIDE DEF own, others
  <2>. QED BY <2>1, <2>2 DEF Unused
<1>4. Unused(others) \cap own = {}
  BY <1>1, MostIsMost DEF Unused
<1>5. IsFiniteSet(Unused(others)) /\ IsFiniteSet(Unused(left))
  BY WeightBounded
<1>. HIDE DEF own, others
<1>6. Cardinality(Unused(left)) = Cardinality(Unused(others)) + Cardinality(own) - Cardinality(Unused(others) \cap own)
  BY <1>2, <1>3, <1>5, FS_Union
<1>7. Cardinality(Unused(others) \cap own) = 0
  BY <1>4, FS_EmptySet
<1>8. Cardinality(Unused(others)) \in Nat /\ Cardinality(own) \in Nat
  BY <1>2, <1>5, FS_CardinalityType
<1>. QED BY <1>2, <1>6, <1>7, <1>8 DEF Weight, others

LEMMA WeightMoves ==
  ASSUME NEW left \in [Thread -> 0 .. MostUsed], NEW t \in Thread, NEW n \in 0 .. MostUsed
  PROVE  Weight([left EXCEPT ![t] = n]) = Weight(left) - left[t] + n
<1>. DEFINE new == [left EXCEPT ![t] = n]
<1>1. new \in [Thread -> 0 .. MostUsed] /\ new[t] = n
  OBVIOUS
<1>2. [new EXCEPT ![t] = 0] = [left EXCEPT ![t] = 0]
  OBVIOUS
<1>3. Weight(new) = Weight([left EXCEPT ![t] = 0]) + n
  BY <1>1, <1>2, WeightSplits
<1>4. Weight(left) = Weight([left EXCEPT ![t] = 0]) + left[t]
  BY WeightSplits
<1>5. Weight([left EXCEPT ![t] = 0]) \in Nat /\ left[t] \in Nat /\ n \in Nat
  BY WeightBounded, MostIsMost
<1>. QED BY <1>3, <1>4, <1>5

(***************************************************************************)
(* The second invariant: what is counted and what the runs in flight can   *)
(* still use stay together within the budget and the slack, and so do the  *)
(* snapshots, from which a process may start again.                        *)
(***************************************************************************)

LeftOf(p, a) == [t \in Thread |-> IF p[t] = "idle" THEN 0 ELSE (MaxAttempts - a[t]) * Most]

Left == LeftOf(pc, attempt)

InHand == Weight(Left)

Within(k, more) ==
  /\ Lifetime # 0 => k.total + more <= Lifetime + Slack
  /\ Daily # 0 => k.daily + more <= Daily + Slack

SpendWithin ==
  /\ Within(tracker, InHand)
  /\ \A s \in {saved} \cup {snap[t] : t \in Thread} : s # NoState => Within(s, 0)

LEMMA LeftType ==
  ASSUME NEW p, NEW a \in [Thread -> 0 .. MaxAttempts]
  PROVE  LeftOf(p, a) \in [Thread -> 0 .. MostUsed]
<1>. SUFFICES ASSUME NEW t \in Thread
              PROVE  (MaxAttempts - a[t]) * Most \in 0 .. MostUsed /\ 0 \in 0 .. MostUsed
  BY DEF LeftOf
<1>1. ASSUME NEW m \in Nat, NEW k \in 0 .. m, NEW n \in Nat
      PROVE  (m - k) * n \in 0 .. m * n
  <2>1. k \in Nat /\ m - k \in Nat
    OBVIOUS
  <2>2. \A b, c \in Nat : b * n \in Nat /\ c * n \in Nat /\ (b + c) * n = b * n + c * n
    OBVIOUS
  <2>3. m * n = (m - k) * n + k * n
    <3>1. (m - k) + k = m
      OBVIOUS
    <3>. QED BY <2>1, <2>2, <3>1
  <2>. QED BY <2>1, <2>2, <2>3
<1>2. a[t] \in 0 .. MaxAttempts
  OBVIOUS
<1>. QED BY <1>1, <1>2, MostIsMost, BudgetAssumption DEF MostUsed

LEMMA InHandType == InHand \in Nat /\ InHand <= Slack /\ Slack \in Nat
  BY WeightBounded DEF InHand

(* A step of a thread that leaves it with less lets the sum go down by as    *)
(* much; an admission lets it go up, to no more than the slack.              *)
LEMMA InHandMoves ==
  ASSUME Books, Books', NEW t \in Thread,
         \A u \in Thread : u # t => pc'[u] = pc[u] /\ attempt'[u] = attempt[u]
  PROVE  InHand' = InHand - Left[t] + Left'[t]
<1>1. Left \in [Thread -> 0 .. MostUsed] /\ Left' \in [Thread -> 0 .. MostUsed]
  <2>1. /\ attempt \in [Thread -> 0 .. MaxAttempts]
        /\ attempt' \in [Thread -> 0 .. MaxAttempts]
    BY DEF Books, TypeOK
  <2>2. Left' = LeftOf(pc', attempt')
    BY DEF Left, LeftOf, Most
  <2>. QED BY <2>1, <2>2, LeftType DEF Left
<1>2. \A u \in Thread : u # t => Left'[u] = Left[u]
  BY DEF Left, LeftOf, Most
<1>3. Left' = [Left EXCEPT ![t] = Left'[t]]
  BY <1>1, <1>2
<1>4. Left'[t] \in 0 .. MostUsed
  BY <1>1
<1>5. Weight([Left EXCEPT ![t] = Left'[t]]) = Weight(Left) - Left[t] + Left'[t]
  BY <1>1, <1>4, WeightMoves
<1>6. InHand' = Weight(Left')
  BY DEF InHand, Weight, Unused, MostUsed, Most
<1>. QED BY <1>3, <1>5, <1>6 DEF InHand

LEMMA InitWithin == Init => SpendWithin
<1>. SUFFICES ASSUME Init PROVE SpendWithin
  OBVIOUS
<1>1. Left = [t \in Thread |-> 0]
  BY DEF Init, Left, LeftOf
<1>2. InHand = 0
  BY <1>1, WeightOfNone DEF InHand
<1>3. tracker.total = 0 /\ tracker.daily = 0
  BY DEF Init, NewTracker
<1>4. saved = NoState /\ \A t \in Thread : snap[t] = NoState
  BY DEF Init
<1>. QED BY <1>2, <1>3, <1>4, InHandType, BudgetAssumption DEF SpendWithin, Within

LEMMA NextWithin == Books /\ Books' /\ SpendWithin /\ [Next]_vars => SpendWithin'
<1>. SUFFICES ASSUME Books, Books', SpendWithin, [Next]_vars PROVE SpendWithin'
  OBVIOUS
<1>. USE DEF locals, history
<1>a. TypeOK /\ TypeOK' /\ AttemptLeft /\ tracker \in Tracker /\ tracker' \in Tracker
  BY DEF Books, TypeOK
<1>b. /\ tracker.total \in Int /\ tracker.daily \in Int
      /\ tracker'.total \in Int /\ tracker'.daily \in Int
  BY <1>a DEF Tracker
<1>c. /\ InHand \in Nat /\ InHand <= Slack /\ Slack \in Nat
      /\ InHand' \in Nat /\ InHand' <= Slack
  <2>1. InHand' = Weight(Left')
    BY DEF InHand, Weight, Unused, MostUsed, Most
  <2>. QED BY <2>1, WeightBounded, InHandType
<1>d. Lifetime \in Nat /\ Daily \in Nat /\ MaxAttempts \in Nat
  BY BudgetAssumption
<1>e. /\ Within(tracker, InHand)
      /\ saved # NoState => Within(saved, 0)
      /\ \A t \in Thread : snap[t] # NoState => Within(snap[t], 0)
  BY DEF SpendWithin
<1>f. ASSUME /\ Within(tracker', InHand')
             /\ saved' # NoState => Within(saved', 0)
             /\ \A t \in Thread : snap'[t] # NoState => Within(snap'[t], 0)
      PROVE  SpendWithin'
  BY <1>f DEF SpendWithin, Within, Slack, MostUsed, Most
<1>g. \A t \in Thread : /\ Left[t] \in Nat /\ Left'[t] \in Nat
                        /\ Left[t] = IF pc[t] = "idle" THEN 0 ELSE (MaxAttempts - attempt[t]) * Most
                        /\ Left'[t] = IF pc'[t] = "idle" THEN 0 ELSE (MaxAttempts - attempt'[t]) * Most
  <2>1. Left' = LeftOf(pc', attempt')
    BY DEF Left, LeftOf, Most
  <2>2. Left \in [Thread -> 0 .. MostUsed] /\ Left' \in [Thread -> 0 .. MostUsed]
    BY <1>a, <2>1, LeftType DEF Left, TypeOK
  <2>3. ASSUME NEW t \in Thread
        PROVE  /\ Left[t] = IF pc[t] = "idle" THEN 0 ELSE (MaxAttempts - attempt[t]) * Most
               /\ Left'[t] = IF pc'[t] = "idle" THEN 0 ELSE (MaxAttempts - attempt'[t]) * Most
    BY DEF Left, LeftOf, Most
  <2>. QED BY <2>2, <2>3, MostIsMost
(* The snapshots stay as they were, the tracker is replaced. *)
<1>1. ASSUME NEW t \in Thread, Check(t) PROVE SpendWithin'
  <2>. DEFINE k == Resets(tracker)
  <2>1. /\ k \in Tracker /\ k.total = tracker.total
        /\ k.daily = IF Today > tracker.resetDay THEN 0 ELSE tracker.daily
    BY <1>a, ResetsKeep
  <2>2. tracker' = IF Refuses(k) THEN k ELSE Reserve(k)
    BY <1>1 DEF Check
  <2>. HIDE DEF k
  <2>3. Within(tracker', InHand')
    <3>1. CASE Refuses(k)
      <4>1. InHand' = InHand
        <5>1. pc' = pc /\ attempt' = attempt
          BY <1>1, <1>a, <3>1 DEF Check, TypeOK, k
        <5>. QED BY <5>1 DEF InHand, Weight, Unused, MostUsed, Most, Left, LeftOf
      <4>. QED BY <1>b, <1>c, <1>d, <1>e, <2>1, <2>2, <3>1, <4>1 DEF Within
    <3>2. CASE ~Refuses(k)
      <4>1. tracker'.total = k.total + 1 /\ tracker'.daily = k.daily + 1
        BY <2>1, <2>2, <3>2, ReserveCounts
      <4>2. k.total \in Int /\ k.daily \in Int
        BY <2>1 DEF Tracker
      <4>3. (Lifetime # 0 => k.total < Lifetime) /\ (Daily # 0 => k.daily < Daily)
        BY <1>d, <3>2, <4>2 DEF Refuses, Exhausted
      <4>. QED BY <1>b, <1>c, <1>d, <4>1, <4>2, <4>3 DEF Within
    <3>. QED BY <3>1, <3>2
  <2>4. saved' = saved /\ snap' = snap
    BY <1>1 DEF Check
  <2>. QED BY <1>e, <1>f, <2>3, <2>4
<1>2. ASSUME NEW t \in Thread, RecordUsage(t) PROVE SpendWithin'
  <2>1. PICK x \in Use : tracker' = Usage(tracker, x)
    BY <1>2 DEF RecordUsage
  <2>2. x \in Nat /\ x <= Most /\ Most \in Nat
    BY MostIsMost, BudgetAssumption
  <2>3. /\ tracker'.total = tracker.total + x + (tracker'.pending - tracker.pending)
        /\ tracker'.daily = tracker.daily + x + (tracker'.pending - tracker.pending)
    BY <1>a, <2>1, <2>2, UsageCounts
  <2>4. tracker'.pending \in Nat /\ tracker.pending \in Nat /\ tracker'.pending <= tracker.pending
    <3>1. tracker'.pending <= tracker.pending
      BY <1>a, <2>1, <2>2, UsageGivesBack
    <3>. QED BY <1>a, <3>1 DEF Tracker
  <2>5. Left'[t] = Left[t] - Most
    <3>1. pc[t] = "run" /\ pc'[t] = "snapshot" /\ attempt'[t] = attempt[t] + 1
      BY <1>2, <1>a DEF RecordUsage, TypeOK
    <3>2. attempt[t] \in 0 .. MaxAttempts /\ attempt[t] < MaxAttempts
      BY <1>a, <3>1 DEF TypeOK, AttemptLeft
    <3>3. \A n \in Nat, a \in Nat : a < MaxAttempts => (MaxAttempts - (a + 1)) * n = (MaxAttempts - a) * n - n
      BY <1>d
    <3>. QED BY <1>g, <2>2, <3>1, <3>2, <3>3
  <2>6. InHand' = InHand - Left[t] + Left'[t]
    BY <1>2, <1>a, InHandMoves DEF RecordUsage, TypeOK
  <2>7. Within(tracker', InHand')
    BY <1>b, <1>c, <1>d, <1>e, <1>g, <2>2, <2>3, <2>4, <2>5, <2>6 DEF Within
  <2>8. saved' = saved /\ snap' = snap
    BY <1>2 DEF RecordUsage
  <2>. QED BY <1>e, <1>f, <2>7, <2>8
<1>3. ASSUME NEW t \in Thread, RunRaises(t) PROVE SpendWithin'
  <2>1. pc'[t] = "idle" /\ UNCHANGED <<tracker, saved, snap>>
    BY <1>3, <1>a DEF RunRaises, TypeOK
  <2>2. InHand' = InHand - Left[t] + Left'[t]
    BY <1>3, <1>a, InHandMoves DEF RunRaises, TypeOK
  <2>3. Left'[t] = 0 /\ Left[t] \in Nat
    BY <1>g, <2>1
  <2>4. Within(tracker', InHand')
    BY <1>b, <1>c, <1>d, <1>e, <2>1, <2>2, <2>3 DEF Within
  <2>. QED BY <1>e, <1>f, <2>1, <2>4
<1>4. ASSUME NEW t \in Thread, TakeSnapshot(t) PROVE SpendWithin'
  <2>1. tracker' = tracker /\ saved' = saved /\ snap' = [snap EXCEPT ![t] = SnapshotOf(tracker)]
    BY <1>4 DEF TakeSnapshot
  <2>2. InHand' = InHand
    <3>1. Left' = Left
      BY <1>4, <1>a DEF TakeSnapshot, Left, LeftOf, TypeOK, Most
    <3>. QED BY <3>1 DEF InHand, Weight, Unused, MostUsed, Most
  <2>3. Within(tracker', InHand')
    BY <1>e, <2>1, <2>2
  <2>4. Within(SnapshotOf(tracker), 0)
    BY <1>b, <1>c, <1>d, <1>e DEF Within, SnapshotOf
  <2>5. \A u \in Thread : snap'[u] # NoState => Within(snap'[u], 0)
    BY <1>a, <1>e, <2>1, <2>4 DEF TypeOK
  <2>. QED BY <1>e, <1>f, <2>1, <2>3, <2>5
<1>5. ASSUME NEW t \in Thread, Save(t) PROVE SpendWithin'
  <2>1. tracker' = tracker /\ saved' = snap[t] /\ snap' = [snap EXCEPT ![t] = NoState]
    BY <1>5 DEF Save, NextAttempt
  <2>2. InHand' = InHand - Left[t] + Left'[t]
    BY <1>5, <1>a, InHandMoves DEF Save, NextAttempt, TypeOK
  <2>3. Left'[t] \in {0, Left[t]} /\ Left[t] \in Nat
    BY <1>5, <1>a, <1>g DEF Save, NextAttempt, TypeOK
  <2>4. Within(tracker', InHand')
    BY <1>b, <1>c, <1>d, <1>e, <2>1, <2>2, <2>3 DEF Within
  <2>5. \A u \in Thread : snap'[u] # NoState => Within(snap'[u], 0)
    BY <1>a, <1>e, <2>1 DEF TypeOK
  <2>. QED BY <1>e, <1>f, <2>1, <2>4, <2>5
<1>6. CASE Restart
  <2>1. tracker' = Restored /\ saved' = saved /\ snap' = [t \in Thread |-> NoState]
    BY <1>6 DEF Restart
  <2>2. InHand' = 0
    <3>1. Left' = [t \in Thread |-> 0]
      BY <1>6 DEF Restart, Left, LeftOf
    <3>. QED BY <3>1, WeightOfNone DEF InHand, Weight, Unused, MostUsed, Most
  <2>3. Within(tracker', 0)
    BY <1>a, <1>b, <1>c, <1>d, <1>e, <2>1, RestoredTracker DEF Within
  <2>. QED BY <1>e, <1>f, <2>1, <2>2, <2>3
<1>7. CASE ChangeZone \/ TimePasses \/ UNCHANGED vars
  <2>1. UNCHANGED <<tracker, saved, snap, pc, attempt>>
    BY <1>7 DEF ChangeZone, TimePasses, vars
  <2>2. InHand' = InHand
    BY <2>1 DEF InHand, Weight, Unused, MostUsed, Most, Left, LeftOf
  <2>. QED BY <1>e, <1>f, <2>1, <2>2
<1>. QED BY <1>1, <1>2, <1>3, <1>4, <1>5, <1>6, <1>7 DEF Next, ThreadStep

(***************************************************************************)
(* Theorems.                                                               *)
(***************************************************************************)

LEMMA BooksBalance == Spec => []Books
  BY InitBooks, NextBooks, PTL DEF Spec

(* The lifetime counter is exact up to the pending reservations, whatever    *)
(* the runs do and however often the process restarts.                       *)
THEOREM TotalIsConserved == Spec => []TotalConserved
  BY BooksBalance, PTL DEF Books

(* A run in flight over midnight is under-counted on the new day by its      *)
(* reservation and by no more.                                               *)
THEOREM DayIsConserved == Spec => []DayConserved
  BY BooksBalance, PTL DEF Books

LEMMA SpendIsWithin == Spec => []SpendWithin
  BY BooksBalance, InitWithin, NextWithin, PTL DEF Spec

(* However runs overlap, retry, raise and restart, spend passes a budget by  *)
(* no more than what the runs in flight may use, and a day's also by the     *)
(* reservations that were pending when the day was reset.                    *)
THEOREM OvershootIsBounded == Spec => []OvershootBounded
<1>1. Books /\ SpendWithin => OvershootBounded
  <2>. SUFFICES ASSUME Books, SpendWithin PROVE OvershootBounded
    OBVIOUS
  <2>1. /\ tracker.total \in Int /\ tracker.daily \in Int /\ tracker.pending \in Nat
        /\ accountedDay \in Int /\ openAtReset \in Nat
    BY DEF Books, TypeOK, Tracker
  <2>2. tracker.daily = accountedDay + (tracker.pending - openAtReset)
    BY <2>1 DEF Books, DayConserved, Reservation
  <2>3. Within(tracker, InHand) /\ Lifetime \in Nat /\ Daily \in Nat
    BY BudgetAssumption DEF SpendWithin
  <2>4. openAtReset * Reservation = openAtReset
    BY <2>1 DEF Reservation
  <2>. QED BY <2>1, <2>2, <2>3, <2>4, InHandType DEF OvershootBounded, Within
<1>. QED BY <1>1, BooksBalance, SpendIsWithin, PTL

THEOREM BudgetTypeCorrect == Spec => []TypeOK
  BY BooksBalance, PTL DEF Books
=============================================================================
