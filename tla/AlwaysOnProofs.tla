--------------------------- MODULE AlwaysOnProofs ---------------------------
(***************************************************************************)
(* Proofs about AlwaysOn, for any managers, readers, pids, births and      *)
(* generations.                                                            *)
(***************************************************************************)
EXTENDS AlwaysOn, TLAPS

USE AlwaysOnAssumption, IdentityAssumption, StateAssumption DEF Birth, Gen, Starts, Stops

(***************************************************************************)
(* The invariant.                                                          *)
(***************************************************************************)

(* A state, wherever there is a copy of it, names a daemon or nothing.     *)
Known(state) ==
  state # NoState =>
    /\ IsRunning(state) => state.process # NoProc
    /\ state.process # NoProc => state.process.born \in daemons

Child(m) == {p \in Pid : job[m].child = [pid |-> p, born |-> table[p]]}

(* What the holder of the lock knows.  Its copy of the state is the one on *)
(* disk but for a repair, which leaves no running state behind; from where *)
(* it has seen the daemon dead on, there is none but the one it starts.    *)
Work(m) == job[m] # Idle =>
  /\ lock = m
  /\ Known(job[m].state)
  /\ job[m].child # NoProc => job[m].child.born \in daemons
  /\ job[m].at = "launched" => job[m].child # NoProc
  /\ job[m].state # NoState => disk # NoState /\ (adrift \/ disk.generation = job[m].state.generation)
  /\ job[m].at \in {"ready", "launched", "stopping", "killing", "halted", "ticking"}
       \/ job[m].op \in {"run", "restart"} => job[m].state # NoState
  /\ job[m].at = "purging" => adrift /\ job[m].op = "purge"
  /\ job[m].at \in {"stopping", "killing"} => IsRunning(job[m].state)
  /\ job[m].at \in {"loaded", "stopping", "killing"} => disk = job[m].state \/ ~IsRunning(disk)
  /\ job[m].at = "launched" => Kept \subseteq Child(m)
  /\ job[m].at \in {"closed", "ready", "halted", "ticking", "purging"}
       \/ (job[m].at = "loaded" /\ job[m].op = "restart") => Kept = {}

Works == \A m \in Manager : Work(m)
Seen == \A r \in Reader : Known(seen[r])

Sound == Works /\ Seen /\ Known(disk) /\ NeverSignalsStranger /\ DaemonAccounted /\ RolePresent

(***************************************************************************)
(* Small facts.                                                            *)
(***************************************************************************)

Others(m) == \A q \in Manager \ {m} : job'[q] = job[q]

LEMMA OneBecomes ==
  ASSUME TypeOK, NEW m \in Manager, NEW work \in Job \cup {Idle}, Becomes(m, work)
  PROVE  job' \in [Manager -> Job \cup {Idle}] /\ job'[m] = work /\ Others(m)
BY DEF TypeOK, Becomes, Others

LEMMA LeaveEffect ==
  ASSUME TypeOK, NEW m \in Manager, Leave(m)
  PROVE  job' \in [Manager -> Job \cup {Idle}] /\ job'[m] = Idle /\ Others(m) /\ lock' = Nobody
BY OneBecomes DEF Leave

LEMMA JobFacts ==
  ASSUME NEW work \in Job \cup {Idle}
  PROVE  /\ work # Idle <=> work.at # "idle"
         /\ work # Idle => work \in Job
         /\ work.at \in At => work \in Job
         /\ work.op \in Starts \cup Stops => work \in Job
BY DEF Job, Idle, At

LEMMA GoEffect ==
  ASSUME TypeOK, NEW m \in Manager, job[m] \in Job, NEW at \in At, Becomes(m, [job[m] EXCEPT !.at = at])
  PROVE  /\ job' \in [Manager -> Job \cup {Idle}] /\ Others(m)
         /\ job'[m] # Idle /\ job'[m].at = at /\ job'[m].op = job[m].op
         /\ job'[m].state = job[m].state /\ job'[m].child = job[m].child
<1>. DEFINE y == [job[m] EXCEPT !.at = at]
<1>1. y \in Job /\ y.at = at /\ y.op = job[m].op /\ y.state = job[m].state /\ y.child = job[m].child
  BY DEF Job
<1>2. Becomes(m, y)
  OBVIOUS
<1>. HIDE DEF y
<1>3. y # Idle
  BY <1>1 DEF Idle, At
<1>4. job' \in [Manager -> Job \cup {Idle}] /\ job'[m] = y /\ Others(m)
  BY <1>1, <1>2, OneBecomes
<1>. QED BY <1>1, <1>3, <1>4

LEMMA StateEffect ==
  ASSUME TypeOK, NEW m \in Manager, job[m] \in Job, NEW at \in At, NEW state \in ServiceState \cup {NoState},
         Becomes(m, [job[m] EXCEPT !.at = at, !.state = state])
  PROVE  /\ job' \in [Manager -> Job \cup {Idle}] /\ Others(m) /\ job'[m] # Idle
         /\ job'[m].at = at /\ job'[m].op = job[m].op /\ job'[m].state = state /\ job'[m].child = job[m].child
<1>. DEFINE y == [job[m] EXCEPT !.at = at, !.state = state]
<1>1. /\ y \in Job
      /\ y.at = at /\ y.op = job[m].op /\ y.state = state /\ y.child = job[m].child
  BY DEF Job
<1>2. Becomes(m, y)
  OBVIOUS
<1>. HIDE DEF y
<1>3. y # Idle
  BY <1>1 DEF Idle, At
<1>4. job' \in [Manager -> Job \cup {Idle}] /\ job'[m] = y /\ Others(m)
  BY <1>1, <1>2, OneBecomes
<1>. QED BY <1>1, <1>3, <1>4

LEMMA OpEffect ==
  ASSUME TypeOK, NEW m \in Manager, job[m] \in Job, NEW at \in At, NEW op \in Starts \cup Stops,
         Becomes(m, [job[m] EXCEPT !.at = at, !.op = op])
  PROVE  /\ job' \in [Manager -> Job \cup {Idle}] /\ Others(m) /\ job'[m] # Idle
         /\ job'[m].at = at /\ job'[m].op = op /\ job'[m].state = job[m].state /\ job'[m].child = job[m].child
<1>. DEFINE y == [job[m] EXCEPT !.at = at, !.op = op]
<1>1. /\ y \in Job
      /\ y.at = at /\ y.op = op /\ y.state = job[m].state /\ y.child = job[m].child
  BY DEF Job
<1>2. Becomes(m, y)
  OBVIOUS
<1>. HIDE DEF y
<1>3. y # Idle
  BY <1>1 DEF Idle, At
<1>4. job' \in [Manager -> Job \cup {Idle}] /\ job'[m] = y /\ Others(m)
  BY <1>1, <1>2, OneBecomes
<1>. QED BY <1>1, <1>3, <1>4

LEMMA ChildEffect ==
  ASSUME TypeOK, NEW m \in Manager, job[m] \in Job, NEW at \in At, NEW child \in ProcessIdentity,
         Becomes(m, [job[m] EXCEPT !.at = at, !.child = child])
  PROVE  /\ job' \in [Manager -> Job \cup {Idle}] /\ Others(m) /\ job'[m] # Idle
         /\ job'[m].at = at /\ job'[m].op = job[m].op /\ job'[m].state = job[m].state /\ job'[m].child = child
<1>. DEFINE y == [job[m] EXCEPT !.at = at, !.child = child]
<1>1. /\ y \in Job
      /\ y.at = at /\ y.op = job[m].op /\ y.state = job[m].state /\ y.child = child
  BY DEF Job
<1>2. Becomes(m, y)
  OBVIOUS
<1>. HIDE DEF y
<1>3. y # Idle
  BY <1>1 DEF Idle, At
<1>4. job' \in [Manager -> Job \cup {Idle}] /\ job'[m] = y /\ Others(m)
  BY <1>1, <1>2, OneBecomes
<1>. QED BY <1>1, <1>3, <1>4

LEMMA StoppedFacts ==
  ASSUME NEW state \in ServiceState
  PROVE  /\ Stopped(state) \in ServiceState /\ Stopped(state) # NoState
         /\ Stopped(state).generation = state.generation /\ ~IsRunning(Stopped(state)) /\ Known(Stopped(state))
BY DEF Stopped, ServiceState, IsRunning, Known

(* The holder of the lock is the one manager at work.                      *)
LEMMA Alone ==
  ASSUME TypeOK, Sound, NEW m \in Manager, job[m] # Idle
  PROVE  lock = m /\ \A q \in Manager : q # m => job[q] = Idle
BY DEF Sound, Works, Work

(* A process that is kept is no dead one.                                  *)
LEMMA KeptFacts ==
  ASSUME TypeOK, NEW p \in Kept
  PROVE  /\ p \in Pid /\ table[p] \in daemons /\ table[p] # 0 /\ table[p] \in Birth
         /\ table[p] \notin loose /\ table[p] \notin overwritten
         /\ \A id \in ProcessIdentity : id = [pid |-> p, born |-> table[p]] => "dead" \notin Observations(id)
<1>1. p \in Pid /\ table[p] \in daemons /\ table[p] # 0 /\ table[p] \in Birth /\ table[p] \notin loose \cup overwritten
  BY DEF Kept, Live, TypeOK
<1>2. ASSUME NEW id \in ProcessIdentity, id = [pid |-> p, born |-> table[p]] PROVE "dead" \notin Observations(id)
  <2>1. id.pid = p /\ id.born = table[p]
    BY <1>2
  <2>. QED BY <1>1, <2>1 DEF Observations, Matches
<1>. QED BY <1>1, <1>2

(* Nothing is kept that was not.                                           *)
LEMMA KeptShrinks ==
  ASSUME TypeOK, UNCHANGED processes, loose \subseteq loose', overwritten \subseteq overwritten'
  PROVE  Kept' \subseteq Kept
BY DEF Kept, Live, processes

(* Without a child in hand, what is kept is on record.                     *)
LEMMA KeptRecorded ==
  ASSUME TypeOK, Sound, NEW m \in Manager, job[m] # Idle, job[m].at # "launched", NEW p \in Kept
  PROVE  Recorded(p)
<1>1. \A q \in Manager : job[q].at # "launched"
  BY Alone DEF Idle
<1>. QED BY <1>1 DEF Sound, DaemonAccounted, InHand

(* Once the recorded process is found dead, or let go of, nothing is kept. *)
LEMMA NoneKept ==
  ASSUME TypeOK, Sound, NEW m \in Manager, job[m] # Idle, job[m].at # "launched",
         disk = job[m].state \/ ~IsRunning(disk),
         IsRunning(job[m].state) =>
           "dead" \in Observations(job[m].state.process) \/ job[m].state.process.born \in loose
  PROVE  Kept = {}
<1>. SUFFICES ASSUME NEW p \in Kept PROVE FALSE
  OBVIOUS
<1>1. IsRunning(disk) /\ disk.process = [pid |-> p, born |-> table[p]]
  BY KeptRecorded DEF Recorded
<1>2. [pid |-> p, born |-> table[p]] \in ProcessIdentity
  BY KeptFacts DEF ProcessIdentity
<1>. QED BY <1>1, <1>2, KeptFacts

(***************************************************************************)
(* The steps of the holder.                                                *)
(***************************************************************************)

LEMMA JobType ==
  ASSUME TypeOK, NEW m \in Manager, job[m] # Idle
  PROVE  /\ job[m] \in Job /\ job[m].at \in At /\ job[m].op \in Starts \cup Stops
         /\ job[m].state \in ServiceState \cup {NoState} /\ job[m].child \in ProcessIdentity \cup {NoProc}
         /\ job[m].state # NoState => /\ job[m].state.process \in ProcessIdentity \cup {NoProc}
                                      /\ job[m].state.generation \in Gen
<1>1. job[m] \in Job
  BY DEF TypeOK
<1>. QED BY <1>1 DEF Job, ServiceState

(* A step of the holder: what it owes the invariant.                       *)
LEMMA HolderStep ==
  ASSUME TypeOK, Sound, NEW m \in Manager, job[m] # Idle,
         job' \in [Manager -> Job \cup {Idle}], Others(m), lock' \in Manager \cup {Nobody},
         disk' \in ServiceState \cup {NoState}, roles' \subseteq Gen, UNCHANGED <<processes, seen>>,
         signalled' \subseteq daemons, loose' \subseteq daemons, overwritten' = overwritten, adrift' \in BOOLEAN,
         Known(disk)', Work(m)', DaemonAccounted', RolePresent'
  PROVE  TypeOK' /\ Sound'
<1>1. TypeOK'
  BY DEF TypeOK, processes
<1>2. \A q \in Manager : q # m => job'[q] = Idle
  BY Alone DEF Others
<1>3. Works'
  BY <1>2 DEF Works, Work
<1>4. Seen'
  BY DEF Sound, Seen, Known, IsRunning, processes
<1>. QED BY <1>1, <1>3, <1>4 DEF Sound, NeverSignalsStranger, processes

(* The holder leaves.                                                      *)
LEMMA LeaveStep ==
  ASSUME TypeOK, Sound, NEW m \in Manager, job[m] # Idle, Leave(m),
         disk' \in ServiceState \cup {NoState}, roles' \subseteq Gen, UNCHANGED <<processes, seen>>,
         signalled' \subseteq daemons, loose' \subseteq daemons, overwritten' = overwritten, adrift' \in BOOLEAN,
         Known(disk)', DaemonAccounted', RolePresent'
  PROVE  TypeOK' /\ Sound'
<1>1. job' \in [Manager -> Job \cup {Idle}] /\ job'[m] = Idle /\ Others(m) /\ lock' \in Manager \cup {Nobody}
  BY LeaveEffect
<1>2. Work(m)'
  BY <1>1 DEF Work
<1>. QED BY <1>1, <1>2, HolderStep

(* The files stay, and so does the record of what is kept.                 *)
LEMMA FilesKept ==
  ASSUME TypeOK, Sound, NEW m \in Manager, job[m] # Idle,
         UNCHANGED <<files, processes>>, loose \subseteq loose', overwritten' = overwritten, adrift' = adrift,
         job[m].at # "launched" \/ Kept' = {}
  PROVE  Known(disk)' /\ DaemonAccounted' /\ RolePresent' /\ disk' \in ServiceState \cup {NoState} /\ roles' \subseteq Gen
<1>1. Known(disk)' /\ RolePresent' /\ disk' \in ServiceState \cup {NoState} /\ roles' \subseteq Gen
  BY DEF Sound, Known, IsRunning, RolePresent, files, processes, TypeOK
<1>2. DaemonAccounted'
  <2>. SUFFICES ASSUME NEW p \in Kept' PROVE Recorded(p)'
    BY DEF DaemonAccounted
  <2>1. job[m].at # "launched" /\ p \in Kept
    BY KeptShrinks
  <2>2. Recorded(p)
    BY <2>1, KeptRecorded
  <2>. QED BY <2>2 DEF Recorded, IsRunning, files, processes
<1>. QED BY <1>1, <1>2

(* With nothing kept, the file may say that nothing runs.                  *)
LEMMA WritesStopped ==
  ASSUME TypeOK, Sound, NEW m \in Manager, job[m] # Idle, NEW state \in ServiceState,
         Kept' = {}, disk' = Stopped(state), UNCHANGED <<roles, processes>>, adrift' = adrift,
         adrift \/ (disk # NoState /\ disk.generation = state.generation)
  PROVE  /\ Known(disk)' /\ DaemonAccounted' /\ RolePresent' /\ disk' \in ServiceState /\ roles' \subseteq Gen
         /\ ~IsRunning(disk') /\ disk' # NoState /\ disk'.generation = state.generation
<1>1. disk' \in ServiceState /\ ~IsRunning(disk') /\ disk' # NoState /\ disk'.generation = state.generation
  BY StoppedFacts
<1>2. Known(disk)'
  BY <1>1 DEF Known, Stopped, ServiceState
<1>3. DaemonAccounted' /\ roles' \subseteq Gen
  BY DEF DaemonAccounted, TypeOK
<1>4. RolePresent'
  BY <1>1 DEF Sound, RolePresent
<1>. QED BY <1>1, <1>2, <1>3, <1>4

(* A command that fails.                                                   *)
LEMMA FailStep ==
  ASSUME TypeOK, Sound, NEW m \in Manager, job[m] # Idle, Fail(m), UNCHANGED <<processes, seen>>,
         signalled' \subseteq daemons, loose \subseteq loose', loose' \subseteq daemons,
         overwritten' = overwritten, adrift' = adrift,
         job[m].at # "launched" \/ Kept' = {}, job[m].op = "restart" => Kept' = {}
  PROVE  TypeOK' /\ Sound'
<1>1. Leave(m) /\ adrift' \in BOOLEAN
  BY DEF Fail, TypeOK
<1>2. CASE job[m].op = "restart" /\ disk # NoState
  <2>1. disk' = Stopped(disk) /\ roles' = roles /\ disk \in ServiceState
    BY <1>2 DEF Fail, TypeOK
  <2>2. Known(disk)' /\ DaemonAccounted' /\ RolePresent' /\ disk' \in ServiceState /\ roles' \subseteq Gen
    BY <1>2, <2>1, WritesStopped
  <2>. QED BY <1>1, <2>2, LeaveStep
<1>3. CASE ~(job[m].op = "restart" /\ disk # NoState)
  <2>1. UNCHANGED <<files, processes>>
    BY <1>3 DEF Fail, files
  <2>. QED BY <1>1, <2>1, FilesKept, LeaveStep
<1>. QED BY <1>2, <1>3

LEMMA RefuseStep ==
  ASSUME TypeOK, Sound, NEW m \in Manager, Refuse(m) \/ FindsUnverifiable(m) \/ RoleMissing(m)
  PROVE  TypeOK' /\ Sound'
<1>1. /\ job[m].at \in {"loaded", "closed"} /\ Fail(m) /\ UNCHANGED <<processes, seen, history>>
  BY DEF Refuse, FindsUnverifiable, RoleMissing, Finds, Reuses
<1>2. job[m] # Idle
  BY <1>1 DEF Idle
<1>3. loose = loose' /\ overwritten' = overwritten /\ adrift' = adrift /\ signalled' \subseteq daemons /\ loose' \subseteq daemons
  BY <1>1 DEF history, Sound, NeverSignalsStranger, TypeOK
<1>4. job[m].op = "restart" => Kept' = {}
  <2>1. job[m].op = "restart" => Kept = {}
    BY <1>1, <1>2 DEF Sound, Works, Work
  <2>. QED BY <1>1, <1>3, <2>1, KeptShrinks
<1>. QED BY <1>1, <1>2, <1>3, <1>4, FailStep

LEMMA ChildStep ==
  ASSUME TypeOK, Sound, NEW m \in Manager, ExitedImmediately(m) \/ Unproven(m)
  PROVE  TypeOK' /\ Sound'
<1>1. job[m].at = "launched" /\ Fail(m) /\ UNCHANGED <<processes, seen, overwritten, adrift>>
  BY DEF ExitedImmediately, Unproven, history
<1>2. job[m] # Idle
  BY <1>1 DEF Idle
<1>3. job[m].child \in ProcessIdentity /\ job[m].child.born \in daemons /\ Kept \subseteq Child(m)
  BY <1>1, <1>2, JobType DEF Sound, Works, Work
<1>4. /\ signalled' \subseteq daemons /\ loose \subseteq loose' /\ loose' \subseteq daemons
  BY <1>3 DEF ExitedImmediately, Unproven, history, Sound, NeverSignalsStranger, TypeOK
<1>5. Kept' = {}
  <2>. SUFFICES ASSUME NEW p \in Kept' PROVE FALSE
    OBVIOUS
  <2>1. p \in Kept /\ p \notin {q \in Pid : table[q] \in loose'}
    <3>1. p \in Kept
      BY <1>1, <1>4, KeptShrinks
    <3>. QED BY <1>1, <3>1 DEF Kept, Live, processes
  <2>2. job[m].child = [pid |-> p, born |-> table[p]] /\ p \in Pid
    BY <1>3, <2>1 DEF Child
  <2>3. Matches(job[m].child) /\ job[m].child.born = table[p]
    BY <2>2 DEF Matches
  <2>. QED BY <2>1, <2>2, <2>3 DEF ExitedImmediately, Unproven
<1>. QED BY <1>1, <1>2, <1>4, <1>5, FailStep

LEMMA StartedStep ==
  ASSUME TypeOK, Sound, NEW m \in Manager, FindsStarted(m)
  PROVE  TypeOK' /\ Sound'
<1>1. /\ job[m].at = "loaded" /\ Leave(m) /\ UNCHANGED <<files, processes, seen, history>>
  BY DEF FindsStarted, Finds
<1>2. job[m] # Idle
  BY <1>1 DEF Idle
<1>3. /\ loose = loose' /\ overwritten' = overwritten /\ adrift' = adrift /\ signalled' \subseteq daemons
      /\ loose' \subseteq daemons /\ adrift' \in BOOLEAN
  BY <1>1 DEF history, Sound, NeverSignalsStranger, TypeOK
<1>. QED BY <1>1, <1>2, <1>3, FilesKept, LeaveStep

LEMMA CrashStep ==
  ASSUME TypeOK, Sound, NEW m \in Manager, Crash(m)
  PROVE  TypeOK' /\ Sound'
<1>1. /\ job[m] # Idle /\ Leave(m)
      /\ UNCHANGED <<disk, roles, table, births, daemons, seen, signalled, overwritten, adrift>>
      /\ loose' = IF job[m].at = "launched" THEN loose \cup {job[m].child.born} ELSE loose
  BY DEF Crash, files
<1>2. job[m].at = "launched" => job[m].child.born \in daemons /\ Kept \subseteq Child(m)
  BY <1>1 DEF Sound, Works, Work
<1>3. /\ job' \in [Manager -> Job \cup {Idle}] /\ lock' \in Manager \cup {Nobody}
      /\ \A q \in Manager : job'[q] = Idle
  BY <1>1, LeaveEffect, Alone DEF Others
<1>4. orphan' \in [Manager -> 0 .. births' + 1]
  BY <1>1 DEF Crash, TypeOK
<1>5. TypeOK' /\ loose \subseteq loose'
  BY <1>1, <1>2, <1>3, <1>4 DEF TypeOK
<1>6. \A p \in Kept' : p \in Kept /\ table[p] \notin loose'
  BY <1>1, <1>5 DEF Kept, Live
<1>7. DaemonAccounted'
  <2>. SUFFICES ASSUME NEW p \in Kept' PROVE Recorded(p)'
    BY DEF DaemonAccounted
  <2>1. job[m].at # "launched"
    <3>. SUFFICES ASSUME job[m].at = "launched" PROVE FALSE
      OBVIOUS
    <3>1. job[m].child = [pid |-> p, born |-> table[p]]
      BY <1>2, <1>6 DEF Child
    <3>2. job[m].child.born = table[p]
      BY <3>1
    <3>. QED BY <1>1, <1>6, <3>2
  <2>2. Recorded(p)
    BY <1>1, <1>6, <2>1, KeptRecorded
  <2>. QED BY <1>1, <2>2 DEF Recorded, IsRunning
<1>8. Works'
  BY <1>3 DEF Works, Work
<1>9. Known(disk)' /\ Seen' /\ NeverSignalsStranger' /\ RolePresent'
  BY <1>1 DEF Sound, Known, Seen, IsRunning, NeverSignalsStranger, RolePresent
<1>. QED BY <1>5, <1>7, <1>8, <1>9 DEF Sound

(* The holder goes on, the files as they were.                             *)
LEMMA GoStep ==
  ASSUME TypeOK, Sound, NEW m \in Manager, job[m] # Idle, NEW at \in At, Go(m, at),
         UNCHANGED <<files, processes, seen>>, signalled' \subseteq daemons, loose \subseteq loose', loose' \subseteq daemons,
         overwritten' = overwritten, adrift' = adrift,
         job[m].at \notin {"launched"}, at \notin {"launched", "loaded", "purging"},
         at # "closed" => job[m].state # NoState,
         at \in {"stopping", "killing"} => job[m].at \in {"loaded", "stopping"} /\ IsRunning(job[m].state),
         at \notin {"stopping", "killing"} => Kept' = {}
  PROVE  TypeOK' /\ Sound'
<1>1. /\ job' \in [Manager -> Job \cup {Idle}] /\ Others(m)
      /\ job'[m] # Idle /\ job'[m].at = at /\ job'[m].op = job[m].op
      /\ job'[m].state = job[m].state /\ job'[m].child = job[m].child
  BY JobType, GoEffect DEF Go
<1>2. lock' = lock /\ lock \in Manager \cup {Nobody} /\ adrift' \in BOOLEAN
  BY DEF Go, TypeOK
<1>3. Known(disk)' /\ DaemonAccounted' /\ RolePresent' /\ disk' \in ServiceState \cup {NoState} /\ roles' \subseteq Gen
  BY FilesKept
<1>4. Work(m)
  BY DEF Sound, Works
<1>5. Known(job[m].state)' /\ disk' = disk /\ daemons' = daemons
  BY <1>1, <1>4 DEF Work, Known, IsRunning, files, processes
<1>6. Work(m)'
  BY <1>1, <1>2, <1>4, <1>5 DEF Work
<1>. QED BY <1>1, <1>2, <1>3, <1>6, HolderStep

LEMMA SignalStep ==
  ASSUME TypeOK, Sound, NEW m \in Manager, Terminate(m) \/ Kill(m)
  PROVE  TypeOK' /\ Sound'
<1>1. /\ job[m].at \in {"loaded", "stopping"} /\ "running" \in Observations(job[m].state.process)
      /\ signalled' = signalled \cup {table[job[m].state.process.pid]}
      /\ \E at \in {"stopping", "killing"} : Go(m, at)
      /\ UNCHANGED <<files, processes, seen, loose, overwritten, adrift>>
  BY DEF Terminate, Kill, Finds
<1>2. job[m] # Idle
  BY <1>1 DEF Idle
<1>3. IsRunning(job[m].state) /\ Known(job[m].state) /\ job[m].state \in ServiceState
  BY <1>1, <1>2, JobType DEF Terminate, Kill, Finds, Sound, Works, Work, IsRunning
<1>4. /\ job[m].state.process # NoProc /\ Matches(job[m].state.process) /\ job[m].state.process.born \in daemons
  BY <1>1, <1>3 DEF Observations, Known
<1>5. /\ signalled' \subseteq daemons /\ loose' = loose /\ loose' \subseteq daemons /\ overwritten' = overwritten /\ adrift' = adrift
  BY <1>1, <1>4 DEF Matches, Sound, NeverSignalsStranger, TypeOK
<1>6. job[m].state # NoState
  BY <1>3
<1>7. PICK at \in {"stopping", "killing"} : Go(m, at)
  BY <1>1
<1>8. at \in At
  BY DEF At
<1>. QED BY <1>1, <1>2, <1>3, <1>5, <1>6, <1>7, <1>8, GoStep

LEMMA StoppedStep ==
  ASSUME TypeOK, Sound, NEW m \in Manager, FindsStopped(m) \/ Gone(m) \/ StopsWaiting(m)
  PROVE  TypeOK' /\ Sound'
<1>1. /\ job[m].at \in {"loaded", "stopping", "killing"} /\ UNCHANGED <<files, processes, seen, signalled, overwritten, adrift>>
      /\ \E at \in {"closed", "halted"} : Go(m, at) /\ (at = "halted" => job[m].at # "loaded")
      /\ loose \subseteq loose'
  BY DEF FindsStopped, Gone, StopsWaiting, history
<1>2. job[m] # Idle /\ (job[m].at \in {"stopping", "killing"} => IsRunning(job[m].state))
      /\ (disk = job[m].state \/ ~IsRunning(disk)) /\ Known(job[m].state)
  BY <1>1 DEF Idle, Sound, Works, Work
<1>3. loose' \subseteq daemons /\ signalled' \subseteq daemons
  <2>1. StopsWaiting(m) => job[m].state.process.born \in daemons
    BY <1>2 DEF StopsWaiting, Known, IsRunning
  <2>. QED BY <1>1, <2>1 DEF FindsStopped, Gone, StopsWaiting, history, TypeOK, Sound, NeverSignalsStranger
<1>4. Kept' = {}
  <2>1. CASE FindsStopped(m) \/ Gone(m)
    <3>1. job[m].at # "launched"
      BY <1>1
    <3>2. IsRunning(job[m].state) => "dead" \in Observations(job[m].state.process)
      BY <2>1 DEF FindsStopped, Gone
    <3>3. Kept = {}
      BY <1>2, <3>1, <3>2, NoneKept
    <3>. QED BY <1>1, <3>3, KeptShrinks
  <2>2. CASE StopsWaiting(m)
    <3>. SUFFICES ASSUME NEW p \in Kept' PROVE FALSE
      OBVIOUS
    <3>1. p \in Kept /\ table[p] \notin loose'
      <4>1. p \in Kept
        BY <1>1, KeptShrinks
      <4>. QED BY <1>1, <4>1 DEF Kept, Live, processes
    <3>2. Recorded(p)
      BY <1>1, <1>2, <3>1, KeptRecorded
    <3>3. job[m].state.process = [pid |-> p, born |-> table[p]]
      BY <1>2, <3>2 DEF Recorded
    <3>4. job[m].state.process.born = table[p]
      BY <3>3
    <3>. QED BY <2>2, <3>1, <3>4 DEF StopsWaiting
  <2>. QED BY <2>1, <2>2
<1>5. PICK at \in {"closed", "halted"} : Go(m, at) /\ (at = "halted" => job[m].at # "loaded")
  BY <1>1
<1>6. at \in At /\ at \notin {"launched", "loaded", "stopping", "killing", "purging"}
  BY DEF At
<1>7. at # "closed" => job[m].state # NoState
  BY <1>1, <1>2, <1>5 DEF IsRunning
<1>. QED BY <1>1, <1>2, <1>3, <1>4, <1>5, <1>6, <1>7, GoStep

(* The holder goes on with nothing kept.                                   *)
LEMMA StillStep ==
  ASSUME TypeOK, Sound, NEW m \in Manager, job[m] # Idle, Kept = {},
         NEW at \in {"loaded", "closed", "ready", "ticking"}, NEW op \in Starts \cup Stops, NEW state \in ServiceState,
         job' \in [Manager -> Job \cup {Idle}], Others(m), job'[m] # Idle, job'[m].at = at, job'[m].op = op,
         job'[m].state = state, job'[m].child = job[m].child,
         lock' = lock, UNCHANGED <<processes, seen, signalled, loose, overwritten>>, adrift' \in BOOLEAN,
         disk' \in ServiceState, roles' \subseteq Gen, Known(disk)', RolePresent',
         state.process = NoProc \/ state = job[m].state \/ state = disk',
         ~IsRunning(state) \/ Known(state),
         adrift' \/ disk'.generation = state.generation, at = "loaded" => disk' = state
  PROVE  TypeOK' /\ Sound'
<1>2. Kept' = {} /\ DaemonAccounted'
  BY KeptShrinks DEF DaemonAccounted
<1>3. lock = m /\ Work(m)
  BY Alone DEF Sound, Works
<1>4. daemons' = daemons /\ disk' # NoState /\ state # NoState
  BY DEF processes
<1>5. Known(job[m].state)'
  <2>1. state.process # NoProc => state.process.born \in daemons
    <3>1. state = job[m].state => (state.process # NoProc => state.process.born \in daemons)
      BY <1>3, <1>4 DEF Work, Known
    <3>2. state = disk' => (state.process # NoProc => state.process.born \in daemons)
      BY <1>4 DEF Known
    <3>. QED BY <3>1, <3>2
  <2>2. IsRunning(state) => state.process # NoProc
    BY <1>4 DEF Known
  <2>. QED BY <1>4, <2>1, <2>2 DEF Known, IsRunning
<1>6. Work(m)'
  BY <1>2, <1>3, <1>4, <1>5 DEF Work
<1>7. signalled' \subseteq daemons /\ loose' \subseteq daemons /\ lock' \in Manager \cup {Nobody} /\ overwritten' = overwritten
  BY DEF Sound, NeverSignalsStranger, TypeOK
<1>. QED BY <1>2, <1>6, <1>7, HolderStep

LEMMA DeadStep ==
  ASSUME TypeOK, Sound, NEW m \in Manager, FindsDead(m)
  PROVE  TypeOK' /\ Sound'
<1>1. /\ job[m].at = "loaded" /\ IsRunning(job[m].state) /\ "dead" \in Observations(job[m].state.process)
      /\ disk' = Stopped(job[m].state) /\ Becomes(m, [job[m] EXCEPT !.at = "closed", !.state = Stopped(job[m].state)])
      /\ lock' = lock /\ UNCHANGED <<roles, processes, seen, signalled, loose, overwritten>> /\ adrift' = adrift
  BY DEF FindsDead, Finds, history
<1>2. job[m] # Idle /\ job[m].state \in ServiceState
  BY <1>1, JobType DEF Idle, IsRunning
<1>3. /\ disk = job[m].state \/ ~IsRunning(disk)
      /\ adrift \/ (disk # NoState /\ disk.generation = job[m].state.generation)
  BY <1>1, <1>2 DEF Sound, Works, Work
<1>4. Kept = {} /\ Kept' = {}
  BY <1>1, <1>2, <1>3, NoneKept, KeptShrinks
<1>5. PICK state \in ServiceState : state = Stopped(job[m].state)
  BY <1>2, StoppedFacts
<1>6. state.process = NoProc /\ ~IsRunning(state) /\ disk' = state
  BY <1>1, <1>2, <1>5 DEF Stopped, IsRunning, ServiceState
<1>7. /\ Known(disk)' /\ RolePresent' /\ roles' \subseteq Gen
  BY <1>1, <1>2, <1>3, <1>4, WritesStopped
<1>10. state \in ServiceState \cup {NoState} /\ Becomes(m, [job[m] EXCEPT !.at = "closed", !.state = state])
  BY <1>1, <1>5
<1>8. /\ job' \in [Manager -> Job \cup {Idle}] /\ Others(m) /\ job'[m] # Idle
      /\ job'[m].at = "closed" /\ job'[m].op = job[m].op /\ job'[m].state = state /\ job'[m].child = job[m].child
  BY <1>2, <1>10, JobType, StateEffect DEF At
<1>9. adrift' \in BOOLEAN
  BY <1>1 DEF TypeOK
<1>. QED BY <1>1, <1>2, <1>4, <1>5, <1>6, <1>7, <1>8, <1>9, JobType, StillStep

LEMMA MaterializeStep ==
  ASSUME TypeOK, Sound, NEW m \in Manager, Materialize(m)
  PROVE  TypeOK' /\ Sound'
<1>1. PICK gen \in Nat : gen = NextGen(job[m].state) /\ gen \in Gen
  BY JobType DEF Materialize, NextGen, Idle
<1>. DEFINE fresh == [status |-> "stopped", process |-> NoProc, generation |-> gen]
<1>2. /\ job[m].at = "closed" /\ disk' = fresh /\ roles' = GcOldRoles(roles \cup {gen}, gen) /\ adrift' = FALSE
      /\ Becomes(m, [job[m] EXCEPT !.at = "ready", !.state = fresh])
      /\ lock' = lock /\ UNCHANGED <<processes, seen, signalled, loose, overwritten>>
  BY <1>1 DEF Materialize
<1>3. job[m] # Idle
  BY <1>2 DEF Idle
<1>4. Kept = {}
  BY <1>2, <1>3 DEF Sound, Works, Work
<1>5. fresh \in ServiceState /\ fresh.process = NoProc /\ fresh.generation = gen /\ ~IsRunning(fresh)
  BY <1>1 DEF ServiceState, IsRunning
<1>6. gen \in roles' /\ roles' \subseteq Gen
  BY <1>1, <1>2 DEF GcOldRoles, Newest, TypeOK
<1>7. PICK state \in ServiceState : state = fresh
  BY <1>5
<1>9. state.process = NoProc /\ ~IsRunning(state) /\ state.generation = gen /\ disk' = state
      /\ Becomes(m, [job[m] EXCEPT !.at = "ready", !.state = state])
  BY <1>2, <1>5, <1>7
<1>8. /\ job' \in [Manager -> Job \cup {Idle}] /\ Others(m) /\ job'[m] # Idle
      /\ job'[m].at = "ready" /\ job'[m].op = job[m].op /\ job'[m].state = state /\ job'[m].child = job[m].child
  BY <1>3, <1>9, JobType, StateEffect DEF At
<1>. HIDE DEF fresh
<1>10. Known(disk)' /\ RolePresent'
  BY <1>6, <1>9 DEF Known, IsRunning, RolePresent
<1>11. adrift' \in BOOLEAN /\ disk'.generation = state.generation
  BY <1>2, <1>9
<1>. QED BY <1>2, <1>3, <1>4, <1>6, <1>8, <1>9, <1>10, <1>11, JobType, StillStep

LEMMA TickStep ==
  ASSUME TypeOK, Sound, NEW m \in Manager, TickBegins(m)
  PROVE  TypeOK' /\ Sound'
<1>1. /\ job[m].at \in {"closed", "halted"} /\ job[m].op = "run"
      /\ lock' = lock /\ UNCHANGED <<roles, processes, seen, signalled, loose, overwritten>> /\ adrift' = adrift
  BY DEF TickBegins, IsStill, history
<1>2. job[m] # Idle
  BY <1>1 DEF Idle
<1>3. /\ Kept = {} /\ job[m].state # NoState /\ disk # NoState /\ Known(job[m].state)
      /\ adrift \/ disk.generation = job[m].state.generation
  BY <1>1, <1>2 DEF Sound, Works, Work
<1>4. Kept' = {} /\ adrift' \in BOOLEAN /\ disk \in ServiceState
  BY <1>1, <1>3, KeptShrinks DEF TypeOK
<1>5. PICK state \in ServiceState : state = job[m].state
  BY <1>2, <1>3, JobType
<1>6. PICK op \in {"run", "restart"} : Becomes(m, [job[m] EXCEPT !.at = "ticking", !.op = op])
        /\ (op = "restart" => disk' = Stopped(state)) /\ (op = "run" => disk' = disk)
  <2>1. CASE job[m].at = "halted"
    BY <1>5, <2>1 DEF TickBegins
  <2>2. CASE job[m].at # "halted"
    <3>1. [job[m] EXCEPT !.at = "ticking"] = [job[m] EXCEPT !.at = "ticking", !.op = "run"]
      BY <1>1, <1>2, JobType DEF Job
    <3>. QED BY <2>2, <3>1 DEF TickBegins
  <2>. QED BY <2>1, <2>2
<1>7. /\ job' \in [Manager -> Job \cup {Idle}] /\ Others(m) /\ job'[m] # Idle
      /\ job'[m].at = "ticking" /\ job'[m].op = op /\ job'[m].state = state /\ job'[m].child = job[m].child
  BY <1>2, <1>5, <1>6, JobType, OpEffect DEF At
<1>8. Known(disk)' /\ RolePresent' /\ disk' \in ServiceState /\ roles' \subseteq Gen /\ (adrift' \/ disk'.generation = state.generation)
  <2>1. CASE op = "restart"
    BY <1>1, <1>2, <1>3, <1>4, <1>5, <1>6, <2>1, WritesStopped
  <2>2. CASE op = "run"
    <3>1. UNCHANGED <<disk, roles, daemons, adrift>>
      BY <1>1, <1>6, <2>2 DEF processes
    <3>. QED BY <1>3, <1>4, <1>5, <3>1 DEF Sound, Known, IsRunning, RolePresent, TypeOK
  <2>. QED BY <2>1, <2>2
<1>. QED BY <1>1, <1>2, <1>3, <1>4, <1>5, <1>6, <1>7, <1>8, JobType, StillStep

LEMMA TickedStep ==
  ASSUME TypeOK, Sound, NEW m \in Manager, TickEnds(m)
  PROVE  TypeOK' /\ Sound'
<1>1. /\ job[m].at = "ticking" /\ UNCHANGED <<files, processes, seen, signalled, loose, overwritten, adrift>>
  BY DEF TickEnds, history
<1>2. job[m] # Idle
  BY <1>1 DEF Idle
<1>3. Kept = {} /\ disk \in ServiceState
  BY <1>1, <1>2 DEF Sound, Works, Work, TypeOK
<1>4. /\ signalled' \subseteq daemons /\ loose \subseteq loose' /\ loose' \subseteq daemons /\ adrift' \in BOOLEAN
      /\ overwritten' = overwritten /\ adrift' = adrift
  BY <1>1 DEF Sound, NeverSignalsStranger, TypeOK
<1>5. Known(disk)' /\ DaemonAccounted' /\ RolePresent' /\ disk' \in ServiceState \cup {NoState} /\ roles' \subseteq Gen
  BY <1>1, <1>2, <1>4, FilesKept
<1>6. CASE Leave(m)
  BY <1>1, <1>2, <1>4, <1>5, <1>6, LeaveStep
<1>7. CASE lock' = lock /\ Becomes(m, [job[m] EXCEPT !.at = "loaded", !.state = disk]) /\ job[m].op = "restart"
  <2>1. PICK state \in ServiceState : state = disk
    BY <1>3
  <2>2. /\ job' \in [Manager -> Job \cup {Idle}] /\ Others(m) /\ job'[m] # Idle
        /\ job'[m].at = "loaded" /\ job'[m].op = "restart" /\ job'[m].state = state /\ job'[m].child = job[m].child
    BY <1>2, <1>7, <2>1, JobType, StateEffect DEF At
  <2>3. disk' = state /\ (~IsRunning(state) \/ Known(state))
    BY <1>1, <2>1 DEF files, Sound
  <2>4. UNCHANGED <<processes, seen, signalled, loose, overwritten>>
    BY <1>1
  <2>. QED BY <1>2, <1>3, <1>4, <1>5, <1>7, <2>1, <2>2, <2>3, <2>4, JobType, StillStep
<1>. QED BY <1>6, <1>7 DEF TickEnds

LEMMA RecordStep ==
  ASSUME TypeOK, Sound, NEW m \in Manager, RecordStop(m)
  PROVE  TypeOK' /\ Sound'
<1>1. /\ job[m].at \in {"closed", "halted"} /\ Leave(m) /\ roles' = roles /\ adrift' = adrift
      /\ disk' = IF job[m].state = NoState THEN disk ELSE Stopped(job[m].state)
      /\ UNCHANGED <<processes, seen, signalled, loose, overwritten>>
  BY DEF RecordStop, IsStill, history
<1>2. job[m] # Idle
  BY <1>1 DEF Idle
<1>3. /\ Kept = {}
      /\ job[m].state # NoState => adrift \/ (disk # NoState /\ disk.generation = job[m].state.generation)
  BY <1>1, <1>2 DEF Sound, Works, Work
<1>4. /\ Kept' = {} /\ signalled' \subseteq daemons /\ loose' \subseteq daemons /\ overwritten' = overwritten
      /\ adrift' \in BOOLEAN
  BY <1>1, <1>3, KeptShrinks DEF Sound, NeverSignalsStranger, TypeOK
<1>5. Known(disk)' /\ DaemonAccounted' /\ RolePresent' /\ disk' \in ServiceState \cup {NoState} /\ roles' \subseteq Gen
  <2>1. CASE job[m].state = NoState
    <3>1. UNCHANGED <<files, processes>> /\ loose \subseteq loose' /\ overwritten' = overwritten /\ adrift' = adrift
      BY <1>1, <2>1 DEF files
    <3>. QED BY <1>1, <1>2, <3>1, FilesKept
  <2>2. CASE job[m].state # NoState
    <3>1. PICK state \in ServiceState : state = job[m].state
      BY <1>2, <2>2, JobType
    <3>2. disk' = Stopped(state) /\ (adrift \/ (disk # NoState /\ disk.generation = state.generation))
      BY <1>1, <1>3, <2>2, <3>1
    <3>. QED BY <1>1, <1>2, <1>4, <3>2, WritesStopped
  <2>. QED BY <2>1, <2>2
<1>. QED BY <1>1, <1>2, <1>4, <1>5, LeaveStep

(* The files go one by one: nothing is kept, and the state file is adrift. *)
LEMMA PurgeStep ==
  ASSUME TypeOK, Sound, NEW m \in Manager, Purge(m) \/ RemovesState(m) \/ \E gen \in Gen : RemovesRole(m, gen)
  PROVE  TypeOK' /\ Sound'
<1>1. /\ job[m].at \in {"closed", "halted", "purging"}
      /\ UNCHANGED <<lock, processes, seen, signalled, loose, overwritten>>
  BY DEF Purge, RemovesState, RemovesRole, IsStill, history, managers
<1>2. job[m] # Idle
  BY <1>1 DEF Idle
<1>3. /\ Kept = {} /\ lock = m /\ (job[m].at = "purging" => adrift /\ job[m].op = "purge")
      /\ (job[m].child # NoProc => job[m].child.born \in daemons)
      /\ job[m].state # NoState => disk # NoState
      /\ Known(job[m].state) /\ Known(disk) /\ job[m].op \in Starts \cup Stops
  BY <1>1, <1>2, JobType DEF Sound, Works, Work
<1>4. /\ Kept' = {} /\ signalled' \subseteq daemons /\ loose' \subseteq daemons /\ overwritten' = overwritten
      /\ daemons' = daemons /\ lock' = m /\ lock' \in Manager \cup {Nobody}
  BY <1>1, <1>3, KeptShrinks DEF Sound, NeverSignalsStranger, TypeOK, processes
<1>5. DaemonAccounted'
  BY <1>4 DEF DaemonAccounted
<1>6. ASSUME NEW state \in {disk, NoState}, Becomes(m, [job[m] EXCEPT !.at = "purging", !.state = state]),
             job[m].op = "purge", disk' = state, roles' = roles, adrift' = TRUE
      PROVE  TypeOK' /\ Sound'
  <2>1. state \in ServiceState \cup {NoState} /\ disk' \in ServiceState \cup {NoState} /\ roles' \subseteq Gen
    BY <1>6 DEF TypeOK
  <2>2. /\ job' \in [Manager -> Job \cup {Idle}] /\ Others(m) /\ job'[m] # Idle /\ job'[m].at = "purging"
        /\ job'[m].op = job[m].op /\ job'[m].state = state /\ job'[m].child = job[m].child
    BY <1>2, <1>6, <2>1, JobType, StateEffect DEF At
  <2>3. Known(disk)' /\ Known(job[m].state)'
    BY <1>3, <1>4, <1>6, <2>2 DEF Known, IsRunning
  <2>4. RolePresent'
    BY <1>6 DEF RolePresent
  <2>5. Work(m)'
    BY <1>3, <1>4, <1>6, <2>2, <2>3 DEF Work
  <2>. QED BY <1>1, <1>2, <1>4, <1>5, <1>6, <2>1, <2>2, <2>3, <2>4, <2>5, HolderStep
<1>7. CASE Purge(m)
  BY <1>6, <1>7 DEF Purge, files
<1>8. CASE RemovesState(m)
  <2>1. job[m].at = "purging" /\ adrift' = TRUE /\ roles' = roles /\ disk' = NoState
        /\ Becomes(m, [job[m] EXCEPT !.at = "purging", !.state = NoState])
    BY <1>3, <1>8 DEF RemovesState, history, TypeOK
  <2>. QED BY <1>3, <1>6, <2>1
<1>9. CASE \E gen \in Gen : RemovesRole(m, gen)
  <2>1. /\ job[m].at = "purging" /\ adrift' = adrift /\ adrift = TRUE /\ disk' = disk /\ job' = job /\ roles' \subseteq Gen
    BY <1>3, <1>9 DEF RemovesRole, history, managers, TypeOK
  <2>2. Known(disk)' /\ Known(job[m].state)' /\ RolePresent'
    BY <1>3, <1>4, <2>1 DEF Known, IsRunning, RolePresent
  <2>3. Work(m)'
    BY <1>2, <1>3, <1>4, <2>1, <2>2 DEF Work, Sound, Works
  <2>4. disk' \in ServiceState \cup {NoState} /\ job' \in [Manager -> Job \cup {Idle}] /\ Others(m) /\ adrift' \in BOOLEAN
    BY <2>1 DEF TypeOK, Others
  <2>. QED BY <1>1, <1>2, <1>4, <1>5, <2>1, <2>2, <2>3, <2>4, HolderStep
<1>. QED BY <1>7, <1>8, <1>9

LEMMA PurgedStep ==
  ASSUME TypeOK, Sound, NEW m \in Manager, Purged(m) \/ PurgeFails(m)
  PROVE  TypeOK' /\ Sound'
<1>1. /\ job[m].at = "purging" /\ Leave(m) /\ UNCHANGED <<files, processes, seen, signalled, loose, overwritten>>
      /\ adrift' = adrift \/ (disk = NoState /\ adrift' = FALSE)
  BY DEF Purged, PurgeFails, history
<1>2. job[m] # Idle
  BY <1>1 DEF Idle
<1>3. /\ Kept = {} /\ Known(disk)
  BY <1>1, <1>2 DEF Sound, Works, Work
<1>4. /\ Kept' = {} /\ signalled' \subseteq daemons /\ loose' \subseteq daemons /\ overwritten' = overwritten
      /\ adrift' \in BOOLEAN /\ disk' = disk /\ roles' = roles /\ daemons' = daemons
  BY <1>1, <1>3, KeptShrinks DEF Sound, NeverSignalsStranger, TypeOK, processes, files
<1>5. Known(disk)' /\ DaemonAccounted' /\ RolePresent' /\ disk' \in ServiceState \cup {NoState} /\ roles' \subseteq Gen
  BY <1>1, <1>3, <1>4 DEF Known, IsRunning, DaemonAccounted, RolePresent, Sound, TypeOK
<1>. QED BY <1>1, <1>2, <1>4, <1>5, LeaveStep

LEMMA ConfirmStep ==
  ASSUME TypeOK, Sound, NEW m \in Manager, Confirm(m)
  PROVE  TypeOK' /\ Sound'
<1>1. /\ job[m].at = "launched" /\ Leave(m) /\ UNCHANGED <<roles, processes, seen, signalled, loose, overwritten, adrift>>
      /\ disk' = [job[m].state EXCEPT !.status = "running", !.process = job[m].child]
  BY DEF Confirm, history
<1>2. job[m] # Idle
  BY <1>1 DEF Idle
<1>3. /\ job[m].state # NoState /\ job[m].child # NoProc /\ job[m].child.born \in daemons /\ Kept \subseteq Child(m)
      /\ disk # NoState /\ (adrift \/ disk.generation = job[m].state.generation)
  BY <1>1, <1>2 DEF Sound, Works, Work
<1>4. job[m].state \in ServiceState /\ job[m].child \in ProcessIdentity
  BY <1>2, <1>3, JobType
<1>5. /\ disk' \in ServiceState /\ disk'.status = "running" /\ disk'.process = job[m].child
      /\ disk'.generation = job[m].state.generation
  BY <1>1, <1>4 DEF ServiceState
<1>6. Known(disk)' /\ RolePresent'
  BY <1>1, <1>3, <1>5 DEF Known, RolePresent, Sound, processes
<1>7. DaemonAccounted'
  <2>. SUFFICES ASSUME NEW p \in Kept' PROVE Recorded(p)'
    BY DEF DaemonAccounted
  <2>1. p \in Kept
    BY <1>1, KeptShrinks
  <2>2. job[m].child = [pid |-> p, born |-> table[p]] /\ table' = table
    BY <1>1, <1>3, <2>1 DEF Child, processes
  <2>. QED BY <1>5, <2>2 DEF Recorded, IsRunning
<1>8. /\ signalled' \subseteq daemons /\ loose' \subseteq daemons /\ overwritten' = overwritten
      /\ roles' \subseteq Gen /\ adrift' \in BOOLEAN
  BY <1>1 DEF Sound, NeverSignalsStranger, TypeOK
<1>. QED BY <1>1, <1>2, <1>5, <1>6, <1>7, <1>8, LeaveStep

LEMMA LaunchStep ==
  ASSUME TypeOK, Sound, NEW m \in Manager, NEW p \in Pid, Launch(m, p)
  PROVE  TypeOK' /\ Sound'
<1>1. PICK b \in Birth : b = births + 1 /\ b \notin 1 .. births
  BY DEF Launch, TypeOK
<1>2. /\ births' = b /\ table' = [table EXCEPT ![p] = b] /\ daemons' = daemons \cup {b} /\ table[p] = 0
      /\ Becomes(m, [job[m] EXCEPT !.at = "launched", !.child = [pid |-> p, born |-> b]])
      /\ UNCHANGED <<disk, roles, lock, seen, signalled, loose, overwritten, adrift>>
      /\ job[m].at \in {"ready", "closed"}
  BY <1>1 DEF Launch, files, history, Reuses
<1>3. PICK child \in ProcessIdentity : child = [pid |-> p, born |-> b]
  BY DEF ProcessIdentity
<1>4. job[m] # Idle
  BY <1>2 DEF Idle
<1>5. /\ job' \in [Manager -> Job \cup {Idle}] /\ Others(m) /\ job'[m] # Idle
      /\ job'[m].at = "launched" /\ job'[m].op = job[m].op /\ job'[m].state = job[m].state /\ job'[m].child = child
  BY <1>2, <1>3, <1>4, JobType, ChildEffect, ZenonT(30) DEF At
<1>6. Kept = {} /\ lock = m /\ Work(m)
  BY <1>2, <1>4 DEF Sound, Works, Work
<1>7. TypeOK'
  <2>1. table' \in [Pid -> 0 .. births'] /\ births' \in Birth \cup {0}
    BY <1>1, <1>2 DEF TypeOK
  <2>2. daemons' \subseteq 1 .. births' /\ signalled' \subseteq 1 .. births' /\ loose' \subseteq daemons'
    BY <1>1, <1>2 DEF TypeOK
  <2>3. orphan' \in [Manager -> 0 .. births' + 1]
    BY <1>1, <1>2 DEF TypeOK, Launch
  <2>. QED BY <1>2, <1>5, <2>1, <2>2, <2>3 DEF TypeOK
<1>8. Kept' \subseteq {p}
  <2>. SUFFICES ASSUME NEW q \in Kept', q # p PROVE FALSE
    OBVIOUS
  <2>1. q \in Pid /\ table'[q] = table[q] /\ table[q] \in daemons' /\ table[q] \notin loose \cup overwritten
    BY <1>2 DEF Kept, Live, TypeOK
  <2>2. table[q] \in 0 .. births
    BY <2>1, <1>1, <1>2 DEF TypeOK
  <2>3. table[q] \in daemons
    BY <1>1, <1>2, <2>1, <2>2
  <2>. QED BY <1>6, <2>1, <2>3 DEF Kept, Live
<1>9. table'[p] = b
  BY <1>2 DEF TypeOK
<1>10. \A state \in ServiceState \cup {NoState} : Known(state) => Known(state)'
  BY <1>2 DEF Known, IsRunning
<1>11. Known(disk)' /\ Seen'
  BY <1>2, <1>10 DEF Sound, Seen, TypeOK
<1>12. DaemonAccounted'
  BY <1>2, <1>3, <1>5, <1>6, <1>8, <1>9 DEF DaemonAccounted, InHand
<1>13. Work(m)'
  <2>1. Known(job[m].state)'
    <3>1. PICK state \in ServiceState \cup {NoState} : state = job[m].state
      BY <1>4, JobType
    <3>2. Known(state)'
      BY <1>6, <1>4, <1>10, <3>1 DEF Work
    <3>. QED BY <1>5, <3>1, <3>2
  <2>2. job'[m].child # NoProc /\ job'[m].child.born \in daemons'
    BY <1>2, <1>3, <1>5
  <2>3. Kept' \subseteq Child(m)'
    BY <1>3, <1>5, <1>8, <1>9 DEF Child
  <2>4. job[m].state # NoState
    BY <1>2, <1>4, <1>6 DEF Work, Launch, Reuses
  <2>5. disk' # NoState /\ (adrift' \/ disk'.generation = job'[m].state.generation)
    BY <1>2, <1>4, <1>5, <1>6, <2>4 DEF Work
  <2>. QED BY <1>2, <1>5, <1>6, <2>1, <2>2, <2>3, <2>4, <2>5 DEF Work
<1>14. Works'
  <2>1. \A q \in Manager : q # m => job'[q] = Idle
    BY <1>4, <1>5, Alone DEF Others
  <2>. QED BY <1>13, <2>1 DEF Works, Work
<1>15. NeverSignalsStranger' /\ RolePresent'
  BY <1>2 DEF Sound, NeverSignalsStranger, RolePresent
<1>. QED BY <1>7, <1>11, <1>12, <1>14, <1>15 DEF Sound

LEMMA EnterStep ==
  ASSUME TypeOK, Sound, NEW m \in Manager, NEW op \in {"start", "configure"} \cup Stops, Enter(m, op)
  PROVE  TypeOK' /\ Sound'
<1>1. /\ lock = Nobody /\ lock' = m /\ UNCHANGED <<files, processes, seen, history>>
      /\ op = "run" => disk # NoState
  BY DEF Enter, MayBegin
<1>2. PICK work \in Job : work = [at |-> "loaded", op |-> op, state |-> disk, child |-> NoProc]
  BY DEF Job, At, TypeOK
<1>3. job' \in [Manager -> Job \cup {Idle}] /\ job'[m] = work /\ Others(m)
  BY <1>2, OneBecomes DEF Enter
<1>4. work.at = "loaded" /\ work.op = op /\ work.state = disk /\ work.child = NoProc /\ op # "restart"
  BY <1>2
<1>5. \A q \in Manager : job[q] = Idle
  BY <1>1 DEF Sound, Works, Work
<1>6. TypeOK'
  BY <1>1, <1>3 DEF TypeOK, files, processes, history
<1>7. Known(disk)' /\ Seen' /\ NeverSignalsStranger' /\ RolePresent'
  BY <1>1 DEF Sound, Known, Seen, IsRunning, NeverSignalsStranger, RolePresent, files, processes, history
<1>8. DaemonAccounted'
  <2>. SUFFICES ASSUME NEW p \in Kept' PROVE Recorded(p)'
    BY DEF DaemonAccounted
  <2>1. p \in Kept
    BY <1>1, KeptShrinks DEF history
  <2>2. Recorded(p)
    BY <1>1, <2>1 DEF Sound, DaemonAccounted, InHand
  <2>. QED BY <1>1, <2>2 DEF Recorded, IsRunning, files, processes
<1>9. Work(m)'
  <2>1. disk' = disk
    BY <1>1 DEF files
  <2>2. Known(job[m].state)'
    BY <1>3, <1>4, <1>7, <2>1 DEF Known, IsRunning
  <2>. QED BY <1>1, <1>3, <1>4, <2>1, <2>2 DEF Work
<1>10. Works'
  BY <1>3, <1>5, <1>9 DEF Works, Work, Others
<1>. QED BY <1>6, <1>7, <1>8, <1>10 DEF Sound

(***************************************************************************)
(* The steps of the readers and of the machine.                            *)
(***************************************************************************)

(* The managers are where they were.                                       *)
LEMMA WorksKept ==
  ASSUME TypeOK, Sound, UNCHANGED <<files, births, daemons, managers, adrift>>,
         \A p \in Pid : table'[p] # 0 /\ p \in Kept' => p \in Kept /\ table'[p] = table[p], Kept' \subseteq Kept
  PROVE  Works' /\ DaemonAccounted' /\ RolePresent' /\ Known(disk)'
<1>1. UNCHANGED <<disk, roles, births, daemons, lock, job, adrift>>
  BY DEF files, managers
<1>2. \A p \in Kept' : p \in Pid /\ table'[p] = table[p]
  <2>. SUFFICES ASSUME NEW p \in Kept' PROVE p \in Pid /\ table'[p] = table[p]
    OBVIOUS
  <2>1. p \in Pid /\ table'[p] \in daemons
    BY <1>1 DEF Kept, Live
  <2>2. table'[p] # 0
    BY <2>1 DEF TypeOK
  <2>. QED BY <2>1, <2>2
<1>3. ASSUME NEW m \in Manager PROVE Work(m)'
  <2>1. Work(m)
    BY DEF Sound, Works
  <2>2. Kept \subseteq Child(m) => Kept' \subseteq Child(m)'
    BY <1>1, <1>2 DEF Child
  <2>3. Known(job[m].state) => Known(job[m].state)'
    BY <1>1 DEF Known, IsRunning
  <2>4. Kept = {} => Kept' = {}
    OBVIOUS
  <2>5. disk' = disk /\ (IsRunning(disk') <=> IsRunning(disk)) /\ (IsRunning(job'[m].state) <=> IsRunning(job[m].state))
    BY <1>1 DEF IsRunning
  <2>. QED BY <1>1, <2>1, <2>2, <2>3, <2>4, <2>5 DEF Work
<1>4. DaemonAccounted'
  <2>. SUFFICES ASSUME NEW p \in Kept' PROVE Recorded(p)' \/ InHand(p)'
    BY DEF DaemonAccounted
  <2>1. p \in Kept /\ table'[p] = table[p]
    BY <1>2
  <2>2. Recorded(p) \/ InHand(p)
    BY <2>1 DEF Sound, DaemonAccounted
  <2>. QED BY <1>1, <2>1, <2>2 DEF Recorded, IsRunning, InHand
<1>5. RolePresent' /\ Known(disk)'
  BY <1>1 DEF Sound, RolePresent, Known, IsRunning
<1>. QED BY <1>3, <1>4, <1>5 DEF Works

LEMMA ReaderStep ==
  ASSUME TypeOK, Sound, NEW r \in Reader, Load(r) \/ SeesAlive(r)
  PROVE  TypeOK' /\ Sound'
<1>1. /\ UNCHANGED <<files, births, daemons, managers, adrift>> /\ UNCHANGED <<processes, history>>
      /\ \E state \in {disk, NoState} : seen' = [seen EXCEPT ![r] = state]
  BY DEF Load, SeesAlive, processes, history
<1>2. TypeOK' /\ UNCHANGED <<signalled, loose, overwritten, table, daemons>>
  BY <1>1 DEF TypeOK, files, processes, managers, history
<1>3. Kept' = Kept
  BY <1>2 DEF Kept, Live
<1>4. Works' /\ DaemonAccounted' /\ RolePresent' /\ Known(disk)'
  BY <1>1, <1>2, <1>3, WorksKept
<1>5. \A q \in Reader : seen'[q] \in {seen[q], disk, NoState}
  BY <1>1 DEF TypeOK
<1>6. \A q \in Reader : Known(seen'[q])
  BY <1>5 DEF Sound, Seen, Known
<1>7. Seen'
  BY <1>2, <1>6 DEF Seen, Known, IsRunning
<1>8. NeverSignalsStranger'
  BY <1>2 DEF Sound, NeverSignalsStranger
<1>. QED BY <1>2, <1>4, <1>7, <1>8 DEF Sound

LEMMA HealStep ==
  ASSUME TypeOK, Sound, NEW r \in Reader, Heal(r)
  PROVE  TypeOK' /\ Sound'
<1>1. /\ seen[r] \in ServiceState /\ "dead" \in Observations(seen[r].process)
      /\ disk' = Stopped(seen[r]) /\ seen' = [seen EXCEPT ![r] = NoState]
      /\ overwritten' = overwritten \cup (IF IsRunning(disk) /\ disk.process # seen[r].process THEN {disk.process.born} ELSE {})
      /\ adrift' = (adrift \/ disk = NoState \/ disk.generation # seen[r].generation)
      /\ UNCHANGED <<roles, table, births, daemons, orphan, lock, job, signalled, loose>>
  BY DEF Heal, TypeOK, processes, managers
<1>2. IsRunning(disk) => disk.process \in ProcessIdentity /\ disk.process.born \in Birth
  BY DEF Sound, Known, IsRunning, TypeOK, ServiceState, ProcessIdentity
<1>3. /\ disk' \in ServiceState /\ disk' # NoState /\ ~IsRunning(disk') /\ disk'.generation = seen[r].generation
      /\ disk'.process = NoProc
  BY <1>1, StoppedFacts DEF Stopped, ServiceState
<1>4. TypeOK'
  BY <1>1, <1>2, <1>3 DEF TypeOK
<1>5. ASSUME NEW p \in Kept' PROVE p \in Kept /\ ~Recorded(p)
  <2>1. p \in Kept
    BY <1>1 DEF Kept, Live
  <2>2. CASE Recorded(p)
    <3>1. IsRunning(disk) /\ disk.process = [pid |-> p, born |-> table[p]] /\ disk.process.born = table[p]
      BY <2>2 DEF Recorded
    <3>2. disk.process # seen[r].process
      BY <1>1, <1>2, <2>1, <3>1, KeptFacts
    <3>3. table[p] \in overwritten'
      BY <1>1, <3>1, <3>2
    <3>. QED BY <1>1, <3>3 DEF Kept, Live
  <2>. QED BY <2>1, <2>2
<1>6. DaemonAccounted'
  <2>. SUFFICES ASSUME NEW p \in Kept' PROVE InHand(p)'
    BY DEF DaemonAccounted
  <2>1. InHand(p)
    BY <1>5 DEF Sound, DaemonAccounted
  <2>. QED BY <1>1, <2>1 DEF InHand
<1>7. Works'
  <2>. SUFFICES ASSUME NEW m \in Manager PROVE Work(m)'
    BY DEF Works
  <2>1. Work(m) /\ Kept' \subseteq Kept
    BY <1>5 DEF Sound, Works
  <2>2. Kept \subseteq Child(m) => Kept' \subseteq Child(m)'
    BY <1>1, <2>1 DEF Child
  <2>3. Known(job[m].state) => Known(job[m].state)'
    BY <1>1 DEF Known, IsRunning
  <2>4. Kept = {} => Kept' = {}
    BY <2>1
  <2>5. IsRunning(job'[m].state) <=> IsRunning(job[m].state)
    BY <1>1 DEF IsRunning
  <2>7. adrift => adrift'
    BY <1>1
  <2>6. disk # NoState /\ (adrift \/ disk.generation = job[m].state.generation)
          => adrift' \/ disk'.generation = job[m].state.generation
    BY <1>1, <1>3
  <2>. QED BY <1>1, <1>3, <2>1, <2>2, <2>3, <2>4, <2>5, <2>6, <2>7 DEF Work
<1>8. Known(disk)' /\ RolePresent'
  BY <1>1, <1>3 DEF Known, Sound, RolePresent
<1>9. \A q \in Reader : seen'[q] \in {seen[q], NoState}
  BY <1>1 DEF TypeOK
<1>10. Seen' /\ NeverSignalsStranger'
  BY <1>1, <1>9 DEF Sound, Seen, Known, IsRunning, NeverSignalsStranger
<1>. QED BY <1>4, <1>6, <1>7, <1>8, <1>10 DEF Sound

LEMMA ExitsStep ==
  ASSUME TypeOK, Sound, NEW p \in Pid, Exits(p)
  PROVE  TypeOK' /\ Sound'
<1>1. /\ table' = [table EXCEPT ![p] = 0] /\ UNCHANGED <<files, births, daemons, managers, seen, history>>
  BY DEF Exits
<1>2. TypeOK'
  BY <1>1 DEF Exits, TypeOK, files, managers, history
<1>3. /\ Kept' \subseteq Kept /\ \A q \in Pid : table'[q] # 0 /\ q \in Kept' => q \in Kept /\ table'[q] = table[q]
  <2>1. ASSUME NEW q \in Kept' PROVE q \in Kept /\ table'[q] = table[q]
    <3>1. q \in Pid /\ table'[q] \in daemons /\ table'[q] \notin loose \cup overwritten
      BY <1>1 DEF Kept, Live, history
    <3>2. table'[q] # 0
      BY <3>1 DEF TypeOK
    <3>3. table'[q] = table[q]
      BY <1>1, <3>1, <3>2 DEF TypeOK
    <3>. QED BY <3>1, <3>3 DEF Kept, Live
  <2>. QED BY <2>1
<1>4. Works' /\ DaemonAccounted' /\ RolePresent' /\ Known(disk)'
  BY <1>1, <1>3, WorksKept DEF history
<1>5. Seen' /\ NeverSignalsStranger'
  BY <1>1 DEF Sound, Seen, Known, IsRunning, NeverSignalsStranger, history
<1>. QED BY <1>2, <1>4, <1>5 DEF Sound

LEMMA StrangerStep ==
  ASSUME TypeOK, Sound, NEW p \in Pid, Stranger(p)
  PROVE  TypeOK' /\ Sound'
<1>1. PICK b \in Birth : b = births + 1 /\ b \notin daemons
  BY DEF Stranger, TypeOK
<1>2. /\ births' = b /\ table' = [table EXCEPT ![p] = b] /\ table[p] = 0
      /\ UNCHANGED <<disk, roles, daemons, lock, job, seen, signalled, loose, overwritten, adrift>>
  BY <1>1 DEF Stranger, files, managers, history
<1>3. TypeOK'
  <2>1. table' \in [Pid -> 0 .. births'] /\ births' \in Birth \cup {0}
    BY <1>1, <1>2 DEF TypeOK
  <2>2. daemons' \subseteq 1 .. births' /\ signalled' \subseteq 1 .. births' /\ loose' \subseteq daemons'
    BY <1>1, <1>2 DEF TypeOK
  <2>3. orphan' \in [Manager -> 0 .. births' + 1]
    BY <1>1, <1>2 DEF TypeOK, Stranger
  <2>. QED BY <1>2, <2>1, <2>2, <2>3 DEF TypeOK
<1>4. \A q \in Kept' : q \in Kept /\ table'[q] = table[q]
  <2>. SUFFICES ASSUME NEW q \in Kept' PROVE q \in Kept /\ table'[q] = table[q]
    OBVIOUS
  <2>1. q \in Pid /\ table'[q] \in daemons /\ table'[q] \notin loose \cup overwritten
    BY <1>2 DEF Kept, Live
  <2>2. table'[q] = table[q]
    BY <1>1, <1>2, <2>1 DEF TypeOK
  <2>. QED BY <2>1, <2>2 DEF Kept, Live
<1>5. Kept' \subseteq Kept
  BY <1>4
<1>6. Works'
  <2>. SUFFICES ASSUME NEW m \in Manager PROVE Work(m)'
    BY DEF Works
  <2>1. Work(m)
    BY DEF Sound, Works
  <2>2. Kept \subseteq Child(m) => Kept' \subseteq Child(m)'
    BY <1>2, <1>4 DEF Child, Kept, Live
  <2>3. Known(job[m].state) => Known(job[m].state)'
    BY <1>2 DEF Known, IsRunning
  <2>4. Kept = {} => Kept' = {}
    BY <1>5
  <2>5. (IsRunning(disk') <=> IsRunning(disk)) /\ (IsRunning(job'[m].state) <=> IsRunning(job[m].state))
    BY <1>2 DEF IsRunning
  <2>. QED BY <1>2, <2>1, <2>2, <2>3, <2>4, <2>5 DEF Work
<1>7. DaemonAccounted'
  <2>. SUFFICES ASSUME NEW q \in Kept' PROVE Recorded(q)' \/ InHand(q)'
    BY DEF DaemonAccounted
  <2>1. q \in Kept /\ table'[q] = table[q]
    BY <1>4
  <2>2. Recorded(q) \/ InHand(q)
    BY <2>1 DEF Sound, DaemonAccounted
  <2>. QED BY <1>2, <2>1, <2>2 DEF Recorded, IsRunning, InHand
<1>8. Known(disk)' /\ Seen' /\ NeverSignalsStranger' /\ RolePresent'
  BY <1>2 DEF Sound, Seen, Known, IsRunning, NeverSignalsStranger, RolePresent
<1>. QED BY <1>3, <1>6, <1>7, <1>8 DEF Sound

LEMMA OrphanEndsStep ==
  ASSUME TypeOK, Sound, NEW m \in Manager, OrphanEnds(m)
  PROVE  TypeOK' /\ Sound'
<1>1. /\ UNCHANGED <<files, births, daemons, managers, adrift>> /\ UNCHANGED <<table, seen, signalled, loose, overwritten>>
      /\ orphan' = [orphan EXCEPT ![m] = 0]
  BY DEF OrphanEnds, history
<1>2. TypeOK' /\ Kept' = Kept
  BY <1>1 DEF TypeOK, Kept, Live, files, managers
<1>3. Works' /\ DaemonAccounted' /\ RolePresent' /\ Known(disk)'
  BY <1>1, <1>2, WorksKept
<1>. QED BY <1>1, <1>2, <1>3 DEF Sound, Seen, Known, IsRunning, NeverSignalsStranger

(***************************************************************************)
(* The invariant and what follows from it.                                 *)
(***************************************************************************)

LEMMA SoundInit == Init => TypeOK /\ Sound
<1>. SUFFICES ASSUME Init PROVE TypeOK /\ Sound
  OBVIOUS
<1>1. TypeOK
  <2>1. /\ births \in Birth \cup {0} /\ table \in [Pid -> 0 .. births]
        /\ job \in [Manager -> Job \cup {Idle}] /\ orphan \in [Manager -> 0 .. births + 1] /\ seen \in [Reader -> ServiceState \cup {NoState}]
    BY DEF Init
  <2>2. /\ disk \in ServiceState \cup {NoState} /\ lock \in Manager \cup {Nobody} /\ adrift \in BOOLEAN
        /\ roles = {} /\ daemons = {} /\ signalled = {} /\ loose = {} /\ overwritten = {}
    BY DEF Init
  <2>. QED BY <2>1, <2>2 DEF TypeOK
<1>2. Works /\ Seen /\ Known(disk) /\ NeverSignalsStranger /\ RolePresent
  BY DEF Init, Works, Work, Seen, Known, NeverSignalsStranger, RolePresent
<1>3. DaemonAccounted
  BY DEF Init, DaemonAccounted, Kept, Live
<1>. QED BY <1>1, <1>2, <1>3 DEF Sound

LEMMA SoundStep ==
  ASSUME TypeOK, Sound, [Next]_vars
  PROVE  TypeOK' /\ Sound'
<1>1. ASSUME NEW m \in Manager, NEW op \in {"start", "configure", "stop", "purge", "run"}, Enter(m, op) PROVE TypeOK' /\ Sound'
  BY <1>1, EnterStep
<1>2. ASSUME NEW m \in Manager, Refuse(m) \/ FindsUnverifiable(m) \/ RoleMissing(m) PROVE TypeOK' /\ Sound'
  BY <1>2, RefuseStep
<1>3. ASSUME NEW m \in Manager, FindsStarted(m) \/ FindsDead(m) \/ Materialize(m) PROVE TypeOK' /\ Sound'
  BY <1>3, StartedStep, DeadStep, MaterializeStep
<1>4. ASSUME NEW m \in Manager, FindsStopped(m) \/ Gone(m) \/ StopsWaiting(m) PROVE TypeOK' /\ Sound'
  BY <1>4, StoppedStep
<1>5. ASSUME NEW m \in Manager, NEW p \in Pid, Launch(m, p) PROVE TypeOK' /\ Sound'
  BY <1>5, LaunchStep
<1>6. ASSUME NEW m \in Manager, Confirm(m) \/ ExitedImmediately(m) \/ Unproven(m) PROVE TypeOK' /\ Sound'
  BY <1>6, ConfirmStep, ChildStep
<1>7. ASSUME NEW m \in Manager, Terminate(m) \/ Kill(m) PROVE TypeOK' /\ Sound'
  BY <1>7, SignalStep
<1>8. ASSUME NEW m \in Manager, RecordStop(m) \/ Purged(m) \/ PurgeFails(m) PROVE TypeOK' /\ Sound'
  BY <1>8, RecordStep, PurgedStep
<1>13. ASSUME NEW m \in Manager, Purge(m) \/ RemovesState(m) \/ \E gen \in Gen : RemovesRole(m, gen) PROVE TypeOK' /\ Sound'
  BY <1>13, PurgeStep
<1>14. ASSUME NEW m \in Manager, OrphanEnds(m) PROVE TypeOK' /\ Sound'
  BY <1>14, OrphanEndsStep
<1>9. ASSUME NEW m \in Manager, TickBegins(m) \/ TickEnds(m) \/ Crash(m) PROVE TypeOK' /\ Sound'
  BY <1>9, TickStep, TickedStep, CrashStep
<1>10. ASSUME NEW r \in Reader, Load(r) \/ SeesAlive(r) \/ Heal(r) PROVE TypeOK' /\ Sound'
  BY <1>10, ReaderStep, HealStep
<1>11. ASSUME NEW p \in Pid, Exits(p) \/ Stranger(p) PROVE TypeOK' /\ Sound'
  BY <1>11, ExitsStep, StrangerStep
<1>12. CASE UNCHANGED vars
  <2>1. UNCHANGED <<files, births, daemons, managers, adrift>> /\ UNCHANGED <<table, orphan, seen, signalled, loose, overwritten>>
    BY <1>12 DEF vars, processes, history
  <2>2. TypeOK' /\ Kept' = Kept
    BY <2>1 DEF TypeOK, Kept, Live, files, managers
  <2>3. Works' /\ DaemonAccounted' /\ RolePresent' /\ Known(disk)'
    BY <2>1, <2>2, WorksKept
  <2>. QED BY <2>1, <2>2, <2>3 DEF Sound, Seen, Known, IsRunning, NeverSignalsStranger
<1>. QED BY <1>1, <1>2, <1>3, <1>4, <1>5, <1>6, <1>7, <1>8, <1>9, <1>10, <1>11, <1>12, <1>13, <1>14 DEF Next, Command

LEMMA SoundAlways == Spec => [](TypeOK /\ Sound)
<1>1. TypeOK /\ Sound /\ [Next]_vars => (TypeOK /\ Sound)'
  BY SoundStep
<1>. QED BY <1>1, SoundInit, PTL DEF Spec

(* Every variable keeps its type: the births in the table are of processes *)
(* that were born, and those let go of are daemons.                        *)
THEOREM AlwaysOnTypeCorrect == Spec => []TypeOK
BY SoundAlways, PTL

(* A live daemon is in the state file or in the hand of the command that   *)
(* holds the lock, unless a fault let go of it or a repair overwrote it    *)
(* (services/always_on.py, start_daemon and _heal_state).                  *)
THEOREM DaemonsAreAccounted == Spec => []DaemonAccounted
<1>1. Sound => DaemonAccounted
  BY DEF Sound
<1>. QED BY <1>1, SoundAlways, PTL

(* A service has at most one daemon that it can know of.                   *)
THEOREM ServiceHasOneDaemon == Spec => []OneDaemon
<1>1. TypeOK /\ Sound => OneDaemon
  <2>. SUFFICES ASSUME TypeOK, Sound, NEW p \in Kept, NEW q \in Kept PROVE p = q
    BY DEF OneDaemon
  <2>1. CASE \E m \in Manager : job[m].at = "launched"
    <3>1. PICK m \in Manager : job[m].at = "launched"
      BY <2>1
    <3>2. Kept \subseteq Child(m)
      BY <3>1 DEF Sound, Works, Work, Idle
    <3>3. [pid |-> p, born |-> table[p]] = [pid |-> q, born |-> table[q]]
      BY <3>2 DEF Child
    <3>. QED BY <3>3
  <2>2. CASE ~\E m \in Manager : job[m].at = "launched"
    <3>1. disk.process = [pid |-> p, born |-> table[p]] /\ disk.process = [pid |-> q, born |-> table[q]]
      BY <2>2 DEF Sound, DaemonAccounted, InHand, Recorded
    <3>2. [pid |-> p, born |-> table[p]] = [pid |-> q, born |-> table[q]]
      BY <3>1
    <3>. QED BY <3>2
  <2>. QED BY <2>1, <2>2
<1>. QED BY <1>1, SoundAlways, PTL

(* A one-shot run that outlived its manager began after every daemon that  *)
(* is kept had gone: those beside it were born later.                      *)
OrphansOlder == \A m \in Manager, p \in Kept : orphan[m] <= table[p]

LEMMA OrphansStep ==
  ASSUME TypeOK, Sound, OrphansOlder, [Next]_vars
  PROVE  OrphansOlder'
<1>1. ASSUME \A p \in Kept' : p \in Kept /\ table'[p] = table[p], \A m \in Manager : orphan'[m] \in {orphan[m], 0}
      PROVE  OrphansOlder'
  <2>. SUFFICES ASSUME NEW m \in Manager, NEW p \in Kept' PROVE orphan'[m] <= table'[p]
    BY DEF OrphansOlder
  <2>1. p \in Kept /\ p \in Pid /\ table'[p] = table[p] /\ orphan'[m] \in {orphan[m], 0} /\ orphan[m] <= table[p]
    BY <1>1 DEF OrphansOlder, Kept, Live
  <2>. QED BY <2>1 DEF TypeOK
<1>2. CASE /\ UNCHANGED processes /\ loose \subseteq loose' /\ overwritten \subseteq overwritten'
  <2>1. Kept' \subseteq Kept /\ table' = table /\ orphan' = orphan
    BY <1>2, KeptShrinks DEF processes
  <2>. QED BY <1>1, <2>1
<1>3. ASSUME NEW m \in Manager, Crash(m) PROVE OrphansOlder'
  <2>1. /\ job[m] # Idle /\ UNCHANGED <<table, daemons, overwritten>> /\ loose \subseteq loose'
        /\ job[m].at # "ticking" => orphan' = orphan
    BY <1>3 DEF Crash
  <2>2. \A p \in Kept' : p \in Kept /\ table'[p] = table[p]
    BY <2>1 DEF Kept, Live
  <2>3. CASE job[m].at = "ticking"
    <3>1. Kept = {}
      BY <2>1, <2>3 DEF Sound, Works, Work
    <3>. QED BY <2>2, <3>1 DEF OrphansOlder
  <2>. QED BY <1>1, <2>1, <2>2, <2>3
<1>4. ASSUME NEW m \in Manager, OrphanEnds(m) PROVE OrphansOlder'
  <2>1. UNCHANGED <<table, daemons, loose, overwritten>> /\ \A q \in Manager : orphan'[q] \in {orphan[q], 0}
    BY <1>4 DEF OrphanEnds, history, TypeOK
  <2>2. \A p \in Kept' : p \in Kept /\ table'[p] = table[p]
    BY <2>1 DEF Kept, Live
  <2>. QED BY <1>1, <2>1, <2>2
<1>5. ASSUME NEW p \in Pid, Exits(p) PROVE OrphansOlder'
  <2>1. table' = [table EXCEPT ![p] = 0] /\ UNCHANGED <<daemons, orphan, loose, overwritten>>
    BY <1>5 DEF Exits, history
  <2>2. \A q \in Kept' : q \in Kept /\ table'[q] = table[q]
    BY <2>1 DEF Kept, Live, TypeOK
  <2>. QED BY <1>1, <2>1, <2>2
<1>6. ASSUME NEW p \in Pid, Stranger(p) PROVE OrphansOlder'
  <2>1. table' = [table EXCEPT ![p] = births + 1] /\ UNCHANGED <<daemons, orphan, loose, overwritten>> /\ births + 1 \notin daemons
    BY <1>6 DEF Stranger, history, TypeOK
  <2>2. \A q \in Kept' : q \in Kept /\ table'[q] = table[q]
    BY <2>1 DEF Kept, Live, TypeOK
  <2>. QED BY <1>1, <2>1, <2>2
<1>7. ASSUME NEW m \in Manager, NEW p \in Pid, Launch(m, p) PROVE OrphansOlder'
  <2>1. /\ table' = [table EXCEPT ![p] = births + 1] /\ daemons' = daemons \cup {births + 1}
        /\ UNCHANGED <<orphan, loose, overwritten>> /\ births \in Nat
    BY <1>7 DEF Launch, history, TypeOK
  <2>. SUFFICES ASSUME NEW n \in Manager, NEW q \in Kept' PROVE orphan'[n] <= table'[q]
    BY DEF OrphansOlder
  <2>2. q \in Pid
    BY DEF Kept, Live
  <2>3. CASE q = p
    BY <2>1, <2>3 DEF TypeOK
  <2>4. CASE q # p
    <3>1. table'[q] = table[q] /\ table[q] \in 0 .. births /\ table[q] # births + 1
      BY <2>1, <2>2, <2>4 DEF TypeOK
    <3>2. q \in Kept
      BY <2>1, <2>2, <3>1 DEF Kept, Live
    <3>. QED BY <2>1, <3>1, <3>2 DEF OrphansOlder
  <2>. QED BY <2>3, <2>4
<1>8. ASSUME NEW m \in Manager, Command(m) PROVE OrphansOlder'
  <2>1. ASSUME NEW op \in {"start", "configure", "stop", "purge", "run"}, Enter(m, op) PROVE OrphansOlder'
    BY <1>2, <2>1 DEF Enter, history
  <2>2. CASE \/ Refuse(m) \/ FindsUnverifiable(m) \/ FindsStarted(m) \/ FindsDead(m) \/ FindsStopped(m)
             \/ Materialize(m) \/ RoleMissing(m)
    BY <1>2, <2>2 DEF Refuse, FindsUnverifiable, FindsStarted, FindsDead, FindsStopped, Materialize, RoleMissing, history
  <2>3. CASE Confirm(m) \/ ExitedImmediately(m) \/ Unproven(m) \/ Terminate(m) \/ Gone(m) \/ Kill(m) \/ StopsWaiting(m)
    BY <1>2, <2>3 DEF Confirm, ExitedImmediately, Unproven, Terminate, Gone, Kill, StopsWaiting, history
  <2>4. CASE RecordStop(m) \/ TickBegins(m) \/ TickEnds(m) \/ Purge(m) \/ RemovesState(m) \/ Purged(m) \/ PurgeFails(m)
    BY <1>2, <2>4 DEF RecordStop, TickBegins, TickEnds, Purge, RemovesState, Purged, PurgeFails, history
  <2>5. ASSUME NEW gen \in Gen, RemovesRole(m, gen) PROVE OrphansOlder'
    BY <1>2, <2>5 DEF RemovesRole, history
  <2>. QED BY <1>3, <1>4, <1>7, <1>8, <2>1, <2>2, <2>3, <2>4, <2>5 DEF Command
<1>9. ASSUME NEW r \in Reader, Load(r) \/ SeesAlive(r) \/ Heal(r) PROVE OrphansOlder'
  BY <1>2, <1>9 DEF Load, SeesAlive, Heal, history
<1>10. CASE UNCHANGED vars
  BY <1>2, <1>10 DEF vars, history
<1>. QED BY <1>5, <1>6, <1>8, <1>9, <1>10 DEF Next

(* While a forced run executes the role, no daemon known to it is alive;   *)
(* beside one that outlived its manager, only daemons of later starts are. *)
THEOREM ForcedRunIsAlone == Spec => []TickAlone
<1>1. TypeOK /\ Sound /\ OrphansOlder /\ [Next]_vars => OrphansOlder'
  BY OrphansStep
<1>2. Init => OrphansOlder
  BY DEF Init, OrphansOlder, Kept, Live
<1>3. Sound /\ OrphansOlder => TickAlone
  <2>. SUFFICES ASSUME Sound, NEW m \in Manager, job[m].at = "ticking" PROVE Kept = {}
    BY DEF TickAlone, OrphansOlder
  <2>1. job[m] # Idle
    BY DEF Idle
  <2>. QED BY <2>1 DEF Sound, Works, Work
<1>. QED BY <1>1, <1>2, <1>3, SoundAlways, PTL DEF Spec

(* Only daemons of the service are ever sent a signal.                     *)
THEOREM StrangersAreNotSignalled == Spec => []NeverSignalsStranger
<1>1. Sound => NeverSignalsStranger
  BY DEF Sound
<1>. QED BY <1>1, SoundAlways, PTL

(* The generation the state file names has its role file.                  *)
THEOREM RoleIsPresent == Spec => []RolePresent
<1>1. Sound => RolePresent
  BY DEF Sound
<1>. QED BY <1>1, SoundAlways, PTL
=============================================================================
