------------------------------ MODULE AlwaysOn ------------------------------
(***************************************************************************)
(* One always-on service of services/always_on.py: the daemon a manager    *)
(* starts and leaves behind, the state file that names it, the role files  *)
(* of its generations, and the commands that start, stop, purge and force  *)
(* a run of it, each under a lock that the kernel drops with its holder.   *)
(* status and list take no lock, and repair the state file all the same.   *)
(*                                                                         *)
(* A process identity is its pid and its birth: the boot and the start     *)
(* tick that /proc gives tell two births of one pid apart.  An observation *)
(* and the signal or the write that follows it at once are one action.     *)
(***************************************************************************)
EXTENDS Integers, FiniteSets

CONSTANTS
  Manager,   \* processes that run start, stop, or run
  Reader,    \* processes that run status or list
  Pid,
  MaxBirth,  \* bound: processes born, the daemons and the strangers
  MaxGen,    \* bound: generations of the role
  Nobody,    \* holds the lock when no manager does
  NoState,   \* no state file
  NoProc     \* no process in the state file

ASSUME AlwaysOnAssumption ==
  /\ MaxBirth \in Nat /\ MaxGen \in Nat
  /\ Nobody \notin Manager

Birth == 1 .. MaxBirth
Gen == 1 .. MaxGen
ProcessIdentity == [pid : Pid, born : Birth]
ServiceState ==
  [status : {"running", "stopped"}, process : ProcessIdentity \cup {NoProc}, generation : Gen]

ASSUME IdentityAssumption == NoProc \notin ProcessIdentity
ASSUME StateAssumption == NoState \notin ServiceState

Starts == {"start", "configure", "restart"}  \* configure is a start with overrides
Stops == {"stop", "purge", "run"}
At == {"loaded", "closed", "ready", "launched", "stopping", "killing", "halted", "ticking", "purging"}
Job == [at : At, op : Starts \cup Stops,
        state : ServiceState \cup {NoState}, child : ProcessIdentity \cup {NoProc}]
Idle == [at |-> "idle", op |-> "none", state |-> NoState, child |-> NoProc]

VARIABLES
  disk,        \* the state file
  roles,       \* generations whose role file exists
  table,       \* the birth of the process that has each pid, 0 when it is free
  births,      \* processes born so far
  daemons,     \* those of them that are daemons of the service
  orphan,      \* 0, or each manager's one-shot run when it has outlived the manager, as
               \* the first birth that could come after
  lock,        \* who holds the flock
  job,         \* what each manager is doing, its copy of the state and its child
  seen,        \* the running state each reader has loaded and not yet observed
  signalled,   \* history: births that were sent a signal
  loose,       \* history: daemons let go of by a crash, a failed proof or a failed kill
  overwritten, \* history: daemons whose record a stale repair overwrote
  adrift       \* history: a stale repair wrote another generation than it found, or a
               \* purge is under way or was cut short

files == <<disk, roles>>
processes == <<table, births, daemons, orphan>>
managers == <<lock, job>>
history == <<signalled, loose, overwritten, adrift>>
vars == <<files, processes, managers, seen, history>>

TypeOK ==
  /\ disk \in ServiceState \cup {NoState}
  /\ roles \subseteq Gen
  /\ table \in [Pid -> 0 .. births]
  /\ births \in Birth \cup {0}
  /\ daemons \subseteq 1 .. births
  /\ orphan \in [Manager -> 0 .. births + 1]
  /\ lock \in Manager \cup {Nobody}
  /\ job \in [Manager -> Job \cup {Idle}]
  /\ seen \in [Reader -> ServiceState \cup {NoState}]
  /\ signalled \subseteq 1 .. births
  /\ loose \subseteq daemons
  /\ overwritten \subseteq Birth
  /\ adrift \in BOOLEAN

Init ==
  /\ disk = NoState /\ roles = {}
  /\ table = [p \in Pid |-> 0] /\ births = 0 /\ daemons = {}
  /\ orphan = [m \in Manager |-> 0]
  /\ lock = Nobody /\ job = [m \in Manager |-> Idle]
  /\ seen = [r \in Reader |-> NoState]
  /\ signalled = {} /\ loose = {} /\ overwritten = {} /\ adrift = FALSE

(***************************************************************************)
(* Observing a process.                                                    *)
(***************************************************************************)
(* Mutant: a live pid is taken for the daemon. *)
MatchesPidOnly(id) == table[id.pid] # 0

Matches(id) == table[id.pid] = id.born

(* What observe_process may find: /proc may be unreadable for a live pid. *)
Observations(id) ==
  IF id = NoProc \/ table[id.pid] = 0 THEN {"dead"}
  ELSE {"unverifiable", IF Matches(id) THEN "running" ELSE "dead"}

IsRunning(state) == state # NoState /\ state.status = "running"
Stopped(state) == [state EXCEPT !.status = "stopped", !.process = NoProc]

(***************************************************************************)
(* A command, from the lock on.                                            *)
(***************************************************************************)
Becomes(m, work) == job' = [job EXCEPT ![m] = work]

(* stop and purge are content with what is left of the directory; the name *)
(* of a manager is not taken again while its one-shot run goes on.         *)
MayBegin(m, op) ==
  /\ job[m] = Idle /\ orphan[m] = 0
  /\ op = "run" => disk # NoState
  /\ op \in {"stop", "purge"} => disk # NoState \/ roles # {}

(* Mutant: the state is loaded and acted on without the lock. *)
EnterUnlocked(m, op) ==
  /\ MayBegin(m, op)
  /\ lock' = m
  /\ Becomes(m, [at |-> "loaded", op |-> op, state |-> disk, child |-> NoProc])
  /\ UNCHANGED <<files, processes, seen, history>>

Enter(m, op) ==
  /\ lock = Nobody /\ MayBegin(m, op)
  /\ lock' = m
  /\ Becomes(m, [at |-> "loaded", op |-> op, state |-> disk, child |-> NoProc])
  /\ UNCHANGED <<files, processes, seen, history>>

Leave(m) == lock' = Nobody /\ Becomes(m, Idle)
Go(m, at) == Becomes(m, [job[m] EXCEPT !.at = at]) /\ UNCHANGED lock

(* An error ends the command; that of a restart is kept in the state. *)
Fail(m) ==
  /\ Leave(m)
  /\ disk' = IF job[m].op = "restart" /\ disk # NoState THEN Stopped(disk) ELSE disk
  /\ UNCHANGED roles

Finds(m, obs) ==
  /\ job[m].at = "loaded" /\ IsRunning(job[m].state)
  /\ obs \in Observations(job[m].state.process)

(* With a state and no overrides, a start takes the role it has. *)
Reuses(m) ==
  job[m].at = "closed" /\ job[m].op \in {"start", "restart"} /\ job[m].state # NoState

(* Preflight or the catalog refuse a start before it has looked at the     *)
(* state, its parameters after that.                                       *)
Refuse(m) ==
  /\ job[m].op \in Starts
  /\ job[m].at = "loaded" \/ (job[m].at = "closed" /\ ~Reuses(m))
  /\ Fail(m)
  /\ UNCHANGED <<processes, seen, history>>

FindsUnverifiable(m) ==
  /\ Finds(m, "unverifiable")
  /\ Fail(m)
  /\ UNCHANGED <<processes, seen, history>>

(* Nothing to do, or an error because overrides were given. *)
FindsStarted(m) ==
  /\ Finds(m, "running") /\ job[m].op \in Starts
  /\ Leave(m)
  /\ UNCHANGED <<files, processes, seen, history>>

(* _heal_state, by the holder of the lock. *)
FindsDead(m) ==
  /\ Finds(m, "dead")
  /\ disk' = Stopped(job[m].state)
  /\ Becomes(m, [job[m] EXCEPT !.at = "closed", !.state = Stopped(job[m].state)])
  /\ UNCHANGED <<lock, roles, processes, seen, history>>

FindsStopped(m) ==
  /\ job[m].at = "loaded" /\ ~IsRunning(job[m].state)
  /\ Go(m, "closed")
  /\ UNCHANGED <<files, processes, seen, history>>

NextGen(state) == IF state = NoState THEN 1 ELSE state.generation + 1

Newest(gens) == {g \in gens : \A h \in gens : h <= g}

(* Mutant: the newest role files are kept, whichever is in use. *)
KeepNewest(gens, gen) == Newest(gens)

(* _gc_old_roles: the generation in use and the newest of the others. *)
GcOldRoles(gens, gen) == {gen} \cup Newest(gens \ {gen})

Materialize(m) ==
  LET gen == NextGen(job[m].state)
      fresh == [status |-> "stopped", process |-> NoProc, generation |-> gen] IN
  /\ job[m].at = "closed"
  /\ job[m].op = "configure" \/ (job[m].op = "start" /\ job[m].state = NoState)
  /\ gen <= MaxGen
  /\ disk' = fresh
  /\ roles' = GcOldRoles(roles \cup {gen}, gen)
  /\ adrift' = FALSE
  /\ Becomes(m, [job[m] EXCEPT !.at = "ready", !.state = fresh])
  /\ UNCHANGED <<lock, processes, seen, signalled, loose, overwritten>>

RoleMissing(m) ==
  /\ Reuses(m) /\ job[m].state.generation \notin roles
  /\ Fail(m)
  /\ UNCHANGED <<processes, seen, history>>

(* Popen; the child has not been looked at yet. *)
Launch(m, p) ==
  /\ job[m].at = "ready" \/ (Reuses(m) /\ job[m].state.generation \in roles)
  /\ table[p] = 0 /\ births < MaxBirth
  /\ births' = births + 1
  /\ table' = [table EXCEPT ![p] = births']
  /\ daemons' = daemons \cup {births'}
  /\ Becomes(m, [job[m] EXCEPT !.at = "launched", !.child = [pid |-> p, born |-> births']])
  /\ UNCHANGED <<files, orphan, lock, seen, history>>

Confirm(m) ==
  /\ job[m].at = "launched" /\ Matches(job[m].child)
  /\ disk' = [job[m].state EXCEPT !.status = "running", !.process = job[m].child]
  /\ Leave(m)
  /\ UNCHANGED <<roles, processes, seen, history>>

ExitedImmediately(m) ==
  /\ job[m].at = "launched" /\ ~Matches(job[m].child)
  /\ Fail(m)
  /\ UNCHANGED <<processes, seen, history>>

(* Mutant: a child whose identity cannot be proved is forgotten. *)
UnprovenForgotten(m) ==
  /\ job[m].at = "launched" /\ Matches(job[m].child)
  /\ Fail(m)
  /\ UNCHANGED <<processes, seen, history>>

(* Its identity cannot be collected: it is sent SIGTERM and not recorded. *)
Unproven(m) ==
  /\ job[m].at = "launched" /\ Matches(job[m].child)
  /\ signalled' = signalled \cup {job[m].child.born}
  /\ loose' = loose \cup {job[m].child.born}
  /\ Fail(m)
  /\ UNCHANGED <<processes, seen, overwritten, adrift>>

(***************************************************************************)
(* Stop, purge and forced run.                                             *)
(***************************************************************************)
Terminate(m) ==
  /\ Finds(m, "running") /\ job[m].op \in Stops
  /\ signalled' = signalled \cup {table[job[m].state.process.pid]}
  /\ Go(m, "stopping")
  /\ UNCHANGED <<files, processes, seen, loose, overwritten, adrift>>

(* Mutant: the deadline ends the wait, whether or not the daemon is gone. *)
GoneAtDeadline(m) ==
  /\ job[m].at = "stopping"
  /\ Go(m, "halted")
  /\ UNCHANGED <<files, processes, seen, history>>

Gone(m) ==
  /\ job[m].at \in {"stopping", "killing"}
  /\ "dead" \in Observations(job[m].state.process)
  /\ Go(m, "halted")
  /\ UNCHANGED <<files, processes, seen, history>>

(* Five seconds later it is still there. *)
Kill(m) ==
  /\ job[m].at = "stopping"
  /\ "running" \in Observations(job[m].state.process)
  /\ signalled' = signalled \cup {table[job[m].state.process.pid]}
  /\ Go(m, "killing")
  /\ UNCHANGED <<files, processes, seen, loose, overwritten, adrift>>

(* Not verifiable any more, or not gone two seconds after SIGKILL: the     *)
(* command goes on as if it were.                                          *)
StopsWaiting(m) ==
  /\ \/ job[m].at = "killing"
     \/ job[m].at = "stopping" /\ "unverifiable" \in Observations(job[m].state.process)
  /\ Matches(job[m].state.process)
  /\ loose' = loose \cup {job[m].state.process.born}
  /\ Go(m, "halted")
  /\ UNCHANGED <<files, processes, seen, signalled, overwritten, adrift>>

IsStill(m) == job[m].at \in {"closed", "halted"}

RecordStop(m) ==
  /\ IsStill(m) /\ job[m].op = "stop"
  /\ disk' = IF job[m].state = NoState THEN disk ELSE Stopped(job[m].state)
  /\ Leave(m)
  /\ UNCHANGED <<roles, processes, seen, history>>

(* rmtree lists the directory and takes its files away one by one.         *)
Purge(m) ==
  /\ IsStill(m) /\ job[m].op = "purge"
  /\ Becomes(m, [job[m] EXCEPT !.at = "purging", !.state = disk])
  /\ adrift' = TRUE
  /\ UNCHANGED <<files, lock, processes, seen, signalled, loose, overwritten>>

RemovesState(m) ==
  /\ job[m].at = "purging" /\ job[m].state # NoState
  /\ disk' = NoState
  /\ Becomes(m, [job[m] EXCEPT !.at = "purging", !.state = NoState])
  /\ UNCHANGED <<lock, roles, processes, seen, history>>

RemovesRole(m, gen) ==
  /\ job[m].at = "purging" /\ gen \in roles
  /\ roles' = roles \ {gen}
  /\ UNCHANGED <<disk, processes, managers, seen, history>>

Purged(m) ==
  /\ job[m].at = "purging" /\ disk = NoState /\ roles = {}
  /\ adrift' = FALSE
  /\ Leave(m)
  /\ UNCHANGED <<files, processes, seen, signalled, loose, overwritten>>

(* A file cannot be removed, or one was put back: the rest stays.          *)
PurgeFails(m) ==
  /\ job[m].at = "purging"
  /\ Leave(m)
  /\ UNCHANGED <<files, processes, seen, history>>

(* The one-shot run; a daemon that was stopped for it is restarted after it. *)
TickBegins(m) ==
  /\ IsStill(m) /\ job[m].op = "run"
  /\ IF job[m].at = "halted"
     THEN /\ disk' = Stopped(job[m].state)
          /\ Becomes(m, [job[m] EXCEPT !.at = "ticking", !.op = "restart"])
     ELSE /\ Becomes(m, [job[m] EXCEPT !.at = "ticking"])
          /\ UNCHANGED disk
  /\ UNCHANGED <<lock, roles, processes, seen, history>>

TickEnds(m) ==
  /\ job[m].at = "ticking"
  /\ \/ job[m].op = "run" /\ Leave(m)
     \/ /\ job[m].op = "restart"
        /\ Becomes(m, [job[m] EXCEPT !.at = "loaded", !.state = disk])
        /\ UNCHANGED lock
  /\ UNCHANGED <<files, processes, seen, history>>

(* The manager dies, and the kernel releases its lock.  What it had begun   *)
(* stays as it is, its one-shot run goes on.                               *)
Crash(m) ==
  /\ job[m] # Idle
  /\ orphan' = IF job[m].at = "ticking" THEN [orphan EXCEPT ![m] = births + 1] ELSE orphan
  /\ loose' = IF job[m].at = "launched" THEN loose \cup {job[m].child.born} ELSE loose
  /\ Leave(m)
  /\ UNCHANGED <<files, table, births, daemons, seen, signalled, overwritten, adrift>>

OrphanEnds(m) ==
  /\ orphan[m] # 0
  /\ orphan' = [orphan EXCEPT ![m] = 0]
  /\ UNCHANGED <<files, table, births, daemons, managers, seen, history>>

(***************************************************************************)
(* The readers, which hold no lock.                                        *)
(***************************************************************************)
Load(r) ==
  /\ seen[r] = NoState /\ IsRunning(disk)
  /\ seen' = [seen EXCEPT ![r] = disk]
  /\ UNCHANGED <<files, processes, managers, history>>

SeesAlive(r) ==
  /\ seen[r] # NoState
  /\ Observations(seen[r].process) # {"dead"}
  /\ seen' = [seen EXCEPT ![r] = NoState]
  /\ UNCHANGED <<files, processes, managers, history>>

(* _heal_state with what the reader loaded, whatever the file says by now. *)
Heal(r) ==
  /\ seen[r] # NoState
  /\ "dead" \in Observations(seen[r].process)
  /\ disk' = Stopped(seen[r])
  /\ overwritten' = overwritten \cup
       (IF IsRunning(disk) /\ disk.process # seen[r].process THEN {disk.process.born} ELSE {})
  /\ adrift' = (adrift \/ disk = NoState \/ disk.generation # seen[r].generation)
  /\ seen' = [seen EXCEPT ![r] = NoState]
  /\ UNCHANGED <<roles, processes, managers, signalled, loose>>

(***************************************************************************)
(* The machine.                                                            *)
(***************************************************************************)
Exits(p) ==
  /\ table[p] # 0
  /\ table' = [table EXCEPT ![p] = 0]
  /\ UNCHANGED <<files, births, daemons, orphan, managers, seen, history>>

(* Another process takes a pid; that of a child nobody reaped is not free. *)
Stranger(p) ==
  /\ table[p] = 0 /\ births < MaxBirth
  /\ \A m \in Manager : job[m].at = "launched" => job[m].child.pid # p
  /\ births' = births + 1
  /\ table' = [table EXCEPT ![p] = births']
  /\ UNCHANGED <<files, daemons, orphan, managers, seen, history>>

Command(m) ==
  \/ \E op \in {"start", "configure", "stop", "purge", "run"} : Enter(m, op)
  \/ Refuse(m) \/ FindsUnverifiable(m) \/ FindsStarted(m) \/ FindsDead(m) \/ FindsStopped(m)
  \/ Materialize(m) \/ RoleMissing(m) \/ \E p \in Pid : Launch(m, p)
  \/ Confirm(m) \/ ExitedImmediately(m) \/ Unproven(m)
  \/ Terminate(m) \/ Gone(m) \/ Kill(m) \/ StopsWaiting(m)
  \/ RecordStop(m) \/ TickBegins(m) \/ TickEnds(m) \/ Crash(m) \/ OrphanEnds(m)
  \/ Purge(m) \/ RemovesState(m) \/ (\E gen \in Gen : RemovesRole(m, gen)) \/ Purged(m) \/ PurgeFails(m)

Next ==
  \/ \E m \in Manager : Command(m)
  \/ \E r \in Reader : Load(r) \/ SeesAlive(r) \/ Heal(r)
  \/ \E p \in Pid : Exits(p) \/ Stranger(p)

Spec == Init /\ [][Next]_vars

(***************************************************************************)
(* Properties.                                                             *)
(***************************************************************************)
Live == {p \in Pid : table[p] \in daemons}
Kept == {p \in Live : table[p] \notin loose \cup overwritten}

Recorded(p) == IsRunning(disk) /\ disk.process = [pid |-> p, born |-> table[p]]
InHand(p) ==
  \E m \in Manager :
    lock = m /\ job[m].at = "launched" /\ job[m].child = [pid |-> p, born |-> table[p]]

(* No daemon is forgotten: a live one is the one in the state file or the  *)
(* child of the command that holds the lock, unless a manager died with    *)
(* it, its identity could not be proved, it survived SIGKILL, or a stale   *)
(* repair took its place.                                                  *)
DaemonAccounted == \A p \in Kept : Recorded(p) \/ InHand(p)

(* A service has one daemon: start never adds a second to one it can know. *)
OneDaemon == \A p, q \in Kept : p = q

(* A one-shot run does not share the role and its stores with a daemon.    *)
(* While its manager lives, no daemon is there; when the manager was       *)
(* killed, the run goes on and the lock is free, and the daemon of a later *)
(* start may join it, but none from before.                                *)
TickAlone ==
  /\ (\E m \in Manager : job[m].at = "ticking") => Kept = {}
  /\ \A m \in Manager, p \in Kept : orphan[m] <= table[p]

(* Signals reach daemons of the service only, however pids are reused.     *)
NeverSignalsStranger == signalled \subseteq daemons

(* The role file the state names is there, but for a stale repair and for  *)
(* what a purge leaves that is under way, was killed or has failed.        *)
RolePresent == disk # NoState /\ ~adrift => disk.generation \in roles
=============================================================================
